SPECIFICATION Spec
CONSTANTS
  Users = {u1, u2, u3}
  Instances = {i1, i2, i3, i4}
  NoUser = NoUser
  NoInstance = NoInstance
  MaxUsers = 2
  MaxStarts = 2
  SlowBoot = FALSE
SYMMETRY Symmetry
CHECK_DEADLOCK FALSE
INVARIANTS BooksAgree IssuedInstanceRuns OnlyFirstInstanceIdles
PROPERTIES SessionStaysPut PoolSpec
