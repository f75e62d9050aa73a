SPECIFICATION Spec
CONSTANTS
  Users = {u1, u2}
  Instances = {i1, i2}
  NoUser = NoUser
  NoInstance = NoInstance
  MaxUsers = 2
  MaxStarts = 2
  SlowBoot = FALSE

CHECK_DEADLOCK FALSE
INVARIANT LoggedInHasInstance
