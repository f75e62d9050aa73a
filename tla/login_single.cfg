SPECIFICATION FairSpec
CONSTANTS
  Users = {u1, u2, u3}
  Instances = {i1, i2, i3}
  NoUser = NoUser
  NoInstance = NoInstance
  MaxUsers = 2
  MaxStarts = 1
  SlowBoot = TRUE

CHECK_DEADLOCK FALSE
INVARIANTS RecordsMatchMapping IssuedInstanceEstablished NoOrphanInstance
PROPERTY LaunchingLoginAnswered
