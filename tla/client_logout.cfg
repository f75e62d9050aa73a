SPECIFICATION FairSpec
CONSTANTS
  Users = {ann}
  Groups = {g1}
  NoOne = NoOne
  Workloads <- MCWorkloads
  MaxQuantity = 1
PROPERTY LogoutEnds
CHECK_DEADLOCK FALSE
