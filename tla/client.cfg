SPECIFICATION FairSpec
CONSTANTS
  Users = {ann, bob}
  Groups = {g1}
  NoOne = NoOne
  Workloads <- MCWorkloads
  MaxQuantity = 2
INVARIANTS TokensConserved EchoAfterReply
PROPERTIES DoneMeansPrinted CommandEnds
CHECK_DEADLOCK FALSE
