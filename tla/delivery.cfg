SPECIFICATION FairSpec
CONSTANTS
  ann = ann
  bob = bob
  c1 = c1
  c2 = c2
  s1 = s1
  Users = {ann, bob}
  Groups = {g1}
  Clients = {c1, c2}
  Servers = {s1, s2}
  NoOne = NoOne
  NoServer = NoServer
  Workloads <- MCWorkloads
  MaxSends = 2
INVARIANTS PrintedInOrder ServerThreadLives
PROPERTY ListenersReceive
