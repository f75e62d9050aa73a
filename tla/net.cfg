SPECIFICATION Spec
CONSTANTS
  Users = {ann, bob}
  Groups = {g1}
  Servers = {s1, s2}
  NoOne = NoOne
  NoServer = NoServer
  Workloads <- MCWorkloads
SYMMETRY Symmetry
INVARIANTS
  TypeOK
  OneRelationUnlessClash
  GroupOnceUnlessClash
  MemberOnce
  OrphansOnlyByRace
PROPERTIES
  InvitationSpentOnce
  OnlyFriendsWrite
