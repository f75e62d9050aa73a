SPECIFICATION Spec
CONSTANTS
  Players = {p1, p2, p3, p4}
  NoPlayer = NoPlayer
  Machines = {1, 2}
  Inputs <- MCInputs
  MaxArrive = 1
  MaxOnce = 2
  MaxRest = 0
  MaxTotal = 2
  MaxGuarantee = 2
SYMMETRY Symmetry
INVARIANTS NobodyLost NoFreeMachineBesideQueue
PROPERTY NobodyOvertakes
