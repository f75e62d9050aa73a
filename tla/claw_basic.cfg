SPECIFICATION BasicFairSpec
CONSTANTS
  Players = {1, 2, 3}
  NoPlayer = 0
  Machines = {1}
  Inputs <- MCInputs
  MaxArrive = 0
  MaxOnce = 2
  MaxRest = 1
  MaxTotal = 2
  MaxGuarantee = 2
PROPERTIES FinishLinesFirst AllComplete
INVARIANT GateMatchesFinisher
