SPECIFICATION Spec
CONSTANTS
  Players = {1, 2, 3}
  NoPlayer = 0
  Machines = {1, 2}
  Inputs <- MCRestingInputs
  MaxArrive = 1
  MaxOnce = 2
  MaxRest = 1
  MaxTotal = 2
  MaxGuarantee = 2
PROPERTY FinishLinesFirst
