SPECIFICATION FairSpec
CONSTANTS
  Players = {1, 2, 3}
  NoPlayer = 0
  Machines = {1, 2}
  Inputs <- MCInputs
  MaxArrive = 0
  MaxOnce = 2
  MaxRest = 1
  MaxTotal = 2
  MaxGuarantee = 2
INVARIANTS TypeOK OnePlayerPerMachine PrizesCounted
PROPERTIES SlotsDoNotOverlap AllComplete
