SPECIFICATION Spec
CONSTANTS
  Inputs <- MCInputs
  Outputs = {0}
  Hidden = {1, 2, 999}
  FeedForwardHidden = {1, 2}
  EndlessHidden = {1, 999}
  OtherInputs <- MCOtherInputs
  OtherHidden = {1}
  Networks <- MCNetworks
  MaxTurns = 3
INVARIANTS
  AdvancesSimulation
CHECK_DEADLOCK FALSE
