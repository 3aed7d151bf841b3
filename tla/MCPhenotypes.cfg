SPECIFICATION Spec
CONSTANTS
  Inputs <- MCInputs
  Outputs = {0}
  Hidden = {1, 2, 999}
  FeedForwardHidden = {1, 2}
  EndlessHidden = {1, 999}
  OtherInputs <- MCOtherInputs
  OtherHidden = {1}
  Networks <- MCNetworks
  MaxTurns = 3
INVARIANTS
  TypeOK
  RequiredExactly
  LayersSound
  LayersComplete
  TraversalsAgree
  NoInputLost
  TranslatesTrees
  ReadsPreviousTurn
  OutputsOfTurn
PROPERTIES
  TranslationEnds
CHECK_DEADLOCK FALSE
