SPECIFICATION Spec
CONSTANTS
  NumInputs = 1
  NumOutputs = 2
  NumHidden = 0
  FeedForward = TRUE
  SingleStructural = FALSE
  Surer = TRUE
  InitialConnection = "partial_direct"
  Slots = {a}
  MaxKey = 4
INVARIANTS
  TypeOK
  EndpointsExist
  OutputsKept
  FeedForwardIsAcyclic
PROPERTIES
  KeysAreFresh
