SPECIFICATION Spec
CONSTANTS
  Models <- MCModels
  UnknownProb <- MCUnknownProb
  MaxWords = 4
  MaxDepth = 2
  MaxHeld = 1
INVARIANTS ScoresAgree StatesAgree StateSuffices RestIsMax
CHECK_DEADLOCK FALSE
