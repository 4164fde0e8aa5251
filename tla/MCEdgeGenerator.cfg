CONSTANTS
  Inputs <- MCInputs
  PopLimit = 3
  PairScore <- MCPairScore
SPECIFICATION Spec
CHECK_DEADLOCK FALSE
INVARIANTS EachPairOnce ShownIsShared BestFirst
PROPERTY DeliversPairs
