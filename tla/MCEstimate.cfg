SPECIFICATION Spec
CONSTANTS
  Configs <- MCConfigs
INVARIANTS CountsAreExact NeverAborts AdjustedIsKneserNey SumsToOne KeptIsClosed
