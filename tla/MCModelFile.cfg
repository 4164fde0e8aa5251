SPECIFICATION Spec
CONSTANTS
  Models <- MCModels
  UnknownProb <- MCUnknownProb
  Jobs <- MCJobs
  Hash <- MCHash
  Faults <- MCFaults
  FloatBits = 6
  TableCost = 2
  MaxHash = 40
INVARIANTS AnswersAsBuilt OnlyGoodFilesOpen
CHECK_DEADLOCK FALSE
