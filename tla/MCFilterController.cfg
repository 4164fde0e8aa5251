SPECIFICATION FairSpec
CONSTANTS
  Threads = {t1, t2}
  Batches = {b1, b2, b3, b4}
  BatchSize = 2
  Jobs <- MCJobs
  Null = Null
  All = All
  Length <- MCLength
INVARIANTS OneOwner OutputInOrder AnnotationsAreOfTheirLine
PROPERTIES Terminates
