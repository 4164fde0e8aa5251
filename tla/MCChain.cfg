SPECIFICATION FairSpec
CONSTANTS
  Positions = 5
  BlockCount = 3
  BlockSize = 2
  Entries <- MCEntries
  Kept <- MCKept
INVARIANTS NoBlockShared WritesTheFile
PROPERTIES Terminates
