SPECIFICATION Spec
CONSTANTS
  Uses <- MCUses
  ReaderBlocks = 5
  ReaderBlockSize = 2
  Marks = TRUE
  Returns = TRUE
  WriterBlocks = 2
  WriterBlockSize = 3
  Contexts = 4
  Vocabulary = 3
INVARIANTS ReadsInOrder SentInOrder SentIsNormalized
PROPERTIES Terminates
