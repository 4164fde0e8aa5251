SPECIFICATION Spec
CONSTANTS
  Texts <- MCTexts
  Seeds <- MCSeeds
  WordHash <- MCWordHash
  PhraseHash <- MCPhraseHash
  Page = 3
  MinBuffer = 2
  MagicSize = 4
  InputBuffer = 5
  Partials = {1, 4, 100}
  MayGoAstray = FALSE
  TableEntries = 5
  VocabEntries = 5
  VectorLimit = 4
  Inputs <- MCInputs
  MaxSentences = 2
  CachedLength = 2
  SameBucket <- MCSameBucket
INVARIANTS EveryKeyFound OpenedIsTheText PhrasesOfTheirSpan
