CONSTANTS
  Window = 3
  Length = 4
  MaxPhrase = 2
  ReorderingLimit = 2
  PopLimit = 8
  Targets = {"w", "x", "y", "z"}
  States = {"begin", "after_w", "after_xyz"}
  BeginState = "begin"
  BeginPhrase = "<s>"
  Unwritten = {2, 9}
  Charts <- MCCharts
  StateAfter <- MCStateAfter
  PhraseScore <- MCPhraseScore
  PairScore <- MCPairScore
  FeaturesEqual <- MCFeaturesEqual
  FinalScore <- MCFinalScore
  SourceScore <- MCSourceScore
SPECIFICATION Spec
CHECK_DEADLOCK FALSE
INVARIANTS CoverageExact ReorderingBounded CallsInBounds NoDeadEnd ScoreCoversHistory ExhaustiveIsOptimal
