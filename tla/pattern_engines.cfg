SPECIFICATION FairPatternSpec
CONSTANTS
  MaxSize = 3
  TrailingBytes <- Trailing
  Texts <- CharTexts
  OptionSet <- EarlyStopOptions
  StartCounts = {0}
  MatchKinds = {"inline", "atNewline", "spanning"}
  Patterns <- AllEngines
INVARIANTS FindsOnlyOccurrences FirstPatternIsFound
PROPERTIES ImplementsPageSearch Terminates
