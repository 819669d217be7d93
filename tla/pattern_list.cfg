SPECIFICATION PatternSpec
CONSTANTS
  MaxSize = 3
  TrailingBytes <- Trailing
  Texts <- CharTexts
  OptionSet <- PlainOptions
  StartCounts = {0}
  MatchKinds = {"inline", "atNewline", "spanning"}
  Patterns <- PosixLists
INVARIANT EveryMatchingLineIsFound
