SPECIFICATION Spec
CONSTANTS
  MaxSize = 5
  MaxContext = 2
  MaxLimit = 2
  Texts <- MCTexts
  OptionSet <- AllOptions
  StartCounts = {0, 1}
  MatchKinds = {"inline", "atNewline", "spanning"}
INVARIANTS TypeOK MaxCountRespected MatchesOnOneLine PrintsLikeGrep PrintedInsideText
PROPERTY IndexAdvances
