SPECIFICATION Spec
CONSTANTS
  EmptyText = EmptyText
  text1 = text1
  text2 = text2
  MaxPages = 2
  MaxMatches = 1
  MaxLimit = 0
  MaxRuns = 2
  Texts <- MCTexts
  Docs <- RenderingDocs
  OptionSet <- CachedHoleOptions
INVARIANT CountIsExact
