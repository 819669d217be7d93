SPECIFICATION FairSpec
CONSTANTS
  EmptyText = EmptyText
  text1 = text1
  text2 = text2
  MaxPages = 3
  MaxMatches = 1
  MaxLimit = 1
  MaxRuns = 3
  Texts <- MCTexts
  Docs <- AllDocs
  OptionSet <- CachedOptions
INVARIANTS TypeOK FailuresReported WarnsIfNoTextWasSeen CacheIsFaithful
PROPERTIES CacheNeverForgets RunReturns
