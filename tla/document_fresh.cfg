SPECIFICATION Spec
CONSTANTS
  EmptyText = EmptyText
  text1 = text1
  text2 = text2
  MaxPages = 3
  MaxMatches = 2
  MaxLimit = 2
  MaxRuns = 1
  Texts <- MCTexts
  Docs <- AllDocs
  OptionSet <- SingleRunOptions
INVARIANTS CountIsExact ReadsWhatIsNeeded NamesTheFile PageCountsAddUp SuppressedOutput MaxCountRespected
