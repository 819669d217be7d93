SPECIFICATION StartupSpec
CONSTANTS
  IntMax = 3
  LongMax = 7
  Situations <- MCSituations
  Directories = {"dir"}
  PatternFiles <- MCPatternFiles
  Malformed <- MCMalformed
  DefaultLimit = 2
  Procs = {"me", "other"}
  Me = "me"
  OtherLimits = {1}
  Files <- MCFiles
  Hidden = {".k"}
  Undeletable = {"d"}
  Now = 3
  Day = 1
  Contents <- MCContents
  Limits <- MCLimits
  Empty <- MCEmpty
  Stocked <- CacheLines
INVARIANTS StartupTypeOK HandsOver RejectsWhatIsWrong LaterOptionsWin EveryArgumentCounts KeepsToTheLimit YoungAndHiddenStay OldestAreKept LimitIsRespected
