SPECIFICATION FairSpec
CONSTANTS
  Nodes <- MCNodes
  Cwd = "top"
  Tree <- MCTree
  Unreadable = {"closed"}
  Documents <- TwoDocuments
  NoPassword = ""
  OptionSet <- AllOptions
  MaxLinks = 1
  Removable = {"c", "alias"}
  MaxVanish = 1
INVARIANTS TypeOK SearchesTheRightFiles NoneTwice QuietStopsAtFirstMatch ExitStatusTellsOfArguments
PROPERTY Terminates
