SPECIFICATION Spec
CONSTANTS
  Nodes <- MCNodes
  Cwd = "top"
  Tree <- MCTree
  Unreadable = {"closed"}
  Documents <- TwoDocuments
  NoPassword = ""
  OptionSet <- RecursiveOptions
  MaxLinks = 2
  Removable = {"c", "alias"}
  MaxVanish = 0
INVARIANT ExitStatusAsDocumented
