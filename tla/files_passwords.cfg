SPECIFICATION Spec
CONSTANTS
  Nodes <- MCNodes
  Cwd = "top"
  Tree <- MCTree
  Unreadable = {"closed"}
  Documents <- PasswordDocuments
  NoPassword = ""
  OptionSet <- PasswordOptions
  MaxLinks = 2
  Removable = {"c", "alias"}
  MaxVanish = 0
INVARIANT EveryPasswordIsTried
