\* A member of a household who clicks before the last answer has come, and a display.
SPECIFICATION Spec
CONSTANTS
  NULL = NULL
  anna = anna  kindle = kindle  home = home  platform = platform
  Accounts = {anna, kindle}
  Display = kindle
  Households = {home, platform}
  HouseholdOf <- MCHouseholdOf
  Platform = platform
  Paths <- MCPaths
  Lists <- MCLists
  Ops <- MCOps
  MaxCalls = 2
  MaxWrites <- MCMaxWrites
INVARIANTS TypeOK ShellHasData OwnWritesShown LateAnswersBounded
PROPERTIES LoaderEnds
