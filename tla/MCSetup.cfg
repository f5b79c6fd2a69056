SPECIFICATION Spec
CONSTANTS
  Wizards = {1, 2}
  Logins = {login}
  Servers = {mcp}
  Places <- Beside
  NoOne = NoOne
  MaxEdits = 1
INVARIANTS
  
  StateStaysBeside
PROPERTIES
  ReplacesOnlyLatecomers
