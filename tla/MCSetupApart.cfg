SPECIFICATION Spec
CONSTANTS
  Wizards = {1, 2}
  Logins = {login}
  Servers = {mcp}
  Places <- Twins
  NoOne = NoOne
  MaxEdits = 0
INVARIANTS
  OneStatePerConfig
