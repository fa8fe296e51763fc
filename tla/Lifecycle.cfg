SPECIFICATION Spec
CONSTANTS
  Clients = {1, 2}
  Commands <- MCCommands
  Launchers = {"service", "nohup"}
  Keys = {"+", "q"}
  Paddings <- MCPaddings
  MaxDaemons = 2
  MaxCommands = 2
  MaxCrashes = 1
  MaxKeys = 1
INVARIANTS
  TypeOK
  AloneIsReachable
PROPERTIES
  CommandsEnd
CHECK_DEADLOCK FALSE
