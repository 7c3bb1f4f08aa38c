SPECIFICATION FairSpec
CONSTANTS
  Lines <- AllLines
  ports <- MCPorts
  Garbage = {0, 66562, 300000}
  MaxCommands <- SessionLength
  MaxClients = 2
  Settings <- CalmOrNot
INVARIANTS
  TypeOK
  InStep
  JoinedOnce
  DataIsWhatWasAsked
  PortsAgree
PROPERTIES
  TransfersEnd
CHECK_DEADLOCK FALSE
