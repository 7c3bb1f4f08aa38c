SPECIFICATION FairSpec
CONSTANTS
  Lines <- OneTransfer
  ports <- MCPorts
  Garbage = {0, 1026}
  MaxCommands <- TransferLength
  MaxClients = 1
  Settings <- Patient
PROPERTIES
  EveryTransferEnds
CHECK_DEADLOCK FALSE
