SPECIFICATION Spec
CONSTANTS
  Peers = {"p1"}
  Names = {"n1", "n2"}
  PrefixOf <- MCPrefixOf
  MaxObjs = 2
  MaxSerial = 3
  MaxMsgs = 2
  MaxInbox = 2
  MaxSecure = 1
PROPERTIES NoIdleEntry
CHECK_DEADLOCK FALSE
