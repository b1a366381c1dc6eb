SPECIFICATION FairSpec
CONSTANTS
  Peers = {"p1"}
  Names = {"n1", "n2"}
  PrefixOf <- MCPrefixOf
  MaxObjs = 2
  MaxSerial = 2
  MaxMsgs = 2
  MaxInbox = 2
  MaxSecure = 1
INVARIANTS TypeOK SessionsTracked RefCountExact ToldOnce
PROPERTIES JoinsEnd
CHECK_DEADLOCK FALSE
