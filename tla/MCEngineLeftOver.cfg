SPECIFICATION Spec
CONSTANTS
  good = good
  bad = bad
  None = None
  Scripts = {good, bad}
  Good = {good}
  Chunks <- MCChunks
  MaxId = 2
  MaxInbox = 1
  MaxCrashes = 1
INVARIANTS NothingLeftOver
