SPECIFICATION FairSpec
CONSTANTS
  good = good
  bad = bad
  None = None
  Scripts = {good, bad}
  Good = {good}
  Chunks <- MCChunks
  MaxId = 2
  MaxInbox = 1
  MaxCrashes = 2
INVARIANTS TypeOK EvaluatesInstalled LockedForGood OneController
PROPERTIES ControllerFreed BadScriptGoes
