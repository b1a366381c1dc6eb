SPECIFICATION MCSpec
CONSTANTS
  Calls = {c1, c2}
  MaxSerial = 2
  MaxPolicy = 1
  Fields <- MCFields
  Tables <- MCTables
  MayFail <- MCMayFail
  Words <- MCWords
  Langs = {"en", "fr"}
  Props = {p, q, r}
  Vals = {v, w}
  Ids = {1, 2}
  Objs = {o1, o2}
  MaxTriggers = 2
  Size = 3
  MaxChunk = 2
  MaxRead = 2
  MaxWidgets = 2
  MaxPanels = 2
  WidgetKinds = {"count", "slider", "time", "dialog", "action", "label", "container"}
  MaxValue = 3
  Scalars = {"y", "b", "i", "d"}
  Numbers = {0, 1, 2, 3}
  MinLen = 2
  MaxTable = 4
INVARIANTS TypesOK CallsSettled    
SYMMETRY Symmetry
