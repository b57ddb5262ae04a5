SPECIFICATION FairSpec
CONSTANTS
  Modes = {"r", "w"}
  Files <- SomeFiles
  Broken = Broken
  Stations = {"here"}
  Vars <- SomeVars
  Attrs = {"conf"}
  Templates = {"auto", "generic"}
  NoSubset = NoSubset
  NoMsgs = NoMsgs
  NoExporter = NoExporter
  Invalid = Invalid
  MaxInserts <- InsertBounds
  MaxAsked = 2
CHECK_DEADLOCK FALSE
INVARIANTS SkipsNothing RowsInMemory AttrsOfRow
PROPERTIES  ReachesEnd
