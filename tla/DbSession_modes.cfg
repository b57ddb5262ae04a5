SPECIFICATION SessionSpec
CONSTANTS
  Stations = {"here", "away"}
  Mobile = {}
  NoKey = NoKey
  Datetimes = {1}
  NoDatetime = NoDatetime
  StationCtx = StationCtx
  LevTrs = {1}
  NoLevTr = NoLevTr
  Codes = {1, 2}
  Vals = {"a", "b"}
  Garbage = Garbage
  NoStation = NoStation
  MaxId = 3
  StationVarSets <- SomeStationVars
  VarSets <- SomeVars
  Messages <- SomeMessages
  Queries <- SomeQueries
  AttrTargets = {1}
  MaxTransactions = 1
  Modes <- AllModes
  InitialTables <- OneStation
  Files <- SomeInput
  Broken = Broken
  NoFile = NoFile
  NoCode = NoCode
  Invalid = Invalid
  MaxCalls = 7
CHECK_DEADLOCK FALSE
INVARIANTS OperationFindsItsData EachMessageOnce
PROPERTIES AttributesAreThoseStored KeepsItsModes
