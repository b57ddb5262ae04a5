SPECIFICATION Spec
CONSTANTS
  Stations = {"fixed"}
  Mobile = {}
  NoKey = NoKey
  Datetimes = {1}
  NoDatetime = NoDatetime
  StationCtx = StationCtx
  LevTrs = {1}
  NoLevTr = NoLevTr
  Codes = {1}
  Vals = {"a", "b"}
  Garbage = Garbage
  NoStation = NoStation
  MaxId = 2
  StationVarSets = {}
  VarSets <- OtherVar
  Messages <- ImportMsgs
  Queries = {}
  AttrTargets = {}
  MaxTransactions = 1
INVARIANTS NoSqlError
PROPERTIES ImplementsArchive StationValuesKept
