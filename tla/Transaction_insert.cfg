SPECIFICATION Spec
CONSTANTS
  Stations = {"fixed", "mobile"}
  Mobile = {"mobile"}
  NoKey = NoKey
  Datetimes = {1}
  NoDatetime = NoDatetime
  StationCtx = StationCtx
  LevTrs = {1}
  NoLevTr = NoLevTr
  Codes = {1, 2}
  Vals = {"a", "b"}
  Garbage = Garbage
  NoStation = NoStation
  MaxId = 2
  StationVarSets <- StationInserts
  VarSets <- InsertVars
  Messages = {}
  Queries <- SomeQueries
  AttrTargets = {}
  MaxTransactions = 1
INVARIANTS TypeOK CacheMirrorsDb UniqueStations
PROPERTIES ImplementsArchive
