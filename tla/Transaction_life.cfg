SPECIFICATION Spec
CONSTANTS
  Stations = {"fixed"}
  Mobile = {}
  NoKey = NoKey
  Datetimes = {1}
  NoDatetime = NoDatetime
  StationCtx = StationCtx
  LevTrs = {1}
  NoLevTr = NoLevTr
  Codes = {1}
  Vals = {"a"}
  Garbage = Garbage
  NoStation = NoStation
  MaxId = 2
  StationVarSets <- OneVar
  VarSets <- OneVar
  Messages <- NoMessage
  Queries = {}
  AttrTargets = {1}
  MaxTransactions = 2
INVARIANTS LevTrCacheMirrorsDb
PROPERTIES ImplementsArchive
