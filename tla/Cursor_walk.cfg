SPECIFICATION CursorSpec
CONSTANTS
  Stations = {"synop", "metar"}
  Mobile = {}
  NoKey = NoKey
  Datetimes = {1, 2}
  NoDatetime = NoDatetime
  StationCtx = StationCtx
  LevTrs = {1, 2}
  NoLevTr = NoLevTr
  Codes = {1, 2}
  Vals = {"a"}
  Garbage = Garbage
  NoStation = NoStation
  MaxId = 4
  StationVarSets = {}
  VarSets <- OneVar
  Messages = {}
  Queries <- Removal
  AttrTargets = {}
  MaxTransactions = 1
  Place <- OnePlace
  Rep <- ReportIds
  Prio <- Priorities
  Matching <- Lacking
  Selections <- Asked
  CursorTables <- FullTables
  MaxWrites = 1
  NoCursor = NoCursor
INVARIANTS LevelsStayKnown RemovesWhatRowsStandFor
PROPERTIES NothingBetterIsHidden
CHECK_DEADLOCK FALSE
