SPECIFICATION Spec
CONSTANTS
  Names = {"a", "A", "b", "c", ""}
  Reports = {"a", "c"}
  Memos = {"a", "b", "c", ""}
  NoMemo = ""
  Lower <- LowerCase
  Short <- Whole
  Files <- FewFiles
  BadLine = BadLine
  InitialTable <- OneReport
  NoStation = NoStation
  MaxId = 3
  MaxTransactions = 2
INVARIANTS FiledUnderItsReport
PROPERTIES UpdateKeepsStations CacheStaysInStep UpdateFollowsFile
CHECK_DEADLOCK FALSE
