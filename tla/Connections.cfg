SPECIFICATION Spec
CONSTANTS
  Conns = {"one", "two"}
  Fixed = {"north", "south"}
  Mobile = {}
  LevTrs = {1, 2}
  Vals = {"a"}
  Requests <- TwoPrograms
  MaxId = 14
  MaxCalls = 2
  NoCall = NoCall
  NoStation = NoStation
  Databases <- EmptiedAndDoubled
INVARIANTS ValuesAreWhole
PROPERTIES KnownStationsStaySingle DuplicatesAreLeftAlone CommitStoresAll EveryCallReturns
CHECK_DEADLOCK FALSE
