SPECIFICATION Spec
CONSTANTS
  Keys = {"synop", "temp"}
  Report <- ReportOfKey
  Explorers = {"json", "xapian"}
  Backend <- Backends
  Updates = {u}
  Sources <- SomeSources
  Files <- SomeFiles
  Filters <- SomeFilters
  Datetimes = {1, 2, 3}
  Nobody = Nobody
  NoFile = NoFile
  NoReader = NoReader
  MaxMerges = 2
INVARIANTS StatsFollowEntries ActiveFollowsFilter NothingHidden SavedWhenQuiet
