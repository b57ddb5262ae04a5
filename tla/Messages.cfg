SPECIFICATION Spec
CONSTANTS
  Stations <- SomeStations
  NoIdent = NoIdent
  NoDatetime = 0
  Missing = 9
  SoundingTypes = {"temp"}
  Databases <- SomeDatabases
  Queries <- SomeQueries
  EditContexts <- SomeContexts
  EditVars <- SomeVars
  MaxEdits = 2
INVARIANTS ExportRestores CsvReadsBack DiffCountsMeasured
PROPERTIES CallsImplementStore
CHECK_DEADLOCK FALSE
