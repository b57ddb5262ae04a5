SPECIFICATION SessionSpec
CONSTANTS
  Missing = Missing
  Half = 4
  Sites <- SomeSites
  Measured <- SomeData
  StationValues <- SomeStationValues
  Codes = {1, 2}
  Priority <- SomePriorities
  LowerCase <- Lower
  Passes <- SomePasses
  Numbers <- SomeNumbers
  Dates <- SomeDates
  Choices <- SomeChoices
  FilterChoices <- SomeFilters
  ModifierChoices <- SomeModifiers
  Limits = {1}
  LevelChoices <- SomeLevels
  Moments <- SomeMoments
  Levels <- SomeWholeLevels
  MaxSets = 3
  Calendar <- SomeCalendar
INVARIANTS SelectsWhatIsAsked
PROPERTIES NarrowerSelectsLess
CHECK_DEADLOCK FALSE
