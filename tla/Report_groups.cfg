CONSTANTS
  SteppedBefore = FALSE
  x = x  y = y
  Blank = Blank
  NoColumn = NoColumn
  Dummy = Dummy
  Nothing = Nothing
  MaxCarried = 1
  Results <- SmallResults
  Layouts <- GroupedLayouts
  Drivers <- ServerDrivers
SPECIFICATION Spec
INVARIANTS EveryRowOnce GroupsFramed SummariesMatch
PROPERTIES ReadsAsCursor ReportEnds
