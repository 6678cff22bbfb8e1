SPECIFICATION Spec
CONSTANTS
  SteppedBefore = FALSE
  name = name  note = note  x = x  y = y
  Columns = {name, note}
  Null = Null
  Empty = Empty
  Assigned = Assigned
  Unset = Unset
  NoColumn = NoColumn
  Results <- SmallTables
  Drivers <- AllDrivers
  Dummy <- NoFields
  Nothing <- NoFields
CHECK_DEADLOCK FALSE
INVARIANTS CopiedInOrder NothingLeftOut SourceGivenBack
PROPERTY CopyReturns
