CONSTANTS
  Characters <- SmallCharacters
  TextDelimiter = "quote"
  BetweenFields = "comma"
  RowDelimiter = "newline"
  NewLine = "newline"
  CarriageReturn = "return"
  Point = "point"
  Mark = "mark"
  DigitValue <- DigitValues
  Garbled = Garbled
  Columns = {1, 2, 3}
  Null = Null
  Assigned = Assigned
  Unset = Unset
  NoColumn = NoColumn
  MaxPreview = 3
  Files <- SmallFiles
  Settings <- SmallSettings
CHECK_DEADLOCK FALSE
SPECIFICATION Spec
INVARIANTS LinesAreRows TypesFitPreview ValuesInTheirColumns LostOnlyBehindRefused
PROPERTY ImportReturns
