SPECIFICATION Spec
CONSTANTS
  Columns = {a, b}
  Values = {null, x}
  Null = null
  None = none
  NewRow = newrow
  NoRow = norow
  PrimaryKey = TRUE
  MaxId = 3
  InitRows = 2
  Calls <- FormCalls
  Refusals <- RowRefusals
INVARIANTS EditsStayOnTheirRow EditsAreFlagged
PROPERTIES StoredOrKept ImplementsRowEditing
