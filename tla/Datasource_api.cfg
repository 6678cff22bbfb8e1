SPECIFICATION Spec
CONSTANTS
  Columns = {a}
  Values = {null, x}
  Null = null
  None = none
  NewRow = newrow
  NoRow = norow
  PrimaryKey = TRUE
  MaxId = 3
  InitRows = 2
  Calls <- AllCalls
  Refusals <- Everybody
INVARIANT MirrorsServer
