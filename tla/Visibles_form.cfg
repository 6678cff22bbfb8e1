CONSTANTS
  x = x  y = y  field = field
  Main = Main  Listed = Listed
  Fields = {field}
  Grid = Grid  Combo = Combo  ListPart = ListPart
  Names = {x, y}
  NameOf <- ShownNames
  ViewName = y
  Queries <- SmallQueries
  NoSource = NoSource  Null = Null  Freed = Freed
  Start = Start  Begin = Begin  End = End
  MaxScripts = 1
  CarefulScripts = TRUE
SPECIFICATION Spec
INVARIANTS IteratorsValid ColumnsAlive EverybodyTold
PROPERTY CallsReturn
