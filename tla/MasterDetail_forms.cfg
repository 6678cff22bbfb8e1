CONSTANTS
  orders = orders  lines = lines  parts = parts
  DS = {orders, lines, parts}
  NoDS = NoDS
  Setups <- FormSetups
  Keys = {1, 2, 3}
  NoKey = NoKey
  NoEdit = NoEdit
SPECIFICATION Spec
INVARIANTS TypeOK DetailFollowsMaster NoDetailAlone NoOrphans
PROPERTIES InsertedUnderMaster DetailEditsSurvive
