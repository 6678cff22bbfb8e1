CONSTANTS
  DS = {d1, d2, d3}
  NoDS = NoDS
  Clients <- Working
  MaxNumber = 3
  MaxDepth = 4
SPECIFICATION Spec
INVARIANTS Acyclic PointersAgree NumbersUnique SavedAsShown MasterAsAsked
PROPERTIES WalkReturns
