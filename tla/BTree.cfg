SPECIFICATION Spec
CONSTANTS
  Entries = {1, 2, 3, 4, 5, 6, 7, 8}
  Vals = 2
  Dup = FALSE
  LeafCap = 4
  InnerCap = 4
  RootLeafCap = 5
  RootInnerCap = 6
  RefMod = 1000
  Loaded = 0
  MaxRemove = 2
  MaxCursors = 0
  MaxFree = 0
  Positions = {0, 2, 20}
  Liberties = {}
INVARIANTS TypeOK WellFormed Found PositionsRight StepsInOrder
PROPERTY Implements
