SPECIFICATION WalkSpec
CONSTANTS
  Entries = {1, 45}
  Vals = 2
  Dup = FALSE
  LeafCap = 4
  InnerCap = 4
  RootLeafCap = 6
  RootInnerCap = 6
  RefMod = 1000
  Loaded = 45
  MaxRemove = 2
  MaxCursors = 1
  MaxFree = 7
  Positions = {20}
  Liberties = {"empty"}
INVARIANTS WellFormed Found
PROPERTIES RemovesKeepCounts WalkEnds
