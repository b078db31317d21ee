\* The contents of the records: short files, two values.
SPECIFICATION Spec
CONSTANTS
  MaxOff = 7
  BH = 1
  FP = 1
  MinSize <- MCMinSize
  Lens = {0, 1, 2}
  Values = {a, b}
  Junk = Junk
  Residue = FALSE
  RECLOCATOR_MAX = RECLOCATOR_MAX
INVARIANTS ReallocKeepsContents SliceSplices
PROPERTY ImplementsRecordStore
