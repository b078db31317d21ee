\* Free space keeps its bytes: what isValid takes for a record.
SPECIFICATION Spec
CONSTANTS
  MaxOff = 5
  BH = 1
  FP = 1
  MinSize <- MCMinSize
  Lens = {0, 1}
  Values = {}
  Junk = Junk
  Residue = TRUE
  RECLOCATOR_MAX = RECLOCATOR_MAX
INVARIANT ValidOnlyRecords
