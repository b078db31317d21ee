\* The layout of the file: no record data, long files.
SPECIFICATION Spec
CONSTANTS
  MaxOff = 17
  BH = 2
  FP = 1
  MinSize <- MCMinSize
  Lens = {0, 1, 3, 5}
  Values = {}
  Junk = Junk
  Residue = FALSE
  RECLOCATOR_MAX = RECLOCATOR_MAX
INVARIANTS TypeOK BlocksTile Coalesced BandsLinked Accounted
