\* Handles dropped and reopened, with a pool that clients may resize at will.
SPECIFICATION Spec
CONSTANTS
  MaxFid = 2
  Names = {x, y}
  Positions = {0, 1}
  PoolSizes = {0, 1, 2, 3}
  DefaultSize = 2
INVARIANTS TypeOK MruIsOpen
PROPERTIES ImplementsFilePointers PoolKept
