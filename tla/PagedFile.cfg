CONSTANTS
  Paged = paged
  Cached = cached
  Files = {paged, cached}
  PageSizes = {1, 2}
  Values = {1}
  MaxLength = 2
  MaxUse = 2
  MaxPages = 2
  Liberties = {}
SPECIFICATION Spec
INVARIANTS TypeOK PagersLive FlenCovers
PROPERTY Implements
