\* Clients that may read past the end of a file at once.
SPECIFICATION Spec
CONSTANTS
  SPLIT_FACTOR = 2
  MaxLen = 5
  Bytes = {0, 1}
  Zero = 0
  Sizes = {1, 2, 3}
  PastEnd = TRUE
INVARIANT PointerInSync
