\* Clients that read past the end of a file only after a seek.
SPECIFICATION Spec
CONSTANTS
  SPLIT_FACTOR = 2
  MaxLen = 5
  Bytes = {0, 1}
  Zero = 0
  Sizes = {1, 2, 3}
  PastEnd = FALSE
INVARIANTS TypeOK PartsWhole ReadsRight
PROPERTY ImplementsFlatFile
