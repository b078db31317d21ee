CONSTANTS
  File = file
  Files = {file}
  PageSizes = {2}
  Values = {1}
  HdrSize = 2
  RecLen = 1
  MaxRecs = 2
  MaxPages = 3
SPECIFICATION Spec
INVARIANT TypeOK
PROPERTIES Implements FlushedRight
