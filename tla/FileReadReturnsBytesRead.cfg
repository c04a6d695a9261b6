SPECIFICATION Spec
CONSTANTS
  BlockSize = 3
  MaxSize = 10
  MaxBytes = 11
PROPERTIES
  ReturnsBytesRead
