SPECIFICATION FairSystemSpec
CONSTANTS
  BlockSize = 3
  MaxSize = 10
  MaxBytes = 11
  NameLen = 2
  Searched = 3
  ArgLen = 3
  Letters = {97, 98}
  Names <- McNames
INVARIANTS
  Bounded
  Contiguous
  CompleteInside
  PositionInside
  PrintsFile
  ListedOpens
  CommandRuns
PROPERTIES
  ProgramEnds
CHECK_DEADLOCK FALSE
