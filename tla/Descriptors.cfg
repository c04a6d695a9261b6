SPECIFICATION FairSpec
CONSTANTS
  NT = 2
  Freqs = {3, 1024}
  MaxFd = 2
  NumDentry = 2
  MaxLoc = 3
  FileTypes = {"rtc", "dir", "file"}
INVARIANTS
  OpenHasTable
  StdStreams
  WriteIsOwn
  RtcWaitsForTick
  RateMatches
PROPERTIES
  SoleScanEnds
  SoleRtcReaderReturns
CHECK_DEADLOCK FALSE
