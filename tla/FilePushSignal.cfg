SPECIFICATION FairSpec
CONSTANTS
  BufferSize = 2
  Uses = {"quiet"}
  MaxBlocks = 3
  MaxCalls = 2
PROPERTIES StopReturns
CHECK_DEADLOCK FALSE
