SPECIFICATION FairSpec
CONSTANTS
  BufferSize = 2
  Uses = {"writeError", "again", "strip"}
  MaxBlocks = 4
  MaxCalls = 4
INVARIANTS TypeOK NothingLost FilteredOnce NoUseAfterStop
PROPERTIES StopReturns EndIsAnnounced
CHECK_DEADLOCK FALSE
