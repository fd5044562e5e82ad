SPECIFICATION FairSpec
CONSTANTS
  ETH_RX_DESC_CNT = 3
  ETH_RX_BUFFER_CNT = 5
  MaxHeld = 4
  MaxFrames = 6
  MaxFlaps = 2
INVARIANTS TypeOK OneOwner
PROPERTIES IsAQueue ReadingResumes FramesAreRead NeverDeaf
CHECK_DEADLOCK FALSE
