SPECIFICATION Spec
CONSTANTS
  ETH_RX_DESC_CNT = 3
  ETH_RX_BUFFER_CNT = 5
  MaxHeld = 0
  MaxFrames = 3
  MaxFlaps = 1
PROPERTY NullOnlyWithoutFrame
CHECK_DEADLOCK FALSE
