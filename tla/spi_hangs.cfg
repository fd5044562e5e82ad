SPECIFICATION FairSpec
CONSTANTS
  Bytes = {0, 1}
  Messages <- AllMessages
  Devices = {"SPI"}
  LineFaults = {}
  MaxFaults = 0
  FifoDepth = 2
  IdleByte = 1
  N_SAMPLES = 3
  EXPECTED_INTERVAL = 5
  Wrap = 8
  MaxDelay = 2
  Builds = {"Debug"}
PROPERTY Returns
CHECK_DEADLOCK FALSE
