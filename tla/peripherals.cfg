SPECIFICATION FairSpec
CONSTANTS
  Bytes = {0, 1}
  Messages <- AllMessages
  Devices = {"UART", "SPI", "I2C", "TIM", "ADC"}
  LineFaults = {"flip", "error", "lose", "glitch", "miss", "nack", "hold", "drift", "off"}
  MaxFaults = 2
  FifoDepth = 2
  IdleByte = 1
  N_SAMPLES = 3
  EXPECTED_INTERVAL = 5
  Wrap = 8
  MaxDelay = 2
  Builds = {"Debug", "Release"}
INVARIANTS
  TypeOK SoundPass NoFalseAlarm
  UartClean SpiClean I2cClean AdcClean
  UartNeverBusy SpiNeverBusy
  UartNothingUnwrittenRead SpiNothingUnwrittenRead
  I2cNothingUnwrittenRead TimerNothingUnwrittenRead
PROPERTY ReturnsUnlessBroken
CHECK_DEADLOCK FALSE
