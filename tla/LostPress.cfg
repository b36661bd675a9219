SPECIFICATION FairSpec
CONSTANTS
  Samples = 3
  MaxAttempts = 15
  MaxShots = 3
  Hal = "stm32"
  MaxPresses = 1
  MaxFaults = 0
  MaxReboots = 0
PROPERTY PressRead
CHECK_DEADLOCK FALSE
