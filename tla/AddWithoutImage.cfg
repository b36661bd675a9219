SPECIFICATION FairSpec
CONSTANTS
  Samples = 3
  MaxAttempts = 15
  MaxShots = 3
  Hal = "nrf"
  MaxPresses = 1
  MaxFaults = 0
  MaxReboots = 0
INVARIANT CapturedBeforeAdd
CHECK_DEADLOCK FALSE
