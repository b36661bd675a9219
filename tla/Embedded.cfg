SPECIFICATION FairSpec
CONSTANTS
  Samples = 2
  MaxAttempts = 2
  MaxShots = 2
  Hal = "nrf"
  MaxPresses = 2
  MaxFaults = 1
  MaxReboots = 1
INVARIANTS
  TypeOK
  TimeoutRestored
  EnrolledWhenDone
  MatchFresh
  NoOpenEnrollment
PROPERTIES
  NoTemplateLost
  PressRead
CHECK_DEADLOCK FALSE
