SPECIFICATION Spec
CONSTANTS
  Mtu = 16
  PktSizeMax = 4
  RequestSizes = {1, 2, 3}
  AnswerSizes = {1, 3, 4}
  Outcomes = {"OK", "FAIL"}
  Bus = "spi"
  ResetOnError = TRUE
  Faults = {"lose", "corrupt", "late", "ioerror", "malformed", "crash"}
  MaxFaults = 2
  MaxCmds = 2
INVARIANTS
  TypeOK
  FreshAnswer
  WholeCommand
  NeverMixed
PROPERTY
  AtMostOnceExchange
CHECK_DEADLOCK FALSE
