SPECIFICATION FairSpec
CONSTANTS
  Hosts = {"plc", "sis", "rtu"}
  Fields = {"vendor", "product"}
  Values = {"siemens", "s7-300", "yokogawa", "prosafe"}
  None = "none"
  Templates = {"t"}
  Protocols = {"modbus", "s7", "bacnet"}
  Inputs <- MCInputs
  Rules <- MCRules
  Device <- MCDevice
  Disclosures <- MCDisclosures
  AllowedRisk = "safe"
  Delay = 1
  RateGap = 2
  ConnectTimeout = 1
  ReadTimeout = 1
  MinAttempts = 2
  RateNum = 1
  RateDen = 5
INVARIANTS
  TypeOK
  AtMostOneUnfiled
  FailuresBounded
  RecognisedIsLeftAlone
  SummaryAgrees
  UninterruptedAccountedFor
  InterruptStopsSending
  IInv
PROPERTIES
  PacketsAreSpaced
  KeepsPromise
  Terminates
CHECK_DEADLOCK FALSE
