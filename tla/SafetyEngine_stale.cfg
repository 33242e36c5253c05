SPECIFICATION FairSpec
CONSTANTS
  Hosts = {"plc", "sis", "rtu"}
  Fields = {"vendor", "product"}
  Values = {"siemens", "s7-300", "yokogawa", "prosafe", "s7-1500"}
  None = "none"
  Templates = {"t"}
  Protocols = {"modbus", "s7", "bacnet"}
  Inputs <- MCStaleInputs
  Rules <- MCRules
  Device <- MCDevice
  Disclosures <- MCDisclosures
  AllowedRisk = "safe"
  Delay = 1
  RateGap = 2
  ConnectTimeout = 1
  ReadTimeout = 1
  MinAttempts = 2
  RateNum = 1
  RateDen = 5
INVARIANT RepliesDecide
CHECK_DEADLOCK FALSE
