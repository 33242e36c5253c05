SPECIFICATION FairSpec
CONSTANTS
  Hosts = {"plc"}
  Fields = {"vendor", "family", "product"}
  Values = {"siemens", "s7-300", "cpu 315"}
  None = "none"
  Templates = {"t"}
  Protocols = {"modbus", "s7", "bacnet"}
  Inputs <- MCFamilyInputs
  Rules <- MCFamilyRules
  Device <- MCFamilyDevice
  Disclosures <- MCDecoded
  AllowedRisk = "safe"
  Delay = 1
  RateGap = 2
  ConnectTimeout = 1
  ReadTimeout = 1
  MinAttempts = 2
  RateNum = 1
  RateDen = 5
INVARIANT IdentifiedIsLeftAlone
CHECK_DEADLOCK FALSE
