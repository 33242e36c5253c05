SPECIFICATION Spec
CONSTANTS
  Signatures <- MCSignatures
  Messages <- MCMessages
  Groups <- MCGroups
  IPv6Addresses <- MCIPv6Addresses
  MaxTrackedFlows = 4
  MaxDecodeAttempt = 3
  MaxFlowBuffer = 4
  VendorNamed <- MCVendorNamed
  Readings <- MCReadings
  Letters <- MCLetters
  MaxTargets = 4
  Commands <- MCCommands
  PlanRequests <- MCPlanRequests
  Templates <- MCTemplates
  Replies <- MCReplies
  MaxPacketsPerFile = 7
  Owner <- MCOwner
  TruthOf <- MCTruthOf
INVARIANTS
  TypeOK
  NothingMisattributed
  OpenIsAnswered
  CrossingsAreGraded
  SaidOnceWrittenOnce
  StrongestSpeaks
CHECK_DEADLOCK FALSE
