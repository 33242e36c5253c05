SPECIFICATION Spec
CONSTANTS
  Vendors <- MCVendors
  Families <- MCFamilies
  Letters <- MCLetters
  RunTogether <- MCRunTogether
  CorporateSuffixes <- MCCorporateSuffixes
  GenericWords <- MCGenericWords
  MaxBranchDepth = 2
  MaxReferences = 2
  Links <- MCLinks
  Documents <- MCDocuments
  Inventories <- MCInventories
  Since = 2
  MinTier = ""
  CouldBe <- MCCouldBe
  Covers <- MCCovers
INVARIANTS
  TypeOK
  ConfirmedIsCertain
  NothingSilenced
  CVEsCouldHit
  OutputIsDetermined
  EveryPairAccountedFor
  KnownExploitedFirst
  VexIsValid
  VexOverstatesNothing
CHECK_DEADLOCK FALSE
