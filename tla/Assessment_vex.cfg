SPECIFICATION Spec
CONSTANTS
  Vendors <- MCVendors
  Families <- MCFamilies
  Letters <- MCLetters
  RunTogether <- MCRunTogether
  CorporateSuffixes <- MCCorporateSuffixes
  GenericWords <- MCGenericWords
  MaxBranchDepth = 2
  MaxReferences = 2
  Links <- MCLinks
  Documents <- MCMixedDocuments
  Inventories <- MCInventories
  Since = 2
  MinTier = ""
  CouldBe <- MCCouldBe
  Covers <- MCMixedCovers
INVARIANTS
  KnownAffectedIsEstablished
CHECK_DEADLOCK FALSE
