SPECIFICATION FairSpec
CONSTANTS
  Feeds = {"cisa", "icsap"}
  Advisories = {"c1", "i1"}
  FeedOf <- MCFeedOf
  Cves = {"v1", "v2"}
  CveOf <- MCCveOf
  Incremental = {"cisa"}
  Missing = Missing
  Windows <- MCWindows
  Catalogues <- MCCatalogues
  LastRevision <- MCLastRevision
INVARIANTS
  TypeOK
  OthersUntouched
  ManifestAgrees
  FullSyncHeals
  EnrichmentAgrees
  FilesAreWhole
PROPERTIES
  SyncEnds
