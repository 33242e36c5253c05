SPECIFICATION FairSpec
CONSTANTS
  Feeds = {"cisa", "icsap"}
  Advisories = {"c1", "c2", "i1"}
  FeedOf <- MCTwoFeedOf
  Cves = {"v1", "v2"}
  CveOf <- MCTwoCveOf
  Incremental = {"cisa"}
  Missing = Missing
  Windows <- MCTwoWindows
  Catalogues <- MCCatalogues
  LastRevision <- MCTwoLastRevision
INVARIANT IncrementalKeepsUp
