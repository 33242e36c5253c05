SPECIFICATION FairSpec
CONSTANTS
  Entries = {"a1", "a2", "b1", "b2"}
  FeedOf <- MCFeedOf
  CveOf <- MCCveOf
  WellFormed = {2, 3}
  Scorable = {2, 3}
  MaxLookups = 2
  Requests <- MCRequests
  MaxFaults = 1
INVARIANTS
  TypeOK
  OwnScoreWins
PROPERTIES
  BacklogCleared
