SPECIFICATION FairSpec
CONSTANTS
  Results <- ChurnResults
  Sorts <- ByFDs
  Retention = 1
  MaxClock = 1
  MaxApply = 3
  MaxSum = 2
  MaxChanges = 1
INVARIANTS TypeOK ScrapeWhole SelfMetricsAgree CountersOnward
PROPERTIES PublishedFrozen ServerStops
