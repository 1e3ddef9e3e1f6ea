SPECIFICATION Spec
CONSTANTS
  Results <- ChurnResults
  Sorts <- ByFDs
  Retention = 1
  MaxClock = 0
  MaxApply = 3
  MaxSum = 2
  MaxChanges = 1
INVARIANT ReadyMeansCounters
