SPECIFICATION FairSpec
CONSTANTS
  PIDS <- ThreePIDs
  Programs <- OneProgram
  UIDS <- OneUser
  MaxStart = 3
  MaxWork = 0
  KernelOps <- Churn
  Configs <- MixedBatches
  Accounts <- OneUser
  Faults <- NoFaults
  ListFaults = FALSE
  SmapsRollup = TRUE
  Cancels = TRUE
  Resets = FALSE
  MaxScans = 2
  AnyExe = AnyExe
  Base <- MCBase
  Sanitize <- MCSanitize
INVARIANTS StopsWithinBatch Accounting
PROPERTY ScanEnds
