SPECIFICATION PipelineSpec
CONSTANTS
  PIDS <- OnePID
  Programs <- TwoPrograms
  UIDS <- OneUser
  MaxStart = 2
  MaxWork = 1
  KernelOps <- Churn
  Configs <- TwoNamings
  Accounts <- OneUser
  Faults <- NoFaults
  ListFaults = FALSE
  SmapsRollup = TRUE
  Cancels = FALSE
  Resets = TRUE
  MaxScans = 4
  AnyExe = AnyExe
  Base <- MCBase
  Sanitize <- MCSanitize
  Retention = 1
  MaxClock = 2
  MaxApply = 4
  MaxSum = 4
INVARIANTS ForgetsAfterRetention LiveGroupsKept TotalsBacked
PROPERTIES KeepsLedger ResumesWithinRetention
