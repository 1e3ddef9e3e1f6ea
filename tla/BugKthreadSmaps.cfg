SPECIFICATION Spec
CONSTANTS
  PIDS <- OnePID
  Programs <- WithKthreads
  UIDS <- OneUser
  MaxStart = 1
  MaxWork = 1
  KernelOps <- Churn
  Configs <- OnlyEveryTwo
  Accounts <- OneUser
  Faults <- NoFaults
  ListFaults = FALSE
  SmapsRollup = TRUE
  Cancels = FALSE
  Resets = FALSE
  MaxScans = 3
  AnyExe = AnyExe
  Base <- MCBase
  Sanitize <- MCSanitize
PROPERTY KeepsLive
