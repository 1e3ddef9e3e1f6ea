SPECIFICATION Spec
CONSTANTS
  PIDS <- OnePID
  Programs <- OneProgram
  UIDS <- OneUser
  MaxStart = 2
  MaxWork = 1
  KernelOps <- Churn
  Configs <- OnlyEveryTwo
  Accounts <- OneUser
  Faults <- AllFaults
  ListFaults = FALSE
  SmapsRollup = TRUE
  Cancels = FALSE
  Resets = TRUE
  MaxScans = 3
  AnyExe = AnyExe
  Base <- MCBase
  Sanitize <- MCSanitize
INVARIANTS NoLifetimeTotalCPU Accounting FDFresh PSSFresh
PROPERTY MapTracksScan
