SPECIFICATION Spec
CONSTANTS
  PIDS <- OnePID
  Programs <- OneProgram
  UIDS <- TwoUsers
  MaxStart = 2
  MaxWork = 3
  KernelOps <- Churn
  Configs <- OneNaming
  Accounts <- OneUser
  Faults <- NoFaults
  ListFaults = FALSE
  SmapsRollup = TRUE
  Cancels = FALSE
  Resets = FALSE
  MaxScans = 3
  AnyExe = AnyExe
  Base <- MCBase
  Sanitize <- MCSanitize
INVARIANTS TypeOK NoLifetimeTotalCPU CPUConserved OwnIdentity
PROPERTY KeepsLive
