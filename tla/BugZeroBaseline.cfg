SPECIFICATION Spec
CONSTANTS
  PIDS <- OnePID
  Programs <- OneProgram
  UIDS <- OneUser
  MaxStart = 1
  MaxWork = 2
  KernelOps <- Idles
  Configs <- OnlyPlain
  Accounts <- OneUser
  Faults <- IODenied
  ListFaults = FALSE
  SmapsRollup = TRUE
  Cancels = FALSE
  Resets = FALSE
  MaxScans = 2
  AnyExe = AnyExe
  Base <- MCBase
  Sanitize <- MCSanitize
INVARIANT NoLifetimeTotalIO
