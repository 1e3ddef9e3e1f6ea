SPECIFICATION Spec
CONSTANTS
  PIDS <- OnePID
  Programs <- TwoPrograms
  UIDS <- TwoUsers
  MaxStart = 1
  MaxWork = 1
  KernelOps <- ExecsSet
  Configs <- Filters
  Accounts <- OneUser
  Faults <- NoFaults
  ListFaults = TRUE
  SmapsRollup = FALSE
  Cancels = FALSE
  Resets = FALSE
  MaxScans = 3
  AnyExe = AnyExe
  Base <- MCBase
  Sanitize <- MCSanitize
INVARIANTS CPUConserved CtxIOConserved SkipsUnneeded
PROPERTIES KeepsLive MapTracksScan
