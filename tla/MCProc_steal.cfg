\* A stale child entry lets waitpid reap another parent's child after pid reuse.
CONSTANTS
  PID_MAX <- MC_PID_MAX
  MaxProcs <- MC_MaxProcs
  ExitCodes <- MC_ExitCodes
  AsCopyMayFail = FALSE
  ThreadForkMayFail = FALSE
  ArrayAddMayFail = FALSE
  AsIds <- MC_AsIdsRoomy
  ExecCalls = FALSE

SPECIFICATION Spec
PROPERTY ReapOwnChildOnly
CHECK_DEADLOCK FALSE
