\* Fork with every failure the code meets: ENPROC, as_copy and thread_fork failing.
CONSTANTS
  PID_MAX <- MC_PID_MAX
  MaxProcs <- MC_MaxProcs
  ExitCodes <- MC_ExitCodes
  AsCopyMayFail = TRUE
  ThreadForkMayFail = TRUE
  ArrayAddMayFail = FALSE
  AsIds <- MC_AsIds
  ExecCalls = FALSE

SPECIFICATION Spec

\* Every process may exit or block forever in waitpid: the system can stop.
CHECK_DEADLOCK FALSE

PROPERTY ForkOutcome
