\* Five proc structures: two waiters on one reused pid both pass the ZOMBIE
\* check, and the second reap lands on the proc that took the pid next.
CONSTANTS
  PID_MAX <- MC_PID_MAX
  MaxProcs = 5
  ExitCodes <- MC_ExitCodes
  AsCopyMayFail = FALSE
  ThreadForkMayFail = FALSE
  ArrayAddMayFail = FALSE
  AsIds <- MC_AsIdsRoomy
  ExecCalls = FALSE

SPECIFICATION Spec

\* Every process may exit or block forever in waitpid: the system can stop.
CHECK_DEADLOCK FALSE

PROPERTY ReapOnlyZombies
