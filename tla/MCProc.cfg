\* Lifecycle safety and liveness of fork / _exit / waitpid, with as_copy
\* and proc_exit array_add failures; thread_fork never fails here (see MCProc_forkfail.cfg).
CONSTANTS
  PID_MAX <- MC_PID_MAX
  MaxProcs <- MC_MaxProcs
  ExitCodes <- MC_ExitCodes
  AsCopyMayFail = TRUE
  ThreadForkMayFail = FALSE
  ArrayAddMayFail = TRUE
  AsIds <- MC_AsIds
  ExecCalls = TRUE

SPECIFICATION Spec

INVARIANT FreePidCursorExact
INVARIANT AddrspaceExclusive
PROPERTY ZombieReaped

\* Every process may exit or block forever in waitpid: the system can stop.
CHECK_DEADLOCK FALSE
