\* sys_dup2 releases newfd's lock twice: the second release frees a lock another process holds.
CONSTANTS
  v1 = v1
  OPEN_MAX <- MC_OPEN_MAX
  Vnodes <- MC_Vnodes
  MaxProcs = 2
  OpenFlags = {1}
  FdArgs = {0, 1}

SPECIFICATION Spec

INVARIANT FteMutex
