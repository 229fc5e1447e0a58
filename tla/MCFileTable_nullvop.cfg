\* sys_write tests entry->file before taking the lock; a process sharing the entry closes it in between.
CONSTANTS
  v1 = v1
  OPEN_MAX <- MC_OPEN_MAX
  Vnodes <- MC_Vnodes
  MaxProcs = 2
  OpenFlags = {1}
  FdArgs = {3}

SPECIFICATION Spec

INVARIANT NoNullVop
