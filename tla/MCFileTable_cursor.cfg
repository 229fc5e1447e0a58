\* A close in a process sharing the entry leaves the other's cursor on a slot that is then refilled.
CONSTANTS
  v1 = v1
  OPEN_MAX <- MC_OPEN_MAX
  Vnodes <- MC_Vnodes
  MaxProcs = 2
  OpenFlags = {1}
  FdArgs = {0, 3}

SPECIFICATION Spec

INVARIANT CursorFree
