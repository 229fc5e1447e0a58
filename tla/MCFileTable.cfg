\* Process 1 and the child it forks, with two general slots: every call
\* returns, and a table whose general slots are unshared keeps an exact cursor.
CONSTANTS
  v1 = v1
  OPEN_MAX <- MC_OPEN_MAX_Roomy
  Vnodes <- MC_Vnodes
  MaxProcs = 2
  OpenFlags = {0, 3}
  FdArgs = {3, 4}

SPECIFICATION Spec

INVARIANT TypeOK
INVARIANT CursorExact
PROPERTY EverySyscallReturns
