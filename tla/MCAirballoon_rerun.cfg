\* The second run of the command: main resets ropes_left but not threads_left.
CONSTANTS
  f1 = f1
  f2 = f2
  NROPES = 2
  FlowerKillers <- MC_FlowerKillers
  PriorRuns = 1

SPECIFICATION Spec

\* The command returns and its threads exit: the system stops.
CHECK_DEADLOCK FALSE

INVARIANT MainWaitsForAll
