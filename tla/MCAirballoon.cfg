\* The first run of the command, with two ropes and two flowerkillers: enough for
\* a swap to land between another flowerkiller's two reads, for both reads
\* to return one rope, and for dandelion and marigold to race on a rope.
CONSTANTS
  f1 = f1
  f2 = f2
  NROPES = 2
  FlowerKillers <- MC_FlowerKillers
  PriorRuns = 0

SPECIFICATION Spec

\* The command returns and its threads exit: the system stops.
CHECK_DEADLOCK FALSE

INVARIANT TypeOK
INVARIANT RopesLeftCount
INVARIANT MainWaitsForAll
PROPERTY Termination
PROPERTY EscapeRefined
