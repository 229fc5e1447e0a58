\* Two threads in alloc_kpages at once, with no lock between them.
CONSTANTS
  c1 = c1
  c2 = c2
  total_pages = 5
  Callers <- MC_TwoCallers
  Sizes = {1, 2}
  MaxHeld = 2

SPECIFICATION Spec

INVARIANT HeldExclusive
