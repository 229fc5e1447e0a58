\* One thread allocating and freeing blocks of one to three pages.
CONSTANTS
  c1 = c1
  c2 = c2
  total_pages = 6
  Callers <- MC_OneCaller
  Sizes = {1, 2, 3}
  MaxHeld = 3

SPECIFICATION Spec

INVARIANT TypeOK
INVARIANT HeldExclusive
PROPERTY AllocReturns
PROPERTY AllocFailsOnlyWhenFull
