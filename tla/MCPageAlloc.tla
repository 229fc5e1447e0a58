------------------------------ MODULE MCPageAlloc ------------------------------
(***************************************************************************)
(* Model-checking instance of PageAlloc: pages 2..4 usable and one slot    *)
(* past the table, blocks of one and two pages.                            *)
(***************************************************************************)
EXTENDS PageAlloc

CONSTANTS c1, c2                     \* kernel threads

MC_OneCaller == {c1}
MC_TwoCallers == {c1, c2}
=============================================================================
