----------------------------- MODULE MCAirballoon -----------------------------
(***************************************************************************)
(* Model-checking instance of Airballoon: two ropes and stakes, two      *)
(* flowerkillers, so two swaps can race on a stake and a flowerkiller's    *)
(* two reads can straddle another's swap.                                  *)
(***************************************************************************)
EXTENDS Airballoon

CONSTANTS f1, f2                     \* the Lord FlowerKiller threads

MC_FlowerKillers == {f1, f2}
=============================================================================
