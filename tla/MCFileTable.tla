----------------------------- MODULE MCFileTable -----------------------------
(***************************************************************************)
(* Model-checking instance of FileTable.  Four slots per table (the three  *)
(* standard streams and one general slot, 3), so a single open fills the   *)
(* table and makes firstFreeSpot -1.  Calls are made on stdin (0), stdout  *)
(* (1) and the general slot (3).                                           *)
(***************************************************************************)
EXTENDS FileTable

CONSTANTS v1                         \* a file open may return

MC_OPEN_MAX == 4
MC_OPEN_MAX_Roomy == 5
MC_Vnodes == {v1}
=============================================================================
