------------------------------- MODULE MCProc -------------------------------
(***************************************************************************)
(* Model-checking instance of Proc.  Pids 2..4 are handed out (PID_MAX = 5 *)
(* and findFirstFreePid stops below it), and four user proc structures are *)
(* ever created: the first process and three forks.  That is enough for   *)
(* the table to fill (three live processes), for a reaped pid to be handed *)
(* to a child of a different parent, and for two parents to wait on two   *)
(* different children at once.                                             *)
(***************************************************************************)
EXTENDS Proc

MC_PID_MAX == 5
MC_MaxProcs == 4
MC_ExitCodes == {7}
MC_AsIds == 1..4
MC_AsIdsRoomy == 1..5
=============================================================================
