----------------------------- MODULE BalloonEscape -----------------------------
(***************************************************************************)
(* What airballoon promises, without threads, locks or counters.  Each    *)
(* stake is tied to one rope (tied is a permutation); a rope that is not  *)
(* cut may be cut, once; the ropes of two stakes may be exchanged while   *)
(* neither is cut; a worker thread may finish only once every rope is     *)
(* cut; and the command returns only once every worker has finished.     *)
(***************************************************************************)
EXTENDS FiniteSets

CONSTANTS Ropes, Stakes, Workers

VARIABLES
  tied,      \* tied[s]: the rope tied to stake s
  cut,       \* the ropes severed so far
  running,   \* the worker threads that have not exited
  returned   \* the command has returned

vars == <<tied, cut, running, returned>>

Init ==
  /\ tied = [s \in Stakes |-> s]
  /\ cut = {}
  /\ running = Workers
  /\ returned = FALSE

Cut(r) ==
  /\ r \notin cut
  /\ cut' = cut \cup {r}
  /\ UNCHANGED <<tied, running, returned>>

Exchange(s1, s2) ==
  /\ s1 # s2
  /\ tied[s1] \notin cut /\ tied[s2] \notin cut
  /\ tied' = [tied EXCEPT ![s1] = tied[s2], ![s2] = tied[s1]]
  /\ UNCHANGED <<cut, running, returned>>

Finish(t) ==
  /\ cut = Ropes
  /\ t \in running
  /\ running' = running \ {t}
  /\ UNCHANGED <<tied, cut, returned>>

Return ==
  /\ cut = Ropes /\ running = {}
  /\ ~returned
  /\ returned' = TRUE
  /\ UNCHANGED <<tied, cut, running>>

Next ==
  \/ \E r \in Ropes : Cut(r)
  \/ \E s1, s2 \in Stakes : Exchange(s1, s2)
  \/ \E t \in Workers : Finish(t)
  \/ Return

Spec == Init /\ [][Next]_vars

=============================================================================
