------------------------------ MODULE Airballoon ------------------------------
(***************************************************************************)
(* The airballoon synchronisation problem (synchprobs/airballoon.c).       *)
(* NROPES ropes tie the balloon to NROPES stakes; mappings[stake] is the   *)
(* rope tied to that stake.  Dandelion severs ropes by rope number,        *)
(* Marigold by stake, the Lord FlowerKiller threads swap the ropes of two  *)
(* stakes, and the Balloon thread escapes once every rope is severed.      *)
(* The main thread (airballoon) forks them all, waits for ropes_left and   *)
(* then threads_left to reach 0, and destroys the locks.                   *)
(*                                                                         *)
(* Each rope has its own lock, held across the steps between its          *)
(* lock_acquire and lock_release.  The rope_check_lock and threads_lock    *)
(* sections protect one read or update of ropes_left / threads_left each   *)
(* and are single steps.  print_lock only orders kprintf output.  The      *)
(* unlocked reads of mappings are steps of their own, so other threads    *)
(* may run between a read and the lock_acquire that follows it.            *)
(* random() % NROPES is a nondeterministic choice.                         *)
(***************************************************************************)
EXTENDS Integers, FiniteSets, Functions

CONSTANTS
  NROPES,          \* ropes and stakes
  FlowerKillers,   \* the N_LORD_FLOWERKILLER threads
  PriorRuns        \* runs of the command before this one: 0 or 1

ASSUME /\ NROPES \in Nat \ {0}
       /\ FlowerKillers # {}
       /\ PriorRuns \in {0, 1}

Ropes == 0..(NROPES - 1)
Stakes == 0..(NROPES - 1)
N_LORD_FLOWERKILLER == Cardinality(FlowerKillers)
Marigold == "Marigold"
Dandelion == "Dandelion"
Balloon == "Balloon"
Main == "Main"
Workers == {Marigold, Dandelion, Balloon} \cup FlowerKillers
Threads == Workers \cup {Main}
NoThread == "none"

VARIABLES
  mappings,       \* mappings[stake]: the rope tied to it
  severed,        \* severed[rope]
  ropes_left,
  threads_left,
  ropeLock,       \* ropeLock[rope]: its holder, or NoThread
  locksAlive,     \* the locks exist (created, not yet destroyed)
  pc,
  index,          \* marigold's stake, flowerkiller's stake1Ind
  index2,         \* flowerkiller's stake2Ind
  rope1,          \* marigold's ropeBeingCut, flowerkiller's rope1
  rope2,          \* flowerkiller's rope2
  temp            \* flowerkiller's temp during the swap

vars == <<mappings, severed, ropes_left, threads_left, ropeLock, locksAlive,
          pc, index, index2, rope1, rope2, temp>>

Locals == <<index, index2, rope1, rope2, temp>>

StartPC == [t \in Workers |-> CASE t = Dandelion -> "d_loop"
                                [] t = Marigold -> "m_loop"
                                [] t = Balloon -> "b_loop"
                                [] OTHER -> "f_loop"]

(* airballoon's set-up: mappings[j] = j, nothing severed, every lock     *)
(* created; then every thread is forked and main starts waiting.          *)
(* threads_left is 3 + N_LORD_FLOWERKILLER only where it is initialised;  *)
(* a run that returned leaves it at 0, and the next run does not reset it.*)
Init ==
  /\ ropes_left = NROPES
  /\ threads_left = IF PriorRuns = 0 THEN 3 + N_LORD_FLOWERKILLER ELSE 0
  /\ mappings = [s \in Stakes |-> s]
  /\ severed = [r \in Ropes |-> FALSE]
  /\ ropeLock = [r \in Ropes |-> NoThread]
  /\ locksAlive = TRUE
  /\ pc = [t \in Threads |-> IF t = Main THEN "wait_ropes" ELSE StartPC[t]]
  /\ index = [t \in Workers |-> 0] /\ index2 = [t \in Workers |-> 0]
  /\ rope1 = [t \in Workers |-> 0] /\ rope2 = [t \in Workers |-> 0]
  /\ temp = [t \in Workers |-> 0]

Free(r) == ropeLock[r] = NoThread

(* lock_do_i_hold: lk_holder is the caller. *)
lock_do_i_hold(t, r) == ropeLock[r] = t

(* lock_release: taken and lk_holder cleared, whoever holds the lock,   *)
(* and one sleeper woken.                                               *)
ReleaseRope(r) == ropeLock' = [ropeLock EXCEPT ![r] = NoThread]

(* Mutant: the severed test dropped. *)
SeverNoCheck(r) ==
  /\ severed' = [severed EXCEPT ![r] = TRUE]
  /\ ropes_left' = ropes_left - 1

(* Sever rope r if it is not severed yet; ropes_left-- under             *)
(* rope_check_lock, nested inside the rope lock.                          *)
Sever(r) ==
  IF severed[r]
  THEN UNCHANGED <<severed, ropes_left>>
  ELSE /\ severed' = [severed EXCEPT ![r] = TRUE]
       /\ ropes_left' = ropes_left - 1

(* The locals of t once they are dead: given one value, so states that   *)
(* differ only in dead locals are one state.                              *)
ClearLocals(t) ==
  /\ index' = [index EXCEPT ![t] = 0] /\ index2' = [index2 EXCEPT ![t] = 0]
  /\ rope1' = [rope1 EXCEPT ![t] = 0] /\ rope2' = [rope2 EXCEPT ![t] = 0]
  /\ temp' = [temp EXCEPT ![t] = 0]

(* The loop's exit test under rope_check_lock: leave the loop when no    *)
(* ropes are left, otherwise yield and go round again.                    *)
LoopCheck(t, at, again, out) ==
  /\ pc[t] = at
  /\ pc' = [pc EXCEPT ![t] = IF ropes_left <= 0 THEN out ELSE again]
  /\ UNCHANGED <<mappings, severed, ropes_left, threads_left, ropeLock,
                 locksAlive, Locals>>

-----------------------------------------------------------------------------
(* Mutant: the rope index off by one. *)
DandelionPickOffByOne(r) ==
  /\ pc[Dandelion] = "d_loop"
  /\ rope1' = [rope1 EXCEPT ![Dandelion] = r + 1]
  /\ pc' = [pc EXCEPT ![Dandelion] = "d_cut"]
  /\ UNCHANGED <<mappings, severed, ropes_left, threads_left, ropeLock,
                 locksAlive, index, index2, rope2, temp>>

(* dandelion: random() % NROPES picks the rope to cut ... *)
DandelionPick(r) ==
  /\ pc[Dandelion] = "d_loop"
  /\ rope1' = [rope1 EXCEPT ![Dandelion] = r]
  /\ pc' = [pc EXCEPT ![Dandelion] = "d_cut"]
  /\ UNCHANGED <<mappings, severed, ropes_left, threads_left, ropeLock,
                 locksAlive, index, index2, rope2, temp>>

(* ... and under its lock it severs it unless it is severed already. *)
DandelionCut ==
  /\ pc[Dandelion] = "d_cut"
  /\ Free(rope1[Dandelion])
  /\ Sever(rope1[Dandelion])
  /\ pc' = [pc EXCEPT ![Dandelion] = "d_check"]
  /\ ClearLocals(Dandelion)
  /\ UNCHANGED <<mappings, threads_left, ropeLock, locksAlive>>

DandelionCheck == LoopCheck(Dandelion, "d_check", "d_loop", "exit")

(* marigold: pick a stake and read its rope without a lock ...            *)
MarigoldRead(s) ==
  /\ pc[Marigold] = "m_loop"
  /\ index' = [index EXCEPT ![Marigold] = s]
  /\ rope1' = [rope1 EXCEPT ![Marigold] = mappings[s]]
  /\ pc' = [pc EXCEPT ![Marigold] = "m_cut"]
  /\ UNCHANGED <<mappings, severed, ropes_left, threads_left, ropeLock,
                 locksAlive, index2, rope2, temp>>

(* ... then under that rope's lock sever it only if it is unsevered and  *)
(* still tied to that stake.                                              *)
MarigoldCut ==
  LET r == rope1[Marigold]
  IN  /\ pc[Marigold] = "m_cut"
      /\ Free(r)
      /\ IF r = mappings[index[Marigold]] THEN Sever(r)
                                          ELSE UNCHANGED <<severed, ropes_left>>
      /\ pc' = [pc EXCEPT ![Marigold] = "m_check"]
      /\ ClearLocals(Marigold)
      /\ UNCHANGED <<mappings, threads_left, ropeLock, locksAlive>>

MarigoldCheck == LoopCheck(Marigold, "m_check", "m_loop", "exit")

(* balloon: poll ropes_left under rope_check_lock until it reaches 0. *)
BalloonCheck == LoopCheck(Balloon, "b_loop", "b_loop", "exit")

(* Every thread after its loop: threads_left-- under threads_lock, then  *)
(* thread_exit.                                                           *)
ThreadDone(t) ==
  /\ pc[t] = "exit"
  /\ threads_left' = threads_left - 1
  /\ pc' = [pc EXCEPT ![t] = "done"]
  /\ UNCHANGED <<mappings, severed, ropes_left, ropeLock, locksAlive, Locals>>

-----------------------------------------------------------------------------
(* flowerkiller: pick two stakes (equal stakes: continue, no step), read *)
(* the first stake's rope without a lock ...                              *)
FkRead1(t, s1, s2) ==
  /\ pc[t] = "f_loop"
  /\ s1 # s2
  /\ index' = [index EXCEPT ![t] = s1]
  /\ index2' = [index2 EXCEPT ![t] = s2]
  /\ rope1' = [rope1 EXCEPT ![t] = mappings[s1]]
  /\ pc' = [pc EXCEPT ![t] = "f_read2"]
  /\ UNCHANGED <<mappings, severed, ropes_left, threads_left, ropeLock,
                 locksAlive, rope2, temp>>

(* ... and the second's, also without a lock. *)
FkRead2(t) ==
  /\ pc[t] = "f_read2"
  /\ rope2' = [rope2 EXCEPT ![t] = mappings[index2[t]]]
  /\ pc' = [pc EXCEPT ![t] = "f_lock1"]
  /\ UNCHANGED <<mappings, severed, ropes_left, threads_left, ropeLock,
                 locksAlive, index, index2, rope1, temp>>

FirstLock(t) == IF rope1[t] < rope2[t] THEN rope1[t] ELSE rope2[t]
SecondLock(t) == IF rope1[t] < rope2[t] THEN rope2[t] ELSE rope1[t]

(* lock_acquire of a rope lock: wait until it is free. *)
AcquireRope(t, r, at, to) ==
  /\ pc[t] = at
  /\ Free(r)
  /\ ropeLock' = [ropeLock EXCEPT ![r] = t]
  /\ pc' = [pc EXCEPT ![t] = to]
  /\ UNCHANGED <<mappings, severed, ropes_left, threads_left, locksAlive,
                 Locals>>

(* The lower-numbered rope's lock first. *)
FkLock1(t) == AcquireRope(t, FirstLock(t), "f_lock1", "f_lock2")

(* Mutant: the second lock taken without lock_do_i_hold. *)
FkLock2NoHoldCheck(t) == AcquireRope(t, SecondLock(t), "f_lock2", "f_swap")

(* The second lock only if this thread does not hold it already: both   *)
(* reads may have returned the same rope when another flowerkiller        *)
(* swapped between them.                                                  *)
FkLock2(t) ==
  \/ /\ ~lock_do_i_hold(t, SecondLock(t))
     /\ AcquireRope(t, SecondLock(t), "f_lock2", "f_swap")
  \/ /\ pc[t] = "f_lock2"
     /\ lock_do_i_hold(t, SecondLock(t))
     /\ pc' = [pc EXCEPT ![t] = "f_release1"]
     /\ UNCHANGED <<mappings, severed, ropes_left, threads_left, ropeLock,
                    locksAlive, Locals>>

(* Mutant: the severed tests of the swap dropped. *)
FkSwapNoSeveredCheck(t) ==
  /\ pc[t] = "f_swap"
  /\ IF rope1[t] = mappings[index[t]] /\ rope2[t] = mappings[index2[t]]
     THEN /\ temp' = [temp EXCEPT ![t] = mappings[index[t]]]
          /\ mappings' = [mappings EXCEPT ![index[t]] = mappings[index2[t]]]
          /\ pc' = [pc EXCEPT ![t] = "f_swap2"]
          /\ UNCHANGED ropeLock
     ELSE /\ ReleaseRope(SecondLock(t))
          /\ pc' = [pc EXCEPT ![t] = "f_release1"]
          /\ UNCHANGED <<temp, mappings>>
  /\ UNCHANGED <<severed, ropes_left, threads_left, locksAlive, index, index2,
                 rope1, rope2>>

(* Holding both locks: swap only if neither rope is severed and both     *)
(* stakes still hold the ropes read; temp = mappings[stake1Ind];          *)
(* mappings[stake1Ind] = mappings[stake2Ind] is one write ...             *)
FkSwap(t) ==
  /\ pc[t] = "f_swap"
  /\ IF /\ ~severed[rope1[t]] /\ ~severed[rope2[t]]
        /\ rope1[t] = mappings[index[t]] /\ rope2[t] = mappings[index2[t]]
     THEN /\ temp' = [temp EXCEPT ![t] = mappings[index[t]]]
          /\ mappings' = [mappings EXCEPT ![index[t]] = mappings[index2[t]]]
          /\ pc' = [pc EXCEPT ![t] = "f_swap2"]
          /\ UNCHANGED ropeLock
     ELSE /\ ReleaseRope(SecondLock(t))
          /\ pc' = [pc EXCEPT ![t] = "f_release1"]
          /\ UNCHANGED <<temp, mappings>>
  /\ UNCHANGED <<severed, ropes_left, threads_left, locksAlive, index, index2,
                 rope1, rope2>>

(* ... and mappings[stake2Ind] = temp the next; then the print under      *)
(* print_lock and the release of the second lock.                         *)
FkSwap2(t) ==
  /\ pc[t] = "f_swap2"
  /\ mappings' = [mappings EXCEPT ![index2[t]] = temp[t]]
  /\ ReleaseRope(SecondLock(t))
  /\ pc' = [pc EXCEPT ![t] = "f_release1"]
  /\ index' = [index EXCEPT ![t] = 0] /\ index2' = [index2 EXCEPT ![t] = 0]
  /\ temp' = [temp EXCEPT ![t] = 0]
  /\ UNCHANGED <<severed, ropes_left, threads_left, locksAlive, rope1, rope2>>

(* Release the first lock. *)
FkRelease1(t) ==
  /\ pc[t] = "f_release1"
  /\ ReleaseRope(FirstLock(t))
  /\ pc' = [pc EXCEPT ![t] = "f_check"]
  /\ ClearLocals(t)
  /\ UNCHANGED <<mappings, severed, ropes_left, threads_left, locksAlive>>

FkCheck(t) == LoopCheck(t, "f_check", "f_loop", "exit")

-----------------------------------------------------------------------------
(* main: poll ropes_left under rope_check_lock until it is 0 ... *)
MainWaitRopes ==
  /\ pc[Main] = "wait_ropes"
  /\ ropes_left <= 0
  /\ pc' = [pc EXCEPT ![Main] = "wait_threads"]
  /\ UNCHANGED <<mappings, severed, ropes_left, threads_left, ropeLock,
                 locksAlive, Locals>>

(* Mutant: main goes on without waiting for threads_left. *)
MainWaitThreadsSkip ==
  /\ pc[Main] = "wait_threads"
  /\ pc' = [pc EXCEPT ![Main] = "destroy"]
  /\ UNCHANGED <<mappings, severed, ropes_left, threads_left, ropeLock,
                 locksAlive, Locals>>

(* ... then threads_left under threads_lock until it is 0 or less ... *)
MainWaitThreads ==
  /\ pc[Main] = "wait_threads"
  /\ threads_left <= 0
  /\ pc' = [pc EXCEPT ![Main] = "destroy"]
  /\ UNCHANGED <<mappings, severed, ropes_left, threads_left, ropeLock,
                 locksAlive, Locals>>

(* ... then reset ropes_left (threads_left is not reset) and destroy     *)
(* every lock, and return.                                                *)
MainDestroy ==
  /\ pc[Main] = "destroy"
  /\ ropes_left' = NROPES
  /\ locksAlive' = FALSE
  /\ pc' = [pc EXCEPT ![Main] = "returned"]
  /\ UNCHANGED <<mappings, severed, threads_left, ropeLock, Locals>>

-----------------------------------------------------------------------------
(* A step of worker t that takes a rope lock (it may have to wait). *)
LockingStep(t) ==
  \/ t = Dandelion /\ DandelionCut
  \/ t = Marigold /\ MarigoldCut
  \/ t \in FlowerKillers /\ (FkLock1(t) \/ FkLock2(t))

(* A step of worker t that never waits for a rope lock. *)
OtherStep(t) ==
  \/ t = Dandelion /\ (DandelionCheck \/ \E r \in Ropes : DandelionPick(r))
  \/ t = Marigold /\ (MarigoldCheck \/ \E s \in Stakes : MarigoldRead(s))
  \/ t = Balloon /\ BalloonCheck
  \/ /\ t \in FlowerKillers
     /\ \/ \E s1, s2 \in Stakes : FkRead1(t, s1, s2)
        \/ FkRead2(t) \/ FkSwap(t) \/ FkSwap2(t) \/ FkRelease1(t) \/ FkCheck(t)
  \/ ThreadDone(t)

MainStep == MainWaitRopes \/ MainWaitThreads \/ MainDestroy

WorkerStep(t) == LockingStep(t) \/ OtherStep(t)

Next == (\E t \in Workers : WorkerStep(t)) \/ MainStep

(* Every runnable thread is eventually scheduled (thread_yield only      *)
(* reorders), and a lock waiter gets the lock if it is free infinitely    *)
(* often (lock_release wakes a sleeper).  A thread's only steps are the   *)
(* ones at its pc, and only its lock steps can be disabled by others, so  *)
(* one strong fairness condition per thread states both.  random()        *)
(* eventually returns every value: dandelion's pick of each rope is       *)
(* strongly fair.                                                         *)
Fairness ==
  /\ \A t \in Workers : SF_vars(WorkerStep(t))
  /\ \A r \in Ropes : SF_vars(DandelionPick(r))
  /\ WF_vars(MainStep)

Spec == Init /\ [][Next]_vars /\ Fairness

-----------------------------------------------------------------------------
TypeOK ==
  /\ mappings \in [Stakes -> Ropes]
  /\ severed \in [Ropes -> BOOLEAN]
  /\ ropes_left \in -NROPES..NROPES
  /\ threads_left \in -Cardinality(Workers)..Cardinality(Workers)
  /\ ropeLock \in [Ropes -> Workers \cup {NoThread}]
  /\ locksAlive \in BOOLEAN
  /\ pc \in [Threads -> {"d_loop", "d_cut", "d_check", "m_loop", "m_cut", "m_check",
                         "b_loop", "f_loop", "f_read2", "f_lock1", "f_lock2",
                         "f_swap", "f_swap2", "f_release1", "f_check", "exit",
                         "done", "wait_ropes", "wait_threads", "destroy",
                         "returned"}]
  /\ index \in [Workers -> Stakes] /\ index2 \in [Workers -> Stakes]
  /\ rope1 \in [Workers -> Ropes] /\ rope2 \in [Workers -> Ropes]
  /\ temp \in [Workers -> Ropes]

(* The mappings with every swap in progress completed: a flowerkiller    *)
(* between its two writes has already copied stake2's rope to stake1.     *)
Tied == [s \in Stakes |->
           IF \E t \in FlowerKillers : pc[t] = "f_swap2" /\ index2[t] = s
           THEN temp[CHOOSE t \in FlowerKillers : pc[t] = "f_swap2" /\ index2[t] = s]
           ELSE mappings[s]]

(* ropes_left counts the unsevered ropes while the locks exist: dandelion *)
(* and marigold may pick the same rope, and only the severed test under   *)
(* the rope lock keeps a rope from being counted twice.                   *)
RopesLeftCount ==
  locksAlive => ropes_left = NROPES - Cardinality({r \in Ropes : severed[r]})

(* main destroys the locks only when every other thread has finished:    *)
(* it waits for threads_left before lock_destroy.                         *)
MainWaitsForAll ==
  ~locksAlive => \A t \in Workers : pc[t] = "done"

(* Every run of the command ends: all ropes are severed, every thread     *)
(* leaves its loop and main returns.  The rope locks are taken in index   *)
(* order and a flowerkiller whose two reads name one rope takes its lock  *)
(* once, so no thread waits for ever.                                     *)
Termination == <>(pc[Main] = "returned")

-----------------------------------------------------------------------------
(* The refinement mapping: a swap is the exchange once its first write   *)
(* is done (Tied), a rope is cut when severed is set, a worker finishes   *)
(* at thread_exit and the command returns when main does.                 *)
Escape == INSTANCE BalloonEscape
            WITH tied <- Tied,
                 cut <- {r \in Ropes : severed[r]},
                 running <- {t \in Workers : pc[t] # "done"},
                 returned <- (pc[Main] = "returned")

(* airballoon implements BalloonEscape: every step of the threads is a   *)
(* cut of an uncut rope, an exchange of two uncut ropes, a worker exiting *)
(* after the last cut, main returning after the last exit, or no change   *)
(* to those.  It fails if a flowerkiller swaps a rope already severed,    *)
(* a rope is severed twice, or a thread leaves its loop early.            *)
EscapeRefined == Escape!Spec

=============================================================================
