-------------------------------- MODULE Proc --------------------------------
(***************************************************************************)
(* Process lifecycle: the global pid table (struct pid_table), the proc    *)
(* structures it points at, and the fork / _exit / waitpid system calls    *)
(* built on them (src/kern/proc/proc.c, src/kern/syscall/psyscall.c).      *)
(*                                                                         *)
(* One thread per user process, identified with its proc structure.        *)
(* Every critical section of pidTable->plock (lock_acquire ... release) is *)
(* one atomic step; the code between two critical sections is a separate  *)
(* step, so other threads interleave exactly where the code lets them.     *)
(* cv_wait(pcv, plock) is atomic with respect to cv_broadcast because the  *)
(* cv spinlock is taken before plock is released (synch.c), so a waiter   *)
(* that has released plock is already on the wait channel when an exiting *)
(* thread broadcasts.                                                      *)
(*                                                                         *)
(* The descriptor table, the address space and the cwd reference are      *)
(* modelled in FileTable; here fork_ft is the plock section it runs in.    *)
(***************************************************************************)
EXTENDS Naturals, FiniteSets, FiniteSetsExt

CONSTANTS
  PID_MAX,            \* procs[] is indexed 1..PID_MAX; pids 2..PID_MAX-1 are handed out
  MaxProcs,           \* bound: proc structures created after boot (kproc excluded)
  ExitCodes,          \* the codes a process may pass to _exit
  AsCopyMayFail,      \* as_copy may return ENOMEM (as_create's kmalloc fails)
  ThreadForkMayFail,  \* thread_fork may fail in sys_fork
  ArrayAddMayFail,    \* array_add (its kmalloc) may fail in proc_exit
  AsIds,              \* the addresses kmalloc can return for a struct addrspace
  ExecCalls           \* user programs call execv

ASSUME /\ PID_MAX \in Nat /\ PID_MAX >= 3
       /\ MaxProcs \in Nat \ {0}
       /\ ExitCodes # {}
       /\ AsCopyMayFail \in BOOLEAN /\ ThreadForkMayFail \in BOOLEAN
       /\ ArrayAddMayFail \in BOOLEAN
       /\ 1 \in AsIds /\ 0 \notin AsIds /\ ExecCalls \in BOOLEAN

\* Proc structures: 0 is kproc, 1 the first user process (runprogram),
\* 2..MaxProcs the ones fork creates, in creation order.
kproc == 0
Procs == 0..MaxProcs
UserProcs == 1..MaxProcs
NoProc == -1                       \* a NULL entry of pidTable->procs
NoAs == 0                          \* a NULL p_addrspace
PidIndex == 1..PID_MAX             \* the slots pid_table_init fills

\* proc.c's status constants
AVAILABLE == "AVAILABLE"
EXITED == "EXITED"
ZOMBIE == "ZOMBIE"
RUNNING == "RUNNING"

\* Where each thread is: between syscalls ("user"), inside one, or gone.
WaitStates == {"wait_first", "wait_sleep", "wait_woken", "wait_reap"}
PCs == {"kernel", "unborn", "user", "fork_copy", "fork_thread",
        "exit_zombie", "dead"} \cup WaitStates

VARIABLES
  procs,          \* pidTable->procs: pid -> proc structure or NoProc
  firstFreePid,   \* pidTable->firstFreePid (-1 when the table is full)
  plockAlive,     \* pidTable->plock and pcv not yet destroyed
  status,         \* proc->status
  pid,            \* proc->pid
  exitCode,       \* proc->exitCode
  children,       \* proc->children, as a set of proc structures
  pc,             \* each proc's thread
  forkChild,      \* sys_fork's childProc
  waitPid,        \* sys_waitpid's pid argument
  canReap,        \* sys_waitpid's canReap
  exitArg,        \* sys__exit's exitcode argument
  allocated,      \* proc structures created so far (the last one's id)
  addrspace,      \* proc->p_addrspace
  asLive          \* address spaces as_create made and as_destroy has not freed

asVars == <<addrspace, asLive>>

vars == <<procs, firstFreePid, plockAlive, status, pid, exitCode, children,
          pc, forkChild, waitPid, canReap, exitArg, allocated, asVars>>

-----------------------------------------------------------------------------
(* findFirstFreePid: the lowest pid in 2..PID_MAX-1 whose slot is NULL or   *)
(* AVAILABLE, or -1.  The loop stops below PID_MAX, so pid PID_MAX is never *)
(* handed out, though pid_table_init creates its slot.                     *)
FindFirstFreePid(tbl, st) ==
  LET free == {i \in 2..(PID_MAX - 1) : tbl[i] = NoProc \/ st[tbl[i]] = AVAILABLE}
  IN  IF free = {} THEN -1 ELSE Min(free)

(* pid_table_init: every slot NULL but kproc's, pid 1. *)
BootTable == [i \in PidIndex |-> IF i = 1 THEN kproc ELSE NoProc]

(* Boot: proc_create_runprogram creates the first user process and        *)
(* addPidEntry, called from the kernel menu thread (curproc = kproc),      *)
(* registers it at pid 2; runprogram gives it its address space.           *)
Init ==
  /\ procs = [BootTable EXCEPT ![2] = 1]
  /\ status = [p \in Procs |-> RUNNING]
  /\ firstFreePid = FindFirstFreePid(procs, status)
  /\ plockAlive = TRUE
  /\ pid = [p \in Procs |-> CASE p = kproc -> 1 [] p = 1 -> 2 [] OTHER -> 0]
  /\ exitCode = [p \in Procs |-> 0]
  /\ children = [p \in Procs |-> IF p = kproc THEN {1} ELSE {}]
  /\ pc = [p \in Procs |-> CASE p = kproc -> "kernel"
                             [] p = 1 -> "user"
                             [] OTHER -> "unborn"]
  /\ forkChild = [p \in Procs |-> NoProc]
  /\ waitPid = [p \in Procs |-> 0]
  /\ canReap = [p \in Procs |-> FALSE]
  /\ exitArg = [p \in Procs |-> 0]
  /\ allocated = 1
  /\ addrspace = [p \in Procs |-> IF p = 1 THEN 1 ELSE NoAs]
  /\ asLive = {1}

-----------------------------------------------------------------------------
(* sys_fork, first step: proc_creator allocates child c (status RUNNING,   *)
(* empty children array, fresh descriptor table), then fork_proc calls     *)
(* addPidEntry under plock.  When the table is full addPidEntry returns    *)
(* ENPROC, but fork_proc overwrites err with as_copy's result, so the fork *)
(* carries on with a child that is in no table slot and whose pid field    *)
(* was never written (any value the kmalloc'd memory held).                *)
AddPidEntry(s, c) ==
  \/ /\ firstFreePid = -1
     /\ \E g \in 0..PID_MAX : pid' = [pid EXCEPT ![c] = g]
     /\ children' = [children EXCEPT ![c] = {}]
     /\ UNCHANGED <<procs, firstFreePid, exitCode>>
  \/ /\ firstFreePid # -1
     /\ LET f == firstFreePid
            tbl == [procs EXCEPT ![f] = c]
        IN /\ procs' = tbl
           /\ pid' = [pid EXCEPT ![c] = f]
           /\ exitCode' = [exitCode EXCEPT ![c] = 0]
           /\ children' = [children EXCEPT ![c] = {}, ![s] = @ \cup {c}]
           /\ firstFreePid' = FindFirstFreePid(tbl, status')

(* proc_create: a new proc, RUNNING, with an empty children array, a     *)
(* fresh descriptor table and a NULL p_addrspace (c is a new structure,    *)
(* so its addrspace is already NoAs).                                      *)
ProcCreate(c) == status' = [status EXCEPT ![c] = RUNNING]

Fork(s) ==
  /\ pc[s] = "user"
  /\ allocated < MaxProcs
  /\ plockAlive
  /\ LET c == allocated + 1
     IN /\ allocated' = c
        /\ ProcCreate(c)
        /\ AddPidEntry(s, c)
        /\ forkChild' = [forkChild EXCEPT ![s] = c]
        /\ pc' = [pc EXCEPT ![s] = "fork_copy"]
  /\ UNCHANGED <<plockAlive, waitPid, canReap, exitArg, asVars>>

(* as_create: kmalloc returns a struct addrspace at an address that is   *)
(* not in use, or NULL when none is left or kmalloc fails.  Which free    *)
(* address it returns is unspecified and no property tells addresses      *)
(* apart, so the lowest is taken.                                         *)
AsCreate(a) == /\ a \notin asLive /\ \A b \in AsIds \ asLive : a <= b
               /\ asLive' = asLive \cup {a}

(* as_copy: ENOMEM when as_create returns NULL. *)
AsCreateFails == AsCopyMayFail \/ asLive = AsIds

(* as_destroy: kfree of the struct addrspace. *)
AsDestroy(a) == asLive' = asLive \ {a}

(* proc_setas: the current proc's p_addrspace becomes a. *)
SetAs(s, a) == addrspace' = [addrspace EXCEPT ![s] = a]

(* proc_destroy's VM part for a proc that is not curproc: p_addrspace is  *)
(* non-NULL, so status = EXITED, the pointer is cleared and the address   *)
(* space destroyed.                                                       *)
ProcDestroyAs(c) ==
  /\ status' = [status EXCEPT ![c] = EXITED]
  /\ addrspace' = [addrspace EXCEPT ![c] = NoAs]
  /\ AsDestroy(addrspace[c])

(* Mutant: as_copy hands the child the parent's address space. *)
ForkCopyShared(s) ==
  /\ pc[s] = "fork_copy"
  /\ plockAlive
  /\ addrspace' = [addrspace EXCEPT ![forkChild[s]] = addrspace[s]]
  /\ pc' = [pc EXCEPT ![s] = "fork_thread"]
  /\ UNCHANGED <<procs, firstFreePid, plockAlive, status, pid, exitCode,
                 children, forkChild, waitPid, canReap, exitArg, allocated,
                 asLive>>

(* fork_proc, rest: as_copy, which as_creates the child's address space   *)
(* and stores it in its p_addrspace; on ENOMEM fork_proc returns the      *)
(* error and sys_fork returns it, leaving the child registered (if it     *)
(* was) and RUNNING with no thread.  Otherwise the cwd is shared and      *)
(* fork_ft copies the descriptor table under plock.                        *)
ForkCopy(s) ==
  /\ pc[s] = "fork_copy"
  /\ \/ /\ plockAlive
        /\ \E a \in AsIds : /\ AsCreate(a)
                            /\ addrspace' = [addrspace EXCEPT ![forkChild[s]] = a]
        /\ pc' = [pc EXCEPT ![s] = "fork_thread"]
     \/ /\ AsCreateFails
        /\ pc' = [pc EXCEPT ![s] = "user"]
        /\ UNCHANGED asVars
  /\ UNCHANGED <<procs, firstFreePid, plockAlive, status, pid, exitCode,
                 children, forkChild, waitPid, canReap, exitArg, allocated>>

(* sys_fork, last step: set_tf then thread_fork.  On success the child's   *)
(* thread starts in user mode.  On failure sys_fork calls proc_destroy,    *)
(* which, the child's address space being non-NULL, marks it EXITED,       *)
(* clears p_addrspace and as_destroys it, and then destroys the global     *)
(* pidTable->plock and pcv; the child stays in its pid slot and in the     *)
(* parent's children.                                                      *)
ForkThread(s) ==
  /\ pc[s] = "fork_thread"
  /\ LET c == forkChild[s]
     IN \/ /\ pc' = [pc EXCEPT ![s] = "user", ![c] = "user"]
           /\ UNCHANGED <<status, plockAlive, asVars>>
        \/ /\ ThreadForkMayFail
           /\ ProcDestroyAs(c)
           /\ plockAlive' = FALSE
           /\ pc' = [pc EXCEPT ![s] = "user"]
  /\ UNCHANGED <<procs, firstFreePid, pid, exitCode, children, forkChild,
                 waitPid, canReap, exitArg, allocated>>

(* sys_execv.  Copying in the program name and arguments (getLen,         *)
(* getProgName, getCount, getargs), vfs_open and a NULL as_create each    *)
(* return an error before any state modelled here is changed, so they    *)
(* are no step here.  Otherwise new_as is made current with              *)
(* proc_setas; load_elf or copyout_args may fail (as_define_stack always  *)
(* returns 0), and then old_as is set back but new_as is not destroyed.   *)
(* On success enter_new_process runs the program in new_as, and old_as    *)
(* is not destroyed either.  Nothing here is shared with another thread,  *)
(* so the call is one step.                                                *)
Exec(s) ==
  /\ ExecCalls
  /\ pc[s] = "user"
  /\ \E a \in AsIds :
       /\ AsCreate(a)
       /\ \/ SetAs(s, a)
          \/ UNCHANGED addrspace
  /\ UNCHANGED <<procs, firstFreePid, plockAlive, status, pid, exitCode,
                 children, pc, forkChild, waitPid, canReap, exitArg, allocated>>

-----------------------------------------------------------------------------
(* sys__exit -> proc_exit, first step (no lock held): every child that is  *)
(* RUNNING or ZOMBIE is appended to kproc's children array.                *)
Reparented(s) == {x \in children[s] : status[x] \in {RUNNING, ZOMBIE}}

Exit(s, code) ==
  /\ pc[s] = "user"
  /\ children' = [children EXCEPT ![kproc] = @ \cup Reparented(s)]
  /\ exitArg' = [exitArg EXCEPT ![s] = code]
  /\ pc' = [pc EXCEPT ![s] = "exit_zombie"]
  /\ UNCHANGED <<procs, firstFreePid, plockAlive, status, pid, exitCode,
                 forkChild, waitPid, canReap, allocated, asVars>>

(* The same loop when array_add fails on child k: the children before it  *)
(* (the array is in fork order, which is proc order) have been appended,  *)
(* and proc_exit returns, so sys__exit returns to user mode with the      *)
(* process still RUNNING.                                                  *)
ExitReparentFails(s) ==
  /\ ArrayAddMayFail
  /\ pc[s] = "user"
  /\ \E k \in Reparented(s) :
        children' = [children EXCEPT ![kproc] =
                       @ \cup {x \in Reparented(s) : x < k}]
  /\ UNCHANGED <<procs, firstFreePid, plockAlive, status, pid, exitCode,
                 pc, forkChild, waitPid, canReap, exitArg, allocated, asVars>>

(* proc_exit, under plock: become ZOMBIE, record the code, cv_broadcast    *)
(* (every thread asleep on pcv is woken), then thread_exit.                *)
(* Mutant: cv_signal instead of cv_broadcast, waking one sleeper. *)
ExitZombieSignal(s) ==
  /\ pc[s] = "exit_zombie"
  /\ plockAlive
  /\ status' = [status EXCEPT ![s] = ZOMBIE]
  /\ exitCode' = [exitCode EXCEPT ![s] = exitArg[s]]
  /\ \/ /\ \E w \in Procs : /\ pc[w] = "wait_sleep"
                           /\ pc' = [pc EXCEPT ![s] = "dead", ![w] = "wait_woken"]
     \/ /\ \A w \in Procs : pc[w] # "wait_sleep"
        /\ pc' = [pc EXCEPT ![s] = "dead"]
  /\ UNCHANGED <<procs, firstFreePid, plockAlive, pid, children, forkChild,
                 waitPid, canReap, exitArg, allocated, asVars>>

WakeSleepers(p) ==
  [t \in Procs |-> IF pc[t] = "wait_sleep" THEN "wait_woken" ELSE p[t]]

ExitZombie(s) ==
  /\ pc[s] = "exit_zombie"
  /\ plockAlive
  /\ status' = [status EXCEPT ![s] = ZOMBIE]
  /\ exitCode' = [exitCode EXCEPT ![s] = exitArg[s]]
  /\ pc' = WakeSleepers([pc EXCEPT ![s] = "dead"])
  /\ UNCHANGED <<procs, firstFreePid, plockAlive, pid, children, forkChild,
                 waitPid, canReap, exitArg, allocated, asVars>>

-----------------------------------------------------------------------------
(* sys_waitpid(p, status, 0): canReap is set when the status pointer is    *)
(* non-NULL and a trial copyout to it succeeds (a NULL or bad pointer      *)
(* waits without reaping).  isChild then looks, under plock, for a proc    *)
(* with pid p in the caller's children; when there is none sys_waitpid     *)
(* returns ECHILD and nothing changes, so that branch is no step here.     *)
IsChild(s, p) == \E c \in children[s] : pid[c] = p

Waitpid(s, p, reap) ==
  /\ pc[s] = "user"
  /\ plockAlive
  /\ IsChild(s, p)
  /\ waitPid' = [waitPid EXCEPT ![s] = p]
  /\ canReap' = [canReap EXCEPT ![s] = reap]
  /\ pc' = [pc EXCEPT ![s] = "wait_first"]
  /\ UNCHANGED <<procs, firstFreePid, plockAlive, status, pid, exitCode,
                 children, forkChild, exitArg, allocated, asVars>>

(* Mutant: "if" for "while": a woken waiter goes on to reap unchecked. *)
WaitCheckOnce(s) ==
  /\ pc[s] \in {"wait_first", "wait_woken"}
  /\ plockAlive
  /\ pc' = [pc EXCEPT ![s] = IF status[procs[waitPid[s]]] = ZOMBIE \/ pc[s] = "wait_woken"
                             THEN "wait_reap" ELSE "wait_sleep"]
  /\ UNCHANGED <<procs, firstFreePid, plockAlive, status, pid, exitCode,
                 children, forkChild, waitPid, canReap, exitArg, allocated, asVars>>

(* proc_waitpid's loop, one plock section per pass: read                   *)
(* pidTable->procs[pid]->status; ZOMBIE ends the loop and releases plock,  *)
(* anything else is cv_wait: sleep until the next broadcast.               *)
WaitCheck(s) ==
  /\ pc[s] \in {"wait_first", "wait_woken"}
  /\ plockAlive
  /\ pc' = [pc EXCEPT ![s] = IF status[procs[waitPid[s]]] = ZOMBIE
                             THEN "wait_reap" ELSE "wait_sleep"]
  /\ UNCHANGED <<procs, firstFreePid, plockAlive, status, pid, exitCode,
                 children, forkChild, waitPid, canReap, exitArg, allocated, asVars>>

(* Mutant: the reap does not call findFirstFreePid. *)
WaitReapNoRefresh(s) ==
  /\ pc[s] = "wait_reap"
  /\ \/ /\ canReap[s]
        /\ plockAlive
        /\ status' = [status EXCEPT ![procs[waitPid[s]]] = AVAILABLE]
     \/ /\ ~canReap[s]
        /\ UNCHANGED status
  /\ pc' = [pc EXCEPT ![s] = "user"]
  /\ UNCHANGED <<procs, firstFreePid, plockAlive, pid, exitCode, children,
                 forkChild, waitPid, canReap, exitArg, allocated, asVars>>

(* proc_waitpid, second plock section: when canReap, mark the slot's proc  *)
(* AVAILABLE, read its exit code and recompute firstFreePid.               *)
WaitReap(s) ==
  /\ pc[s] = "wait_reap"
  /\ \/ /\ canReap[s]
        /\ plockAlive
        /\ LET st == [status EXCEPT ![procs[waitPid[s]]] = AVAILABLE]
           IN /\ status' = st
              /\ firstFreePid' = FindFirstFreePid(procs, st)
     \/ /\ ~canReap[s]
        /\ UNCHANGED <<status, firstFreePid>>
  /\ pc' = [pc EXCEPT ![s] = "user"]
  /\ UNCHANGED <<procs, plockAlive, pid, exitCode, children, forkChild,
                 waitPid, canReap, exitArg, allocated, asVars>>

-----------------------------------------------------------------------------
Next ==
  \E s \in UserProcs :
     \/ Fork(s) \/ ForkCopy(s) \/ ForkThread(s) \/ Exec(s)
     \/ \E code \in ExitCodes : Exit(s, code)
     \/ ExitReparentFails(s)
     \/ ExitZombie(s)
     \/ \E p \in 2..(PID_MAX - 1), reap \in BOOLEAN : Waitpid(s, p, reap)
     \/ WaitCheck(s) \/ WaitReap(s)

(* Once a thread is inside a system call the scheduler keeps running it:   *)
(* each step after the first is weakly fair.  A thread in user mode need   *)
(* not make another call, so Fork, Exit and Waitpid carry no fairness.     *)
(* plock sections are single steps here, so a step waiting for plock is   *)
(* continuously enabled and weak fairness suffices.                        *)
Fairness ==
  \A s \in UserProcs :
     /\ WF_vars(ForkCopy(s)) /\ WF_vars(ForkThread(s))
     /\ WF_vars(ExitZombie(s))
     /\ WF_vars(WaitCheck(s)) /\ WF_vars(WaitReap(s))

Spec == Init /\ [][Next]_vars /\ Fairness

-----------------------------------------------------------------------------
(* The pid cursor addPidEntry trusts: firstFreePid is always the lowest    *)
(* pid in 2..PID_MAX-1 whose slot is NULL or AVAILABLE, and -1 exactly     *)
(* when there is none.  It is refreshed by addPidEntry and by a reaping    *)
(* waitpid; a path that frees or fills a slot without refreshing it makes  *)
(* fork fail with free pids left, or hand out a pid that is in use.        *)
FreePidCursorExact == firstFreePid = FindFirstFreePid(procs, status)

(* waitpid consumes only what exit produced: a proc becomes AVAILABLE only *)
(* from ZOMBIE.  Every exit broadcasts to all waiters on pcv, whatever pid *)
(* they wait for, so a woken waiter must re-check its own target before it *)
(* reaps.                                                                  *)
ReapOnlyZombies ==
  [][\A x \in Procs :
       status'[x] = AVAILABLE /\ status[x] # AVAILABLE => status[x] = ZOMBIE]_vars

(* A parent blocked in waitpid with reap on a child that has become a      *)
(* ZOMBIE (and still owns its pid) eventually sees that child reaped: the  *)
(* exit's broadcast reaches it whichever pid the other sleepers wait for.  *)
ZombieReaped ==
  \A s \in UserProcs, c \in UserProcs :
     ( /\ pc[s] \in WaitStates /\ canReap[s]
       /\ c \in children[s] /\ waitPid[s] = pid[c] /\ procs[pid[c]] = c
       /\ status[c] = ZOMBIE )
     ~> status[c] = AVAILABLE

(* Every non-NULL p_addrspace is a live address space that no other proc  *)
(* points at: as_copy gives a child a fresh one, execv switches to a new   *)
(* one and back to the old one on failure, and the proc_destroy of a       *)
(* failed fork clears the pointer it as_destroys, so kmalloc can hand the  *)
(* freed address space to a later as_create.                               *)
AddrspaceExclusive ==
  \A p \in Procs : addrspace[p] # NoAs =>
     /\ addrspace[p] \in asLive
     /\ \A q \in Procs \ {p} : addrspace[q] # addrspace[p]

-----------------------------------------------------------------------------
(* Properties the code is checked against and does not satisfy (see the   *)
(* violation runs).                                                        *)

(* waitpid reaps only the caller's own child (spec: a second reap of a pid *)
(* fails once the pid has been reassigned).  isChild matches on the pid    *)
(* stored in the caller's children, which keeps reaped procs, while the    *)
(* reap goes through pidTable->procs[pid], which may by then hold another  *)
(* parent's child.                                                         *)
ReapOwnChildOnly ==
  [][\A s \in UserProcs :
       pc[s] = "wait_reap" /\ canReap[s] /\ status'[procs[waitPid[s]]] = AVAILABLE
       /\ status[procs[waitPid[s]]] # AVAILABLE
       => procs[waitPid[s]] \in children[s]]_vars

(* A fork that returns leaves either a child whose thread runs and that  *)
(* owns the pid slot its pid names, or no trace: the child holds no pid   *)
(* slot that is not AVAILABLE, and the global pid lock is intact (spec:   *)
(* fork with no free pid fails with TooManyProcesses; a failing fork      *)
(* returns the child's pid to the registry).  It is about fork_proc's     *)
(* handling of addPidEntry's and as_copy's results and sys_fork's         *)
(* handling of a thread_fork failure.                                     *)
ForkOutcome ==
  [][\A s \in UserProcs :
       pc[s] \in {"fork_copy", "fork_thread"} /\ pc'[s] = "user" =>
         LET c == forkChild[s]
         IN  \/ pc'[c] = "user" /\ pid'[c] \in PidIndex /\ procs'[pid'[c]] = c
             \/ /\ pc'[c] = "unborn" /\ plockAlive'
                /\ \A i \in PidIndex : procs'[i] = c => status'[c] = AVAILABLE]_vars

==============================================================================
