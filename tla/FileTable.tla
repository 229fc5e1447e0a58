------------------------------ MODULE FileTable ------------------------------
(***************************************************************************)
(* Per-process descriptor tables (struct fileTablePtr, filetable.c) and    *)
(* the descriptor system calls that use them (fsyscall.c): open, close,    *)
(* read, write, dup2, and fork_ft, the copy fork makes of the parent's     *)
(* table.                                                                  *)
(*                                                                         *)
(* A table is an array of pointers to struct fte entries.  ft_init gives   *)
(* every process OPEN_MAX entries of its own; fork_ft then makes the       *)
(* child's slot point at the parent's entry (child_ft->ftp[i] =            *)
(* parent->ftp[i]) for every occupied slot, so after a fork parent and     *)
(* child share those entries: flag, file, permissions and the entry lock.  *)
(* Entry <<q, i>> is the one ft_init made for slot i of process q.         *)
(*                                                                         *)
(* An entry lock is its holder (lock->lk_holder, taken iff a holder is     *)
(* set); lock_release clears it whoever holds it, as synch.c does.         *)
(* Offsets, buffers and byte counts are left out: no control decision of  *)
(* these calls depends on them except lseek's, which is not modelled here. *)
(* findFirstFreeSpot is one atomic scan; the per-slot lock_acquire it does *)
(* can only delay it behind a reader or writer of that slot.               *)
(***************************************************************************)
EXTENDS Naturals, FiniteSets, FiniteSetsExt

CONSTANTS
  OPEN_MAX,      \* slots per table; 0..2 are the standard streams
  MaxProcs,      \* bound: processes; 1 runs at boot, each fork starts the next
  Vnodes,        \* files open may return
  OpenFlags,     \* flags & O_ACCMODE open is called with (O_RDONLY 0, O_WRONLY 1, O_RDWR 2)
  FdArgs         \* descriptor arguments the calls are made with

ASSUME /\ OPEN_MAX \in Nat /\ OPEN_MAX >= 4
       /\ MaxProcs \in Nat \ {0}
       /\ OpenFlags \subseteq 0..3
       /\ FdArgs \subseteq 0..(OPEN_MAX - 1)

Procs == 1..MaxProcs
FDs == 0..(OPEN_MAX - 1)
Ent == Procs \X FDs
NoThread == 0
NULL == "NULL"                     \* fte->file = 0
CON == "con"                       \* the console vnode stdio_init opens

PCs == {"unborn", "user", "close_check", "close_clean", "dup_release2",
        "dup_add", "dup_copy", "read_lock", "read_io", "write_lock",
        "write_io", "lseek_lock", "lseek_io", "fork_ft", "fork_release2", "fork_done"}

VARIABLES
  ft,            \* ft->ftp: process -> slot -> entry
  firstFreeSpot, \* ft->firstFreeSpot
  flag,          \* fte->flag
  file,          \* fte->file
  permissions,   \* fte->permissions
  holder,        \* fte->fte_lock holder
  pc,            \* each process's thread
  fdArg,         \* the fd of close/read/write, newfd of dup2
  oldFd,         \* dup2's oldfd
  inDup,         \* sys_close called from sys_dup2
  forkChild,     \* the child fork_ft copies into
  forkIdx,       \* fork_ft's loop index
  allocated      \* processes started so far

vars == <<ft, firstFreeSpot, flag, file, permissions, holder, pc, fdArg,
          oldFd, inDup, forkChild, forkIdx, allocated>>

Entry(p, fd) == ft[p][fd]
Free(e) == holder[e] = NoThread

-----------------------------------------------------------------------------
(* findFirstFreeSpot: lowest unoccupied slot from 3 up, or -1. *)
FindFirstFreeSpot(p, fl) ==
  LET free == {i \in 3..(OPEN_MAX - 1) : fl[ft[p][i]] = 0}
  IN  IF free = {} THEN -1 ELSE Min(free)

(* Process 1 is the runprogram process: ft_init, then stdio_init opens    *)
(* the console three times (addIoEntry: read on 0, write on 1 and 2).     *)
(* Every other table is as ft_init leaves it: all slots empty and         *)
(* firstFreeSpot 0.                                                        *)
StdPerm == <<1, 2, 2>>
Init ==
  /\ ft = [p \in Procs |-> [i \in FDs |-> <<p, i>>]]
  /\ flag = [e \in Ent |-> IF e[1] = 1 /\ e[2] < 3 THEN 1 ELSE 0]
  /\ file = [e \in Ent |-> IF e[1] = 1 /\ e[2] < 3 THEN CON ELSE NULL]
  /\ permissions = [e \in Ent |-> IF e[1] = 1 /\ e[2] < 3 THEN StdPerm[e[2] + 1] ELSE 0]
  /\ holder = [e \in Ent |-> NoThread]
  /\ firstFreeSpot = [p \in Procs |-> IF p = 1 THEN 3 ELSE 0]
  /\ pc = [p \in Procs |-> IF p = 1 THEN "user" ELSE "unborn"]
  /\ fdArg = [p \in Procs |-> 0]
  /\ oldFd = [p \in Procs |-> 0]
  /\ inDup = [p \in Procs |-> FALSE]
  /\ forkChild = [p \in Procs |-> 1]
  /\ forkIdx = [p \in Procs |-> 0]
  /\ allocated = 1

Locals == <<fdArg, oldFd, inDup, forkChild, forkIdx, allocated>>

-----------------------------------------------------------------------------
(* Mutant: the access-mode switch written as arithmetic, which loses its  *)
(* default (EINVAL) case.                                                  *)
AccessPermissionsArith(how) == how + 1

(* sys_open's switch on flags & O_ACCMODE: the permissions recorded in    *)
(* the entry (1 read, 2 write, 3 read-write), 0 for EINVAL.               *)
AccessPermissions(how) ==
  CASE how = 0 -> 1 [] how = 1 -> 2 [] how = 2 -> 3 [] OTHER -> 0

(* addEntry: with no free spot it fails (ENOMEM); otherwise it fills the *)
(* slot firstFreeSpot names under that slot's lock, without looking at    *)
(* the slot's flag, and rescans.                                          *)
AddEntry(p, perm, v) ==
  /\ firstFreeSpot[p] # -1
  /\ LET e == Entry(p, firstFreeSpot[p])
         fl == [flag EXCEPT ![e] = 1]
     IN /\ Free(e)
        /\ flag' = fl
        /\ file' = [file EXCEPT ![e] = v]
        /\ permissions' = [permissions EXCEPT ![e] = perm]
        /\ firstFreeSpot' = [firstFreeSpot EXCEPT ![p] = FindFirstFreeSpot(p, fl)]

(* sys_open: flags decoded to permissions (EINVAL on an unknown mode), the *)
(* file opened (vfs_open returns v), then addEntry.                        *)
Open(p, how, v) ==
  /\ pc[p] = "user"
  /\ AccessPermissions(how) # 0
  /\ AddEntry(p, AccessPermissions(how), v)
  /\ UNCHANGED <<ft, holder, pc, Locals>>

(* sys_close: check_fd, then under the entry lock test the flag (EBADF on *)
(* an empty slot); release; clean_fd takes the lock again, clears the      *)
(* entry and rescans.  From dup2 the result is ignored.                    *)
Close(p, fd) ==
  /\ pc[p] = "user"
  /\ fdArg' = [fdArg EXCEPT ![p] = fd]
  /\ inDup' = [inDup EXCEPT ![p] = FALSE]
  /\ pc' = [pc EXCEPT ![p] = "close_check"]
  /\ UNCHANGED <<ft, firstFreeSpot, flag, file, permissions, holder, oldFd,
                 forkChild, forkIdx, allocated>>

CloseCheck(p) ==
  /\ pc[p] = "close_check"
  /\ Free(Entry(p, fdArg[p]))
  /\ pc' = [pc EXCEPT ![p] = CASE flag[Entry(p, fdArg[p])] = 1 -> "close_clean"
                               [] inDup[p] -> "dup_release2"
                               [] OTHER -> "user"]
  /\ UNCHANGED <<ft, firstFreeSpot, flag, file, permissions, holder, Locals>>

(* Mutant: clean_fd without the findFirstFreeSpot that follows it. *)
CleanFdNoScan(p) ==
  /\ pc[p] = "close_clean"
  /\ LET e == Entry(p, fdArg[p])
     IN /\ Free(e)
        /\ flag' = [flag EXCEPT ![e] = 0]
        /\ file' = [file EXCEPT ![e] = NULL]
        /\ permissions' = [permissions EXCEPT ![e] = 0]
  /\ pc' = [pc EXCEPT ![p] = IF inDup[p] THEN "dup_release2" ELSE "user"]
  /\ UNCHANGED <<ft, firstFreeSpot, holder, Locals>>

CleanFd(p) ==
  /\ pc[p] = "close_clean"
  /\ LET e == Entry(p, fdArg[p])
         fl == [flag EXCEPT ![e] = 0]
     IN /\ Free(e)
        /\ flag' = fl
        /\ file' = [file EXCEPT ![e] = NULL]
        /\ permissions' = [permissions EXCEPT ![e] = 0]
        /\ firstFreeSpot' = [firstFreeSpot EXCEPT ![p] = FindFirstFreeSpot(p, fl)]
  /\ pc' = [pc EXCEPT ![p] = IF inDup[p] THEN "dup_release2" ELSE "user"]
  /\ UNCHANGED <<ft, holder, Locals>>

-----------------------------------------------------------------------------
(* isValid, under the entry lock: the slot is occupied and readable. *)
IsValid(p, fd) ==
  LET e == Entry(p, fd)
  IN  Free(e) /\ flag[e] = 1 /\ permissions[e] \in {1, 3}

(* sys_read: isValid (EBADF), then lock_acquire, VOP_READ on entry->file, *)
(* offset update, lock_release.                                            *)
Read(p, fd) ==
  /\ pc[p] = "user"
  /\ IsValid(p, fd)
  /\ fdArg' = [fdArg EXCEPT ![p] = fd]
  /\ pc' = [pc EXCEPT ![p] = "read_lock"]
  /\ UNCHANGED <<ft, firstFreeSpot, flag, file, permissions, holder, oldFd,
                 inDup, forkChild, forkIdx, allocated>>

(* lock_acquire of the entry lock: wait until it is not taken. *)
Acquire(p, from, to) ==
  /\ pc[p] = from
  /\ Free(Entry(p, fdArg[p]))
  /\ holder' = [holder EXCEPT ![Entry(p, fdArg[p])] = p]
  /\ pc' = [pc EXCEPT ![p] = to]
  /\ UNCHANGED <<ft, firstFreeSpot, flag, file, permissions, Locals>>

ReadLock(p) == Acquire(p, "read_lock", "read_io")

(* VOP_READ / VOP_WRITE and the offset update, then lock_release. *)
ReleaseAfterIO(p, at) ==
  /\ pc[p] = at
  /\ holder' = [holder EXCEPT ![Entry(p, fdArg[p])] = NoThread]
  /\ pc' = [pc EXCEPT ![p] = "user"]
  /\ UNCHANGED <<ft, firstFreeSpot, flag, file, permissions, Locals>>

ReadIO(p) == ReleaseAfterIO(p, "read_io")

(* sys_write: entry->file tested against NULL without the lock (EBADF),   *)
(* then lock_acquire; under the lock a read-only entry gives EBADF,       *)
(* otherwise VOP_WRITE and the offset update; lock_release.                *)
Write(p, fd) ==
  /\ pc[p] = "user"
  /\ file[Entry(p, fd)] # NULL
  /\ fdArg' = [fdArg EXCEPT ![p] = fd]
  /\ pc' = [pc EXCEPT ![p] = "write_lock"]
  /\ UNCHANGED <<ft, firstFreeSpot, flag, file, permissions, holder, oldFd,
                 inDup, forkChild, forkIdx, allocated>>

WriteLock(p) == Acquire(p, "write_lock", "write_io")

(* Mutant: the read-only EBADF branch of sys_write returns without       *)
(* lock_release.                                                          *)
WriteIOLeak(p) ==
  /\ pc[p] = "write_io"
  /\ IF permissions[Entry(p, fdArg[p])] = 1
     THEN UNCHANGED holder
     ELSE holder' = [holder EXCEPT ![Entry(p, fdArg[p])] = NoThread]
  /\ pc' = [pc EXCEPT ![p] = "user"]
  /\ UNCHANGED <<ft, firstFreeSpot, flag, file, permissions, Locals>>

WriteIO(p) == ReleaseAfterIO(p, "write_io")

(* sys_lseek: like sys_write, entry->file tested against NULL without the *)
(* lock (EBADF), then lock_acquire; under the lock VOP_ISSEEKABLE and     *)
(* VOP_STAT on the file, and the ESPIPE, EINVAL and success paths all     *)
(* release the lock.  An invalid whence returns EINVAL before any of this *)
(* and changes nothing.  The offset is data and is left out.              *)
Lseek(p, fd) ==
  /\ pc[p] = "user"
  /\ file[Entry(p, fd)] # NULL
  /\ fdArg' = [fdArg EXCEPT ![p] = fd]
  /\ pc' = [pc EXCEPT ![p] = "lseek_lock"]
  /\ UNCHANGED <<ft, firstFreeSpot, flag, file, permissions, holder, oldFd,
                 inDup, forkChild, forkIdx, allocated>>

LseekLock(p) == Acquire(p, "lseek_lock", "lseek_io")

LseekIO(p) == ReleaseAfterIO(p, "lseek_io")

-----------------------------------------------------------------------------
(* sys_dup2(oldfd, newfd), oldfd # newfd (equal fds return at once):      *)
(* under newfd's lock, an occupied newfd is released and closed with      *)
(* sys_close, after which newfd's lock is released a second time; an      *)
(* empty newfd's lock is released once.                                    *)
Dup2(p, old, new) ==
  /\ pc[p] = "user"
  /\ old # new
  /\ Free(Entry(p, new))
  /\ fdArg' = [fdArg EXCEPT ![p] = new]
  /\ oldFd' = [oldFd EXCEPT ![p] = old]
  /\ inDup' = [inDup EXCEPT ![p] = flag[Entry(p, new)] = 1]
  /\ pc' = [pc EXCEPT ![p] = IF flag[Entry(p, new)] = 1 THEN "close_check"
                                                         ELSE "dup_add"]
  /\ UNCHANGED <<ft, firstFreeSpot, flag, file, permissions, holder,
                 forkChild, forkIdx, allocated>>

(* The second lock_release(currEntry->fte_lock) after sys_close. *)
DupRelease2(p) ==
  /\ pc[p] = "dup_release2"
  /\ holder' = [holder EXCEPT ![Entry(p, fdArg[p])] = NoThread]
  /\ pc' = [pc EXCEPT ![p] = "dup_add"]
  /\ UNCHANGED <<ft, firstFreeSpot, flag, file, permissions, Locals>>

(* addDupEntry, first half under oldfd's lock: an empty oldfd is EBADF,   *)
(* a full table (firstFreeSpot = -1) is ENFILE.                            *)
DupAdd(p) ==
  /\ pc[p] = "dup_add"
  /\ Free(Entry(p, oldFd[p]))
  /\ pc' = [pc EXCEPT ![p] =
              IF flag[Entry(p, oldFd[p])] = 0 \/ firstFreeSpot[p] = -1
              THEN "user" ELSE "dup_copy"]
  /\ UNCHANGED <<ft, firstFreeSpot, flag, file, permissions, holder, Locals>>

(* addDupEntry, second half under newfd's lock: copy oldfd's fields (read *)
(* without oldfd's lock), mark newfd occupied, rescan.                     *)
DupCopy(p) ==
  /\ pc[p] = "dup_copy"
  /\ LET e == Entry(p, fdArg[p])
         o == Entry(p, oldFd[p])
         fl == [flag EXCEPT ![e] = 1]
     IN /\ Free(e)
        /\ flag' = fl
        /\ file' = [file EXCEPT ![e] = file[o]]
        /\ permissions' = [permissions EXCEPT ![e] = permissions[o]]
        /\ firstFreeSpot' = [firstFreeSpot EXCEPT ![p] = FindFirstFreeSpot(p, fl)]
  /\ pc' = [pc EXCEPT ![p] = "user"]
  /\ UNCHANGED <<ft, holder, Locals>>

-----------------------------------------------------------------------------
(* fork: the child's table comes from ft_init (its own empty entries);    *)
(* fork_ft then walks every slot i.                                        *)
Fork(p) ==
  /\ pc[p] = "user"
  /\ allocated < MaxProcs
  /\ allocated' = allocated + 1
  /\ forkChild' = [forkChild EXCEPT ![p] = allocated + 1]
  /\ forkIdx' = [forkIdx EXCEPT ![p] = 0]
  /\ pc' = [pc EXCEPT ![p] = "fork_ft"]
  /\ UNCHANGED <<ft, firstFreeSpot, flag, file, permissions, holder, fdArg,
                 oldFd, inDup>>

NextSlot(p) ==
  /\ forkIdx' = [forkIdx EXCEPT ![p] = @ + 1]
  /\ pc' = [pc EXCEPT ![p] = IF forkIdx[p] + 1 = OPEN_MAX THEN "fork_done"
                                                          ELSE "fork_ft"]

(* Slot i: lock the parent's entry and the child's; if the parent's slot  *)
(* is occupied the child's slot now points at the parent's entry; release *)
(* the parent's lock.  The child's lock is released next, through the     *)
(* child's slot, which for a copied slot is the parent's lock again.      *)
ForkFtSlot(p) ==
  /\ pc[p] = "fork_ft"
  /\ LET i == forkIdx[p]
         e == Entry(p, i)
         c == forkChild[p]
     IN /\ Free(e)
        /\ IF flag[e] = 1
           THEN /\ ft' = [ft EXCEPT ![c][i] = e]
                /\ pc' = [pc EXCEPT ![p] = "fork_release2"]
                /\ UNCHANGED forkIdx
           ELSE /\ NextSlot(p)
                /\ UNCHANGED ft
  /\ UNCHANGED <<firstFreeSpot, flag, file, permissions, holder, fdArg, oldFd,
                 inDup, forkChild, allocated>>

ForkFtRelease(p) ==
  /\ pc[p] = "fork_release2"
  /\ holder' = [holder EXCEPT ![Entry(forkChild[p], forkIdx[p])] = NoThread]
  /\ NextSlot(p)
  /\ UNCHANGED <<ft, firstFreeSpot, flag, file, permissions, fdArg, oldFd,
                 inDup, forkChild, allocated>>

(* After the loop fork_ft rescans the child's table; thread_fork starts   *)
(* the child.                                                              *)
ForkDone(p) ==
  /\ pc[p] = "fork_done"
  /\ LET c == forkChild[p]
     IN /\ firstFreeSpot' = [firstFreeSpot EXCEPT ![c] = FindFirstFreeSpot(c, flag)]
        /\ pc' = [pc EXCEPT ![p] = "user", ![c] = "user"]
  /\ UNCHANGED <<ft, flag, file, permissions, holder, Locals>>

-----------------------------------------------------------------------------
(* A step inside a system call that waits for an entry lock. *)
LockingStep(p) ==
  \/ CloseCheck(p) \/ CleanFd(p) \/ ReadLock(p) \/ WriteLock(p) \/ LseekLock(p)
  \/ DupAdd(p) \/ DupCopy(p) \/ ForkFtSlot(p)

(* A step inside a system call that never waits. *)
FreeStep(p) ==
  \/ ReadIO(p) \/ WriteIO(p) \/ LseekIO(p) \/ DupRelease2(p) \/ ForkFtRelease(p) \/ ForkDone(p)

Next ==
  \E p \in Procs :
     \/ \E how \in OpenFlags, v \in Vnodes : Open(p, how, v)
     \/ \E fd \in FdArgs : Close(p, fd) \/ Read(p, fd) \/ Write(p, fd) \/ Lseek(p, fd)
     \/ \E old, new \in FdArgs : Dup2(p, old, new)
     \/ Fork(p)
     \/ LockingStep(p) \/ FreeStep(p)

(* A thread inside a call keeps being scheduled (weak fairness); a thread *)
(* waiting for an entry lock gets it if the lock is free infinitely often *)
(* (strong fairness): lock_release wakes a waiter, and the wait channel   *)
(* serves its sleepers in order.  User-mode threads need not call again.  *)
Fairness ==
  \A p \in Procs : SF_vars(LockingStep(p)) /\ WF_vars(FreeStep(p))

Spec == Init /\ [][Next]_vars /\ Fairness

-----------------------------------------------------------------------------
TypeOK ==
  /\ ft \in [Procs -> [FDs -> Ent]]
  /\ firstFreeSpot \in [Procs -> {-1} \cup FDs]
  /\ flag \in [Ent -> {0, 1}]
  /\ file \in [Ent -> Vnodes \cup {NULL, CON}]
  /\ permissions \in [Ent -> 0..3]
  /\ holder \in [Ent -> Procs \cup {NoThread}]
  /\ pc \in [Procs -> PCs]
  /\ fdArg \in [Procs -> FDs] /\ oldFd \in [Procs -> FDs]
  /\ inDup \in [Procs -> BOOLEAN]
  /\ forkChild \in [Procs -> Procs] /\ forkIdx \in [Procs -> 0..OPEN_MAX]
  /\ allocated \in Procs

(* Process p shares the entry of one of its general slots (3 up, the ones *)
(* the cursor scans) with another live process: fork_ft aliased it.  The  *)
(* standard streams are shared after every fork, but the cursor never     *)
(* looks at them.                                                          *)
Shared(p) ==
  \E q \in Procs \ {p} : pc[q] # "unborn" /\
     \E i \in 3..(OPEN_MAX - 1), j \in FDs : ft[p][i] = ft[q][j]

(* The cursor addEntry trusts, in a process whose general slots nobody     *)
(* shares:                                                                 *)
(* firstFreeSpot is the lowest empty slot from 3 up, or -1 when slots      *)
(* 3..OPEN_MAX-1 are all taken.  open, close, dup2 and fork_ft each fill   *)
(* or empty a slot and must rescan; closing a low slot must make it the    *)
(* cursor again (spec 8: open 3..7, close 4, the next open gets 4).        *)
CursorExact ==
  \A p \in Procs :
     pc[p] # "unborn" /\ ~Shared(p) => firstFreeSpot[p] = FindFirstFreeSpot(p, flag)

(* Every descriptor call that has started returns: no thread waits       *)
(* forever for an entry lock, whatever the other processes sharing the   *)
(* entry do.  Every path out of a critical section, the error returns     *)
(* included, releases the lock it took.                                   *)
EverySyscallReturns ==
  \A p \in Procs : pc[p] \notin {"user", "unborn"} ~> pc[p] = "user"

-----------------------------------------------------------------------------
(* Properties the code is checked against and does not satisfy (see the   *)
(* violation runs).                                                       *)

(* The entry lock is mutually exclusive: no two threads are between       *)
(* lock_acquire and lock_release of one entry in sys_read, sys_write or  *)
(* sys_lseek.                                                             *)
IOStates == {"read_io", "write_io", "lseek_io"}
FteMutex ==
  \A p, q \in Procs :
     p # q /\ pc[p] \in IOStates /\ pc[q] \in IOStates
     => Entry(p, fdArg[p]) # Entry(q, fdArg[q])

(* VOP_READ / VOP_WRITE are called on an open file, never on NULL: the    *)
(* check done before the lock is taken still holds when the I/O starts.   *)
NoNullVop ==
  \A p \in Procs :
     LET e == Entry(p, fdArg[p])
     IN  pc[p] \in {"read_io", "lseek_io"} \/ (pc[p] = "write_io" /\ permissions[e] # 1)
         => file[e] # NULL

(* The slot addEntry will fill is empty (spec 4.1: an install on a stale  *)
(* cursor re-derives validity before writing).                            *)
CursorFree ==
  \A p \in Procs :
     pc[p] # "unborn" /\ firstFreeSpot[p] # -1
     => flag[Entry(p, firstFreeSpot[p])] = 0

==============================================================================
