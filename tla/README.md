# TLA+ models of the ed-operating-system kernel

This directory holds TLA+ models of the kernel under `src/src/kern`, checked
with TLC. Each module is translated from the C source. `PROJECT.json` maps
every definition to the lines it models, and it lists the runs, the mutants,
the findings and the hazards.

## 1. The system: components, state, operations

| Component | Source | State it keeps | Operations that change state |
|---|---|---|---|
| Process lifecycle and pid table | `proc/proc.c`, `syscall/psyscall.c`, `include/proc.h` | global `pidTable` (`procs[PID_MAX+1]`, `firstFreePid`, `plock`, `pcv`); per proc `pid`, `status` (AVAILABLE/EXITED/ZOMBIE/RUNNING), `exitCode`, `children` array, `p_addrspace`, `ft` | `proc_create`, `addPidEntry`, `findFirstFreePid`, `fork_proc`, `sys_fork`, `proc_exit`, `isChild`, `proc_waitpid`, `sys_waitpid`, `proc_destroy`, `sys_execv` |
| Descriptor tables | `syscall/filetable.c`, `syscall/fsyscall.c`, `include/filetable.h` | per proc `ft->ftp[OPEN_MAX]` (pointers to `struct fte`: `flag`, `file`, `offset`, `permissions`, `fte_lock`) and `firstFreeSpot` | `ft_init`, `stdio_init`, `addEntry`, `findFirstFreeSpot`, `clean_fd`, `addDupEntry`, `fork_ft`; system calls `open`, `close`, `read`, `write`, `lseek`, `dup2`, `chdir`, `__getcwd` |
| Locks and condition variables | `thread/synch.c` | lock `taken`, `lk_holder`, wait channel; cv wait channel | `lock_acquire`, `lock_release` (no holder check), `cv_wait`, `cv_signal`, `cv_broadcast` |
| Airballoon | `synchprobs/airballoon.c` | `mappings[NROPES]`, `severed[]`, `ropes_left`, `threads_left`, per-rope locks, `rope_check_lock`, `threads_lock`, `print_lock` | threads `dandelion`, `marigold`, `flowerkiller`, `balloon`, main `airballoon` |
| Page allocator | `arch/mips/vm/vm.c` | page table `pt->pages[]` with `taken`, `master_index`, `total_pages` | `vm_bootstrap`, `alloc_kpages`, `free_kpages` |
| Address spaces | `vm/addrspace.c` | `struct addrspace` (empty) | `as_create`, `as_copy`, `as_destroy`; the rest are stubs |

### How the components interact

- `sys_fork` builds a child with `proc_create`, which calls `ft_init`.
- `fork_proc` then does three things:
  - registers the child with `addPidEntry` under `plock`;
  - copies the address space with `as_copy`;
  - fills the child's table with `fork_ft`, also under `plock`.
- `fork_ft` makes the child's slots point at the parent's `fte` entries. From then on, the two processes share flags, files, offsets and entry locks.
- `_exit` does three things:
  - moves the exiting process's live children onto kproc's children;
  - marks itself ZOMBIE under `plock`;
  - broadcasts on `pcv`.
- `waitpid` checks `isChild`, sleeps on `pcv` until the target is ZOMBIE, then reaps it. Reaping marks it AVAILABLE, which frees its pid slot.
- Every descriptor call serialises on the entry's `fte_lock`. `lock_release` clears the lock whoever holds it, so a double release frees a lock that another process holds.

### The behaviours that make this code hard

- Threads of several processes interleave, and critical sections are split by unlocked checks:
  - `sys_write` tests `file` before locking;
  - `sys_read` calls `isValid`, releases, then relocks;
  - `proc_waitpid` releases between its wait and its reap;
  - `proc_exit` reparents without a lock.
- Entries are shared after fork, so one process's close, open or dup2 changes what another process's stale cursor or check relies on.
- Failures partway through a system call:
  - `as_copy` and `thread_fork` can fail inside fork;
  - `dup2` can fail after closing newfd;
  - `execv` can fail after switching address spaces.
- Pid reuse: slots are freed by the reap and handed out again by the next fork, while old `children` arrays still hold the old pids.
- Liveness: a waiter must be woken by its child's exit, and a lock taken on any path must be released.

### Properties each component needs

- **Pid table.**
  - The free-pid cursor is exact.
  - A process is reaped only as a ZOMBIE, only by its parent, and only once.
  - Every running process owns its slot.
  - A failed fork returns its pid.
  - The global lock outlives every process.
  - A waited-for zombie is eventually reaped.
- **Descriptor tables.**
  - The cursor is exact and points at an empty slot.
  - Tables are independent after fork.
  - Entry locks are mutually exclusive.
  - I/O never reaches a NULL file.
  - A failing dup2 leaves newfd alone.
  - Every call returns.
- **Locks.**
  - Mutual exclusion (an abstract mutex refined by lock/cv).
  - Release only by the holder.
- **Airballoon.**
  - Each rope is severed once.
  - `ropes_left` equals the number of unsevered ropes.
  - Every thread finishes, and main waits for all of them.
  - No deadlock between rope locks.
- **Page allocator.**
  - Live blocks are disjoint and their pages are taken.
  - Free returns the whole block.
  - Every allocation returns.

## 2. Plan

The modules are built in order of importance:

1. **Proc** (done): pid table, fork, `_exit`, waitpid, execv, and the address spaces fork, execv and `proc_destroy` create and free.
2. **FileTable** (done): descriptor tables, the calls open, close, read, write, lseek and dup2, and `fork_ft` with entry sharing.
3. **Airballoon** (done): the four kinds of thread and main over ropes, stakes and per-rope locks, including a second run of the command. It is shown to implement the abstract specification **BalloonEscape** (done).
4. **PageAlloc** (done): `vm_bootstrap`, `alloc_kpages` (split at its unlocked window) and `free_kpages`.
5. **Kernel** (planned): composes Proc and FileTable through fork. `ForkCopy`'s fork_ft step becomes FileTable's `Fork`, so pid reuse and shared entries can be checked in one behaviour.
6. **Synch** (planned): `lock_acquire`, `lock_release`, `cv_wait`, `cv_signal` and `cv_broadcast` at the wait-channel level, refining an abstract mutex (`INSTANCE ... WITH`, checked as a PROPERTY). The refinement holds only for callers that release what they hold.
7. **Exec** (done, inside Proc): `sys_execv`'s address-space switch and its rollback on each failure path. It is part of Proc because `as_copy` in fork and `proc_destroy` share its address spaces.


## 3. Modules and how they correspond to the code

### Proc (`Proc.tla`, instance `MCProc.tla`)

Each user process has one thread, identified with its proc structure (0 is kproc). Every `plock` critical section is one atomic step, and code between two sections is a separate step. `cv_wait` is atomic with respect to `cv_broadcast`, because `cv_wait` takes the cv spinlock before releasing `plock`.

Variables:

| Variable | C state |
|---|---|
| `procs` | `pidTable->procs` |
| `firstFreePid` | `pidTable->firstFreePid` |
| `plockAlive` | whether `plock` and `pcv` have been destroyed |
| `status`, `pid`, `exitCode` | the per-proc fields |
| `children` | the children array, as a set |
| `pc` | where each thread is |
| `forkChild`, `waitPid`, `canReap`, `exitArg` | syscall locals |
| `addrspace` | `p_addrspace`: an address in `AsIds`, or `NoAs` (NULL) |
| `asLive` | the `struct addrspace` allocations `as_create` made and `as_destroy` has not freed |

Actions:

| Action | Code |
|---|---|
| `Fork` | `proc_create` (`ProcCreate`) + `addPidEntry`, including the ENPROC path with a garbage pid |
| `ForkCopy` | the rest of `fork_proc`: `as_copy` gives the child a fresh address space (`AsCreate`), or fails with ENOMEM (`AsCreateFails`) |
| `ForkThread` | `thread_fork`. Its failure branch is `proc_destroy` (`ProcDestroyAs`: EXITED, `p_addrspace` cleared and `as_destroy`ed), and `plock` destroyed |
| `Exec` | `sys_execv` as one step: the early error returns change nothing; otherwise `proc_setas(new_as)` (`SetAs`), then success, or a failure of `load_elf` / `copyout_args` that sets `old_as` back. Neither path destroys the address space left behind |
| `Exit` | `proc_exit`'s reparent loop (`Reparented`: the RUNNING and ZOMBIE children) |
| `ExitReparentFails` | the same loop when `array_add` fails on a child: the children before it stay appended, and `proc_exit` returns to user mode |
| `ExitZombie` | the `plock` section: ZOMBIE, exit code, `cv_broadcast` |
| `Waitpid` | `sys_waitpid` + `isChild` |
| `WaitCheck` | one pass of the `while (status != ZOMBIE) cv_wait` loop |
| `WaitReap` | the second `plock` section: AVAILABLE, then `findFirstFreePid` |

Failures are constants (`AsCopyMayFail`, `ThreadForkMayFail`, `ArrayAddMayFail`), so each failure can be studied on its own; `ExecCalls` says whether programs call execv. `as_create` returns the lowest free address of `AsIds`, or NULL once all are live: which free address kmalloc returns is unspecified, and no property tells addresses apart. `execv` touches nothing another thread reads, so it is one step. `as_define_stack` always returns 0, so its failure branch is dead code and is not a step. `as_activate` and the other stubs change no state.

### FileTable (`FileTable.tla`, instance `MCFileTable.tla`)

An entry is `<<q, i>>`, the `fte` that `ft_init` made for slot `i` of process `q`. `ft[p][i]` is the entry that slot `i` of `p` points at; after `fork_ft` it may be the parent's. A lock is its holder.

Actions:

| Action | Code |
|---|---|
| `Open` | `sys_open`: `AccessPermissions` decodes `O_ACCMODE`, then `AddEntry` = `addEntry` |
| `Close` → `CloseCheck` → `CleanFd` | `sys_close`, with `clean_fd` and its rescan |
| `Read` → `ReadLock` → `ReadIO` | `sys_read` |
| `Write` → `WriteLock` → `WriteIO` | `sys_write`, with its unlocked NULL check |
| `Lseek` → `LseekLock` → `LseekIO` | `sys_lseek`, with the same unlocked NULL check; its ESPIPE, EINVAL and success paths all release the lock |
| `Dup2` → (`Close` path) → `DupRelease2` → `DupAdd` → `DupCopy` | `sys_dup2` and `addDupEntry` |
| `Fork` → `ForkFtSlot` / `ForkFtRelease` per slot → `ForkDone` | `fork_ft` |

`LockingStep` and `FreeStep` group the steps for fairness. Offsets are left out, because no control decision of these calls depends on them.

### Airballoon (`Airballoon.tla`, instance `MCAirballoon.tla`)

There is one `pc` per thread: Dandelion, Marigold, Balloon, the flowerkillers, and Main. `ropeLock[r]` is rope r's lock holder.

- The `rope_check_lock` and `threads_lock` sections each guard one read or update, so each is one step.
- A rope-lock section that neither waits inside nor lets another thread see its middle is one step. These are dandelion's and marigold's sever, with the nested `ropes_left--`.
- `print_lock` only orders output and is left out.
- The unlocked reads of `mappings` are steps of their own, so a swap can land between a read and the `lock_acquire` after it.
- `random() % NROPES` is a nondeterministic choice.
- Locals are cleared once they are dead, which merges states that differ only in them.

| Action | Code |
|---|---|
| `DandelionPick` → `DandelionCut` → `DandelionCheck` | one pass of dandelion's loop: pick, sever under the rope lock unless severed, then the `ropes_left` test |
| `MarigoldRead` → `MarigoldCut` → `MarigoldCheck` | marigold's loop: unlocked read of `mappings[index]`, then the sever with its re-check under the lock |
| `BalloonCheck` | balloon's poll of `ropes_left` |
| `FkRead1`, `FkRead2` | flowerkiller's two unlocked reads (equal stakes retry without a step) |
| `FkLock1`, `FkLock2` | the lower-numbered lock, then the higher one unless `lock_do_i_hold` says it is held |
| `FkSwap`, `FkSwap2` | the re-check and the two writes of the swap, with the second release |
| `FkRelease1` → `FkCheck` | the first release, then the `ropes_left` test |
| `ThreadDone` | `threads_left--` under `threads_lock` |
| `MainWaitRopes`, `MainWaitThreads`, `MainDestroy` | main's two polls, the `ropes_left` reset and `lock_destroy` |

**Refinement.** `BalloonEscape.tla` is what the command promises, with no threads or locks: each stake is tied to one rope; an uncut rope may be cut once; the ropes of two stakes may be exchanged while neither is cut; a worker may finish only after the last cut; and the command returns only after every worker has finished. `Airballoon` instantiates it with a refinement mapping (`Escape == INSTANCE BalloonEscape WITH ...`):
- `tied` is `Tied`, the mappings with a half-done swap completed;
- `cut` is the set of severed ropes;
- `running` is the set of workers not yet at `done`;
- `returned` is main having returned.

`EscapeRefined == Escape!Spec` is checked as a PROPERTY. A swap is the abstract exchange at its first write, and its second write is a stutter.

`PriorRuns` is 0 for the first run of the command. With `PriorRuns` 1, Init is the state the first run leaves behind: the set-up is redone and `ropes_left` is `NROPES`, but `threads_left` is still 0.

### PageAlloc (`PageAlloc.tla`, instance `MCPageAlloc.tla`)

Pages are named by index, and an address is a function of the index. `taken` and `master` are the page-table fields. Slots past `total_pages`, which `checkRange` reads without a bound, start with a value chosen in Init, since that memory was never initialised.

| Action | Code |
|---|---|
| `Init` | `vm_bootstrap` |
| `AllocStart` | entry to `alloc_kpages`: `i = FIRST_VALID` |
| `AllocCheck` | one pass of the while loop: `checkRange`, else `find_next_free` or return ENOMEM |
| `AllocMark` | `make_unavailable` and the return of the address |
| `free_kpages` | both loops of `free_kpages`, including the `break` after the first page |

`checkRange` and `find_next_free` are operators. No lock covers `alloc_kpages`, so a thread can be preempted between `AllocCheck` and `AllocMark`.

`AllocFailsOnlyWhenFull` is an action property about the scan as a whole. `alloc_kpages` is first fit. It looks only at `FIRST_VALID` and at the pages `find_next_free` returns. It may therefore return ENOMEM only when no start page in the table has `npages` pages that `checkRange` sees free. It is checked with one thread, because a second thread changes `taken` during the scan.

## 4. Runs

| Run | cfg | Expect | What it shows |
|---|---|---|---|
| proc_lifecycle | `MCProc.cfg` | pass | PID_MAX 5 (pids 2..4), 4 procs, 4 address spaces, `as_copy` and `proc_exit`'s `array_add` may fail, execv called. The pid cursor stays exact (`FreePidCursorExact`), a waited-for zombie is reaped (`ZombieReaped`), and every `p_addrspace` is live and no other proc's (`AddrspaceExclusive`). 359,291 states, about 2 minutes. |
| proc_steal | `MCProc_steal.cfg` | violation | `ReapOwnChildOnly`: waitpid reaps another parent's child through a stale, reused pid. |
| proc_doublereap | `MCProc_doublereap.cfg` | violation | `ReapOnlyZombies` with 5 procs: two waiters reap the same pid, and the second marks a RUNNING process AVAILABLE. |
| proc_forkfail | `MCProc_forkfail.cfg` | violation | `ForkOutcome`: a fork that returns leaves its child either running and registered or unborn with its pid freed and `plock` alive. A failed `as_copy` leaks the pid. |
| ft_calls | `MCFileTable.cfg` | pass | Two processes, OPEN_MAX 5 (general slots 3 and 4), access modes 0 (read-only) and 3 (EINVAL), fds 3 and 4. In a process whose general slots nobody shares the cursor is exact (`CursorExact`), and every call returns (`EverySyscallReturns`). 723,027 states, about 2.5 minutes. |
| ft_mutex | `MCFileTable_mutex.cfg` | violation | `FteMutex`: dup2's second `lock_release` lets two I/O calls run on one entry. |
| ft_nullvop | `MCFileTable_nullvop.cfg` | violation | `NoNullVop`: a VOP call on a file closed between the unlocked check and the lock. |
| ft_cursor | `MCFileTable_cursor.cfg` | violation | `CursorFree`: a cursor is left on a slot that another process refilled. |
| airballoon | `MCAirballoon.cfg` | pass | Two ropes, two flowerkillers. The checks are `RopesLeftCount`, `MainWaitsForAll`, `Termination` and the refinement `EscapeRefined`. 324,916 states, about 3 minutes. |
| airballoon_rerun | `MCAirballoon_rerun.cfg` | violation | `MainWaitsForAll`: on the second run main does not wait and destroys the locks while the threads run. |
| pagealloc | `MCPageAlloc.cfg` | pass | One thread, pages 2..5, blocks of 1 to 3 pages, up to 3 live blocks. The checks are `HeldExclusive`, `AllocReturns` and `AllocFailsOnlyWhenFull` (ENOMEM only when nothing fits). 7,177 states. |
| pagealloc_race | `MCPageAlloc_race.cfg` | violation | `HeldExclusive` with two threads: both pass `checkRange` on the same pages and both get the block. |

### Bounds

- **Proc.**
  - With PID_MAX 5, pids 2..4 can be handed out. kproc holds pid 1, the first user process holds 2, and pid 5 is never used (the off-by-one), so two forks fill the table.
  - 4 proc structures are enough for:
    - a full table and ENPROC;
    - a reap followed by pid reuse (steal);
    - an `as_copy` failure leak.
  - The double reap needs a fifth structure, which is why ReapOnlyZombies is a violation run at 5 and not a property of the pass run.
  - Four address spaces let the first process and three forks all get one, so every fork can succeed. After an execv or two, leaked address spaces fill the pool, and later forks take `as_copy`'s ENOMEM branch.
  - The steal and double-reap runs turn execv off (`ExecCalls` FALSE) and have five address spaces (`MC_AsIdsRoomy`). Their violations need every fork to succeed, and execv has no part in them.
- **FileTable.**
  - The violation runs have OPEN_MAX 4, which leaves one general slot (3). One open then fills the table, and the `-1` cursor and ENFILE paths happen.
  - The pass run has OPEN_MAX 5, so two files can be open at once. Closing fd 3 while fd 4 stays open must bring the cursor back to 3, and opening twice fills the table.
  - The pass run's other constants are cut to keep it under 5 minutes. Mode 0 gives read-only files, so a write on them takes the EBADF path that must still release the lock. Mode 3 takes EINVAL. The standard streams are not call arguments.
  - `CursorExact` ignores sharing of the standard streams: after a fork they are shared, but the cursor never scans them. A process is exempt only while a general slot of its table is aliased to another process's entry.
  - Two processes are enough for every sharing bug except the `fork_ft` double release, which needs a third process.
- **Airballoon.**
  - Two ropes and two flowerkillers are enough for:
    - a swap between another flowerkiller's two reads;
    - both reads returning one rope (the `lock_do_i_hold` path);
    - the recheck failing;
    - dandelion and marigold racing for one rope.
  - Three ropes do not finish within the time limit.
  - With two ropes a flowerkiller holds every lock it needs, so swaps are serialised. No property here is about concurrent swaps on disjoint locks: checking them needs three ropes.
- **PageAlloc.**
  - Four usable pages, blocks of 1 to 3 and three live blocks are enough for:
    - a scan that skips a taken page;
    - a free page between taken ones that only a one-page request fits (where a skipping `find_next_free` misses a fit);
    - a block at the end that reads past the table;
    - ENOMEM;
    - the one-page free of a two-page block.

### Fairness

- Inside a system call, a thread keeps being scheduled, so each in-call step is weakly fair.
- A thread waiting for a lock gets strong fairness: `lock_release` wakes a waiter.
- In Proc, each `plock` section is one step, so weak fairness suffices.
- Threads in user mode need not make another call, so `Fork`, `Exit`, `Open` and the other calls carry no fairness.
- In Airballoon each worker has one strong fairness condition, `SF(WorkerStep(t))`. A thread's only enabled steps are those at its pc, and only its lock steps can be disabled by another thread.
- Dandelion's pick of each rope is strongly fair, because `random()` eventually returns every value. Without this the model can starve a rope for ever, which the code's random choice does not.
- Proc's and Airballoon's runs disable deadlock checking (`CHECK_DEADLOCK FALSE`), because the system really stops:
  - in Proc, every process may exit, or block for ever in waitpid;
  - in Airballoon, the command returns and its threads exit.
- `Termination` and `AllocReturns` are what still catch a lock cycle or an endless loop.

### Mutants

Each property of a passing run is broken by a plausible bug in the code it is about (`PROJECT.json` "mutants"):

| Mutant | Property it breaks |
|---|---|
| a reap without the rescan | FreePidCursorExact |
| `cv_signal` in place of `cv_broadcast` | ZombieReaped |
| the access-mode switch as arithmetic | TypeOK (FileTable) |
| `clean_fd` without the rescan | CursorExact |
| `sys_write`'s EBADF path keeping the lock | EverySyscallReturns |
| dandelion's rope index off by one | TypeOK (Airballoon) |
| the sever without the `severed` test | RopesLeftCount |
| main skipping the `threads_left` wait | MainWaitsForAll |
| the second `lock_acquire` without `lock_do_i_hold` (self-deadlock) | Termination |
| `find_next_free` scanning to `total_pages` inclusive | TypeOK (PageAlloc) |
| `checkRange` missing the last page | HeldExclusive |
| `find_next_free` starting at `start` (endless loop) | AllocReturns |
| `find_next_free` starting at `start + 2` | AllocFailsOnlyWhenFull |
| `as_copy` giving the child the parent's address space | AddrspaceExclusive |
| the swap without its `severed` tests | EscapeRefined |

## 5. Not modelled, and why

- **File offsets**: arithmetic on `off_t` with no effect on the calls' control.
- **chdir and `__getcwd`**: pure vfs calls with no table state.
- **`cleanup`**: never called.
- **`proc_destroy`'s freeing**: the address space is modelled. Beyond that and the global-lock destruction, it is memory management (the name, the thread array, the proc itself).
- **Trapframes and `kfree(tf)`**: memory, outside TLC's reach.
- **execv's argument marshalling** (`getLen`, `getProgName`, `getCount`, `getargs`, `copyout_args`): this is string copying. Its only effect on control is that it may fail, which `Exec` keeps. The kmalloc'd name and argument buffers are not modelled; on success `arguments` is never freed.
- **`array_add` failures**: modelled only in `proc_exit`, the one caller that handles one. The array's growth and count are not modelled: children are a set, so the unlocked appends of two exits at once (proc.c line 478) cannot lose an update in the model.
- **A dup2 of an entry closed under it** (filetable.c line 158) is in ft_calls' states: newfd ends up occupied with a NULL file. No run checks "an occupied entry has a file", because the pass run violates it.
- **Address-space contents**: there are none. `struct addrspace` is empty, and every operation except create, copy and destroy is a stub.
- **Known gap in Proc**: execv never destroys `old_as` on success or `new_as` on failure, and a reaped zombie's address space is never freed. These leaks are in the model's states (`asLive` keeps them). No property states that every live address space belongs to a proc, and the code breaks that on every execv. For a failing execv, spec.md line 99 says a partial failure releases any partially-built address space.
- **A second waitpid on a reaped child**: the children array keeps the reaped proc, so isChild passes. The wait loop then sleeps on a slot that is AVAILABLE, not ZOMBIE, until some later process with that pid exits. spec.md line 107 says a second reap attempt fails. The path is in Proc's states, but no property isolates it: under the code's fairness, a parent may also wait for ever on a child that never exits.
- **`proc_create` returning NULL**: `sys_fork` passes it to `fork_proc`, which faults. A kernel fault is not a state of these models.
- **No type invariant for Proc**: its only candidate bound, a cursor in 2..PID_MAX-1, restates findFirstFreePid's loop bound, and that bound is the proc.c line 414 off-by-one itself (see the hazards).
- **Known gaps in PageAlloc**: the leaked pages of a freed multi-page block, and ENOMEM returned as an address, are in the model's states, but no property states them (see the hazards).
- **Known gap in FileTable**: dup2's close before a failing `addDupEntry` is in the model's states, but no property states it (see the hazards).
