------------------------------- MODULE PageAlloc -------------------------------
(***************************************************************************)
(* The kernel page allocator (arch/mips/vm/vm.c).  vm_bootstrap builds a   *)
(* single-level page table: page i has a taken flag and a master_index,    *)
(* the first page of the block it belongs to.  alloc_kpages scans from     *)
(* FIRST_VALID for npages free pages with checkRange, skipping ahead with  *)
(* find_next_free, and marks them with make_unavailable; free_kpages finds *)
(* the page whose address was given and frees the first page whose         *)
(* master_index is that page's index.                                      *)
(*                                                                         *)
(* Nothing in vm.c takes a lock (the stealmem spinlock is commented out),  *)
(* so a caller can be preempted between its checkRange and its             *)
(* make_unavailable: those are separate steps.  A page is named by its     *)
(* index; its virtual address is a function of the index, so the address  *)
(* alloc_kpages returns is the block's first index.  checkRange does not   *)
(* stop at total_pages: pt->pages[i] for i >= total_pages was never        *)
(* initialised, and the taken flag read through it is chosen in Init.      *)
(***************************************************************************)
EXTENDS Integers, FiniteSets

CONSTANTS
  total_pages,   \* pt->total_pages
  Callers,       \* kernel threads calling alloc_kpages / free_kpages
  Sizes,         \* npages arguments
  MaxHeld        \* bound: blocks a caller holds at once

FIRST_VALID == 2

ASSUME /\ total_pages \in Nat /\ total_pages > FIRST_VALID
       /\ Sizes \subseteq Nat \ {0} /\ Sizes # {}
       /\ MaxHeld \in Nat \ {0}

MaxSize == CHOOSE n \in Sizes : \A m \in Sizes : m <= n

Pages == FIRST_VALID..(total_pages - 1)        \* initialised, scanned pages
Beyond == total_pages..(total_pages + MaxSize - 2)  \* read past the end
Slots == Pages \cup Beyond

VARIABLES
  taken,     \* taken[i]: pt->pages[i]->taken
  master,    \* master[i]: pt->pages[i]->master_index
  pc,        \* pc[c]: "idle", or inside alloc_kpages at "check" / "mark"
  cur,       \* cur[c]: alloc_kpages' i
  req,       \* req[c]: alloc_kpages' npages
  held       \* held[c]: blocks <<start, npages>> returned to c, not freed

vars == <<taken, master, pc, cur, req, held>>

Block(b) == b[1]..(b[1] + b[2] - 1)

(* vm_bootstrap: every page free and its own master.  The slots past the *)
(* table hold whatever the memory there holds.                            *)
Init ==
  /\ taken \in {t \in [Slots -> BOOLEAN] : \A i \in Pages : ~t[i]}
  /\ master = [i \in Slots |-> i]
  /\ pc = [c \in Callers |-> "idle"]
  /\ cur = [c \in Callers |-> FIRST_VALID]
  /\ req = [c \in Callers |-> 1]
  /\ held = [c \in Callers |-> {}]

(* Mutant: the last page of the range not checked. *)
checkRangeShort(start, npages) ==
  \A i \in start..(start + npages - 2) : ~taken[i]

(* checkRange: no page of [start, start + npages) is taken. *)
checkRange(start, npages) == \A i \in start..(start + npages - 1) : ~taken[i]

(* Mutant: the scan starts at start rather than start + 1. *)
find_next_free_from_start(start) ==
  IF \E i \in start..(total_pages - 1) : ~taken[i]
  THEN CHOOSE i \in start..(total_pages - 1) :
         ~taken[i] /\ \A j \in start..(i - 1) : taken[j]
  ELSE -1

(* Mutant: the scan runs to i <= total_pages. *)
find_next_free_inclusive(start) ==
  IF \E i \in (start + 1)..total_pages : ~taken[i]
  THEN CHOOSE i \in (start + 1)..total_pages :
         ~taken[i] /\ \A j \in (start + 1)..(i - 1) : taken[j]
  ELSE -1

(* Mutant: the scan starts at start + 2, skipping the page after start. *)
find_next_free_skip(start) ==
  IF \E i \in (start + 2)..(total_pages - 1) : ~taken[i]
  THEN CHOOSE i \in (start + 2)..(total_pages - 1) :
         ~taken[i] /\ \A j \in (start + 2)..(i - 1) : taken[j]
  ELSE -1

(* find_next_free: the first free page after start, or -1. *)
find_next_free(start) ==
  IF \E i \in (start + 1)..(total_pages - 1) : ~taken[i]
  THEN CHOOSE i \in (start + 1)..(total_pages - 1) :
         ~taken[i] /\ \A j \in (start + 1)..(i - 1) : taken[j]
  ELSE -1

-----------------------------------------------------------------------------
(* alloc_kpages(npages) is called: i = FIRST_VALID. *)
AllocStart(c, n) ==
  /\ pc[c] = "idle"
  /\ Cardinality(held[c]) < MaxHeld
  /\ pc' = [pc EXCEPT ![c] = "check"]
  /\ cur' = [cur EXCEPT ![c] = FIRST_VALID]
  /\ req' = [req EXCEPT ![c] = n]
  /\ UNCHANGED <<taken, master, held>>

(* One pass of the while loop: checkRange at i; if the range is free go  *)
(* on to mark it, else i = find_next_free(i), returning ENOMEM at -1.     *)
(* ENOMEM is returned as if it were an address; the caller gets no block. *)
AllocCheck(c) ==
  /\ pc[c] = "check"
  /\ IF checkRange(cur[c], req[c])
     THEN /\ pc' = [pc EXCEPT ![c] = "mark"]
          /\ UNCHANGED cur
     ELSE LET next == find_next_free(cur[c])
          IN  /\ pc' = [pc EXCEPT ![c] = IF next = -1 THEN "idle" ELSE "check"]
              /\ cur' = [cur EXCEPT ![c] = IF next = -1 THEN cur[c] ELSE next]
  /\ UNCHANGED <<taken, master, req, held>>

(* make_unavailable(i, npages), and the address of page i is returned. *)
AllocMark(c) ==
  LET b == <<cur[c], req[c]>>
  IN  /\ pc[c] = "mark"
      /\ taken' = [i \in Slots |-> IF i \in Block(b) THEN TRUE ELSE taken[i]]
      /\ master' = [i \in Slots |-> IF i \in Block(b) THEN master[cur[c]]
                                                      ELSE master[i]]
      /\ held' = [held EXCEPT ![c] = @ \cup {b}]
      /\ pc' = [pc EXCEPT ![c] = "idle"]
      /\ UNCHANGED <<cur, req>>

(* free_kpages(addr) of a block c holds: master_index is the index whose *)
(* address is addr; the first page with that master_index is freed and    *)
(* made its own master, and the loop stops there.                         *)
free_kpages(c, b) ==
  LET master_index == b[1]
      hit == {i \in Pages : master[i] = master_index}
      first == CHOOSE i \in hit : \A j \in hit : i <= j
  IN  /\ pc[c] = "idle"
      /\ b \in held[c]
      /\ IF hit = {} THEN UNCHANGED <<taken, master>>
         ELSE /\ taken' = [taken EXCEPT ![first] = FALSE]
              /\ master' = [master EXCEPT ![first] = first]
      /\ held' = [held EXCEPT ![c] = @ \ {b}]
      /\ UNCHANGED <<pc, cur, req>>

Next ==
  \E c \in Callers :
    \/ \E n \in Sizes : AllocStart(c, n)
    \/ AllocCheck(c)
    \/ AllocMark(c)
    \/ \E b \in held[c] : free_kpages(c, b)

(* A thread inside alloc_kpages keeps being scheduled. *)
Spec == Init /\ [][Next]_vars /\ \A c \in Callers : WF_vars(AllocCheck(c) \/ AllocMark(c))

-----------------------------------------------------------------------------
TypeOK ==
  /\ taken \in [Slots -> BOOLEAN]
  /\ master \in [Slots -> Slots]
  /\ pc \in [Callers -> {"idle", "check", "mark"}]
  /\ cur \in [Callers -> Pages]
  /\ req \in [Callers -> Sizes]
  /\ held \in [Callers -> SUBSET (Pages \X Sizes)]

(* No page is in two blocks that callers hold at once, and every page of *)
(* a held block is marked taken: alloc_kpages hands out only pages        *)
(* checkRange saw free, and free_kpages of one block never frees a page   *)
(* of another.                                                            *)
HeldExclusive ==
  \A c, d \in Callers : \A b \in held[c], e \in held[d] :
    /\ \A i \in Block(b) : taken[i]
    /\ (c # d \/ b # e) => Block(b) \cap Block(e) = {}

(* alloc_kpages is first fit without misses: a call that returns ENOMEM *)
(* (the step from "check" back to "idle") is taken only when no page of   *)
(* the table starts npages pages that checkRange sees free.  The scan     *)
(* visits only FIRST_VALID and the pages find_next_free hands back, so a  *)
(* find_next_free that skipped a free page would make it miss a fit.      *)
(* Only meaningful with one caller: another caller's steps change taken   *)
(* while the scan runs.                                                   *)
AllocFailsOnlyWhenFull ==
  [][\A c \in Callers :
       (pc[c] = "check" /\ pc'[c] = "idle")
         => ~\E s \in Pages : checkRange(s, req[c])]_vars

(* Every call of alloc_kpages returns: the scan index only moves forward *)
(* and find_next_free ends the loop with -1.                              *)
AllocReturns == \A c \in Callers : pc[c] # "idle" ~> pc[c] = "idle"

=============================================================================
