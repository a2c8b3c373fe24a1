----------------------------- MODULE CowMemory -----------------------------
(***************************************************************************)
(* Physical pages, their use counts and the page tables that share them:   *)
(* kalloc.c and the part of vm.c, proc.c and trap.c that allocates, maps,  *)
(* shares (fork), copies (a store to a copy-on-write page, copyout) and    *)
(* frees user memory.                                                      *)
(*                                                                         *)
(* A process is in user space or inside one kernel operation, whose place  *)
(* is k[p].  The processes interleave wherever the code holds no spinlock: *)
(* kalloc and kfree take kmem.lock and nump_using_lock one after the       *)
(* other, so each is two steps, and a caller resumes when sub[p] says that *)
(* the call returned.                                                      *)
(*                                                                         *)
(* Data left out: the order of the free list, as far as NextFree leaves it *)
(* open; a page has one value instead of 4096 bytes; sizes are in          *)
(* pages; a page table is a root page (standing also for the tables of the *)
(* trampoline) and one leaf table for every LeafSpan pages of user memory. *)
(*                                                                         *)
(* An operator that no action uses and that stands just before one of the  *)
(* same parameters is a deliberate fault, used to test the properties.     *)
(***************************************************************************)
EXTENDS Integers, FiniteSets

CONSTANTS Proc,       \* the slots of the process table
          InitProc,   \* the first process, which never exits
          NPage,      \* number of physical pages kinit hands to the allocator
          MaxPg,      \* bound: the most user pages a process may have
          LeafSpan,   \* user pages one leaf page-table page maps (512)
          InitSz,     \* pages of the first program
          TextPg,     \* of which this many, from address 0, are read-only text
          Val,        \* the contents of a page that programs tell apart
          WriteText,  \* do programs pass read-only addresses to read()?
          NextFree(_) \* which of a set of free pages may head the free list

ASSUME ProcAssumption == IsFiniteSet(Proc) /\ InitProc \in Proc
ASSUME SizeAssumption ==
    /\ MaxPg \in Nat
    /\ LeafSpan \in Nat \ {0}
    /\ InitSz \in 1 .. MaxPg
    /\ NPage \in Nat /\ NPage >= 2 * InitSz + 2
    /\ TextPg \in 0 .. InitSz
    /\ WriteText \in BOOLEAN
    /\ 0 \in Val /\ Val \subseteq Nat

Page == 1 .. NPage

ASSUME NextFreeAssumption ==
    \A S \in SUBSET Page : NextFree(S) \subseteq S /\ (NextFree(S) = {} => S = {})

Nil == 0                        \* a null pointer
VA == 0 .. MaxPg - 1            \* user page numbers
Junk == 5                       \* what memset leaves in free pages
Perm == {"rw", "cow", "ro"}     \* PTE_W; PTE_COW; neither

\* The pages a process owns besides its user memory.
TF == 0
ROOT == 1
LeafSlot(va) == 2 + va \div LeafSpan
Slots == {TF, ROOT} \cup {LeafSlot(va) : va \in VA}

NoPte == [pa |-> Nil, perm |-> "ro"]
Pte == [pa : Page, perm : Perm]

\* Where a process is in the kernel; "user" when it is not.
AllocPcs == {"fk_tf", "fk_root", "fk_leaf", "gr_page", "gr_leaf", "rc_page"}
FreePcs == {"unmap", "fp_tf", "fp_leaf", "fp_root", "gr_undo", "rc_free"}
Pcs == AllocPcs \cup FreePcs \cup {"user", "fk_pte", "fk_count", "co_write"}

VARIABLES
    freelist,    \* the pages on kmem.freelist
    nump_using,  \* use counts
    content,     \* what each physical page holds
    pt,          \* pt[p][va]: leaf page-table entries of user memory
    kpg,         \* kpg[p][s]: trapframe, root table and leaf tables of p
    sz,          \* p->sz, in pages
    st,          \* p->state, as far as memory is concerned
    k,           \* the kernel operation each process is in
    sub,         \* its call of kalloc or kfree
    halted       \* the kernel has panicked

vars == <<freelist, nump_using, content, pt, kpg, sz, st, k, sub, halted>>

\* Local variables of an operation: the loop's first page, cursor and end,
\* the process worked on, where to continue, and a page pointer.
Loc == [pc : Pcs, lo : 0 .. MaxPg, va : 0 .. MaxPg, end : 0 .. MaxPg,
        tgt : Proc, ret : Pcs \cup {"sbrk"}, mem : Page \cup {Nil}]

InUser(p) == [pc |-> "user", lo |-> 0, va |-> 0, end |-> 0,
              tgt |-> p, ret |-> "user", mem |-> Nil]

\* In fork or freeproc, at page va of process q.
OnSlot(pc, q, va) == [pc |-> pc, lo |-> 0, va |-> va, end |-> 0,
                      tgt |-> q, ret |-> "user", mem |-> Nil]

\* In uvmunmap of q's pages va .. end - 1, called for those from lo on.
InUnmap(q, lo, va, end, ret) == [pc |-> "unmap", lo |-> lo, va |-> va, end |-> end,
                                 tgt |-> q, ret |-> ret, mem |-> Nil]

\* In uvmalloc from lo to end, at page va, with the page mem in hand.
InGrow(p, pc, lo, va, end, mem) == [pc |-> pc, lo |-> lo, va |-> va, end |-> end,
                                    tgt |-> p, ret |-> "user", mem |-> mem]

\* In copyout or removecopy of page va; removecopy then frees mem.
InCopy(p, pc, va, ret, mem) == [pc |-> pc, lo |-> 0, va |-> va, end |-> 0,
                                tgt |-> p, ret |-> ret, mem |-> mem]

NoCall == [at |-> "idle", pg |-> Nil]
Returned(pg) == [at |-> "ret", pg |-> pg]
-----------------------------------------------------------------------------
(***************************************************************************)
(* kinit has run and the first process has executed its program: TextPg    *)
(* read-only pages and writable ones after them.                           *)
(***************************************************************************)
InitSlots == {TF, ROOT} \cup {LeafSlot(va) : va \in 0 .. InitSz - 1}
InitUserPage(va) == InitSz + va + 3
InitUsed == {s + 1 : s \in InitSlots} \cup {InitUserPage(va) : va \in 0 .. InitSz - 1}

Init ==
    /\ freelist = Page \ InitUsed
    /\ nump_using = [pg \in Page |-> IF pg \in InitUsed THEN 1 ELSE 0]
    /\ content = [pg \in Page |-> IF pg \in InitUsed THEN 0 ELSE Junk]
    /\ pt = [p \in Proc |-> [va \in VA |->
                IF p = InitProc /\ va < InitSz
                THEN [pa |-> InitUserPage(va),
                      perm |-> IF va < TextPg THEN "ro" ELSE "rw"]
                ELSE NoPte]]
    /\ kpg = [p \in Proc |-> [s \in Slots |->
                IF p = InitProc /\ s \in InitSlots THEN s + 1 ELSE Nil]]
    /\ sz = [p \in Proc |-> IF p = InitProc THEN InitSz ELSE 0]
    /\ st = [p \in Proc |-> IF p = InitProc THEN "live" ELSE "unused"]
    /\ k = [p \in Proc |-> InUser(p)]
    /\ sub = [p \in Proc |-> NoCall]
    /\ halted = FALSE

Running(p) == st[p] = "live" /\ ~halted
Idle(p) == Running(p) /\ k[p] = InUser(p)
At(p, pc) == Running(p) /\ k[p].pc = pc /\ sub[p] = NoCall
Back(p, pc) == Running(p) /\ k[p].pc = pc /\ sub[p].at = "ret"
-----------------------------------------------------------------------------
\* kalloc: pop the head of the free list under kmem.lock.
Kalloc1(p) ==
    /\ \E pc \in AllocPcs : At(p, pc)
    /\ k[p].pc = "gr_page" => k[p].va < k[p].end
    /\ \/ /\ freelist = {}
          /\ sub' = [sub EXCEPT ![p] = Returned(Nil)]
          /\ UNCHANGED freelist
       \/ \E pg \in NextFree(freelist) :
            /\ sub' = [sub EXCEPT ![p] = [at |-> "count", pg |-> pg]]
            /\ freelist' = freelist \ {pg}
    /\ UNCHANGED <<nump_using, content, pt, kpg, sz, st, k, halted>>

\* kalloc: fill with junk and count the page under nump_using_lock.
Kalloc2(p) ==
    /\ Running(p)
    /\ sub[p].at = "count"
    /\ nump_using' = [nump_using EXCEPT ![sub[p].pg] = @ + 1]
    /\ content' = [content EXCEPT ![sub[p].pg] = Junk]
    /\ sub' = [sub EXCEPT ![p] = Returned(sub[p].pg)]
    /\ UNCHANGED <<freelist, pt, kpg, sz, st, k, halted>>

\* The page an operation passes to kfree.
FreeArg(p) ==
    CASE k[p].pc = "unmap"    -> pt[k[p].tgt][k[p].va].pa
      [] k[p].pc = "fp_tf"    -> kpg[k[p].tgt][TF]
      [] k[p].pc = "fp_leaf"  -> kpg[k[p].tgt][LeafSlot(k[p].va)]
      [] k[p].pc = "fp_root"  -> kpg[k[p].tgt][ROOT]
      [] OTHER                -> k[p].mem

\* kfree: is the page still used, given its count after the decrement?
StillUsedOffByOne(n) == n >= 0
StillUsed(n) == n >= 1

\* kfree: drop one use under nump_using_lock; other users keep the page.
Kfree1(p) ==
    /\ \E pc \in FreePcs : At(p, pc)
    /\ k[p].pc = "unmap" => k[p].va < k[p].end
    /\ k[p].pc = "fp_leaf" => /\ k[p].va < MaxPg
                             /\ kpg[k[p].tgt][LeafSlot(k[p].va)] # Nil
    /\ LET pg == FreeArg(p) IN
         /\ nump_using' = [nump_using EXCEPT ![pg] = @ - 1]
         /\ sub' = [sub EXCEPT ![p] = IF StillUsed(nump_using[pg] - 1)
                                      THEN Returned(pg)
                                      ELSE [at |-> "push", pg |-> pg]]
    /\ UNCHANGED <<freelist, content, pt, kpg, sz, st, k, halted>>

\* kfree: fill with junk and push on the free list under kmem.lock.
Kfree2(p) ==
    /\ Running(p)
    /\ sub[p].at = "push"
    /\ content' = [content EXCEPT ![sub[p].pg] = Junk]
    /\ freelist' = freelist \cup {sub[p].pg}
    /\ sub' = [sub EXCEPT ![p] = Returned(sub[p].pg)]
    /\ UNCHANGED <<nump_using, pt, kpg, sz, st, k, halted>>
-----------------------------------------------------------------------------
\* uvmunmap(do_free): the entry is cleared after kfree of its page.
UnmapClear(p) ==
    /\ Back(p, "unmap")
    /\ pt' = [pt EXCEPT ![k[p].tgt][k[p].va] = NoPte]
    /\ k' = [k EXCEPT ![p] = InUnmap(@.tgt, @.lo, @.va + 1, @.end, @.ret)]
    /\ sub' = [sub EXCEPT ![p] = NoCall]
    /\ UNCHANGED <<freelist, nump_using, content, kpg, sz, st, halted>>

\* The loop is over: go on with the caller, which may be a shrinking sbrk
\* (growproc stores the new size) or one that failed to grow.
UnmapDone(p) ==
    /\ At(p, "unmap")
    /\ k[p].va = k[p].end
    /\ \/ /\ k[p].ret \in FreePcs
          /\ k' = [k EXCEPT ![p] = OnSlot(@.ret, @.tgt, 0)]
          /\ UNCHANGED sz
       \/ /\ k[p].ret = "sbrk"
          /\ sz' = [sz EXCEPT ![p] = k[p].lo]
          /\ k' = [k EXCEPT ![p] = InUser(p)]
       \/ /\ k[p].ret = "user"
          /\ k' = [k EXCEPT ![p] = InUser(p)]
          /\ UNCHANGED sz
    /\ UNCHANGED <<freelist, nump_using, content, pt, kpg, st, sub, halted>>

\* freeproc: the trapframe goes first, then the page table if there is one.
FreeTrapframe(p) ==
    LET q == k[p].tgt IN
    /\ Back(p, "fp_tf")
    /\ kpg' = [kpg EXCEPT ![q][TF] = Nil]
    /\ sub' = [sub EXCEPT ![p] = NoCall]
    /\ \/ /\ kpg[q][ROOT] = Nil
          /\ st' = [st EXCEPT ![q] = "unused"]
          /\ k' = [k EXCEPT ![p] = InUser(p)]
       \/ /\ kpg[q][ROOT] # Nil
          /\ k' = [k EXCEPT ![p] = InUnmap(q, 0, 0, sz[q], "fp_leaf")]
          /\ UNCHANGED st
    /\ UNCHANGED <<freelist, nump_using, content, pt, sz, halted>>

\* uvmfree ends with freewalk, which frees the tables below the root, in
\* the order of the addresses they map, before the root.
FreeLeaf(p) ==
    /\ Back(p, "fp_leaf")
    /\ kpg' = [kpg EXCEPT ![k[p].tgt][LeafSlot(k[p].va)] = Nil]
    /\ sub' = [sub EXCEPT ![p] = NoCall]
    /\ k' = [k EXCEPT ![p] = OnSlot("fp_leaf", @.tgt, @.va + 1)]
    /\ UNCHANGED <<freelist, nump_using, content, pt, sz, st, halted>>

SkipLeaf(p) ==
    /\ At(p, "fp_leaf")
    /\ \/ /\ k[p].va < MaxPg
          /\ kpg[k[p].tgt][LeafSlot(k[p].va)] = Nil
          /\ k' = [k EXCEPT ![p] = OnSlot("fp_leaf", @.tgt, @.va + 1)]
       \/ /\ k[p].va = MaxPg
          /\ k' = [k EXCEPT ![p] = OnSlot("fp_root", @.tgt, 0)]
    /\ UNCHANGED <<freelist, nump_using, content, pt, kpg, sz, st, sub, halted>>

\* freeproc ends by making the slot UNUSED.
FreeRoot(p) ==
    LET q == k[p].tgt IN
    /\ Back(p, "fp_root")
    /\ kpg' = [kpg EXCEPT ![q][ROOT] = Nil]
    /\ sub' = [sub EXCEPT ![p] = NoCall]
    /\ sz' = [sz EXCEPT ![q] = 0]
    /\ st' = [st EXCEPT ![q] = "unused"]
    /\ k' = [k EXCEPT ![p] = InUser(p)]
    /\ UNCHANGED <<freelist, nump_using, content, pt, halted>>
-----------------------------------------------------------------------------
\* fork: allocproc takes an UNUSED slot and calls kalloc for a trapframe.
ForkStart(p) ==
    /\ Idle(p)
    /\ \E q \in Proc :
         /\ st[q] = "unused"
         /\ st' = [st EXCEPT ![q] = "used"]
         /\ k' = [k EXCEPT ![p] = OnSlot("fk_tf", q, 0)]
    /\ UNCHANGED <<freelist, nump_using, content, pt, kpg, sz, sub, halted>>

\* allocproc: no trapframe, no process.
ForkTrapframe(p) ==
    LET q == k[p].tgt IN
    /\ Back(p, "fk_tf")
    /\ sub' = [sub EXCEPT ![p] = NoCall]
    /\ \/ /\ sub[p].pg = Nil
          /\ st' = [st EXCEPT ![q] = "unused"]
          /\ k' = [k EXCEPT ![p] = InUser(p)]
          /\ UNCHANGED kpg
       \/ /\ sub[p].pg # Nil
          /\ kpg' = [kpg EXCEPT ![q][TF] = sub[p].pg]
          /\ k' = [k EXCEPT ![p] = OnSlot("fk_root", q, 0)]
          /\ UNCHANGED st
    /\ UNCHANGED <<freelist, nump_using, content, pt, sz, halted>>

\* allocproc: proc_pagetable; when it fails freeproc undoes allocproc.
ForkPagetable(p) ==
    LET q == k[p].tgt IN
    /\ Back(p, "fk_root")
    /\ sub' = [sub EXCEPT ![p] = NoCall]
    /\ \/ /\ sub[p].pg = Nil
          /\ k' = [k EXCEPT ![p] = OnSlot("fp_tf", q, 0)]
          /\ UNCHANGED kpg
       \/ /\ sub[p].pg # Nil
          /\ kpg' = [kpg EXCEPT ![q][ROOT] = sub[p].pg]
          /\ k' = [k EXCEPT ![p] = OnSlot("fk_pte", q, 0)]
    /\ UNCHANGED <<freelist, nump_using, content, pt, sz, st, halted>>

\* A writable page becomes copy-on-write in the parent before it is shared.
NotDemoted(e) == e
Shared(e) == [pa |-> e.pa, perm |-> IF e.perm = "rw" THEN "cow" ELSE e.perm]

\* uvmcopy, one page: demote the parent's entry, then map the page in the
\* child, unless mappages first needs a page for the child's page table.
ForkPte(p) ==
    LET q == k[p].tgt
        va == k[p].va
        e == Shared(pt[p][va])
    IN
    /\ At(p, "fk_pte")
    /\ va < sz[p]
    /\ \/ /\ kpg[q][LeafSlot(va)] = Nil
          /\ pt' = [pt EXCEPT ![p][va] = e]
          /\ k' = [k EXCEPT ![p] = OnSlot("fk_leaf", q, va)]
       \/ /\ kpg[q][LeafSlot(va)] # Nil
          /\ pt' = [pt EXCEPT ![p][va] = e, ![q][va] = e]
          /\ k' = [k EXCEPT ![p] = OnSlot("fk_count", q, va)]
    /\ UNCHANGED <<freelist, nump_using, content, kpg, sz, st, sub, halted>>

\* uvmcopy: walk got its page and mappages maps, or the copy is undone
\* (uvmunmap of the pages before this one, then freeproc).
ForkLeaf(p) ==
    LET q == k[p].tgt
        va == k[p].va
    IN
    /\ Back(p, "fk_leaf")
    /\ sub' = [sub EXCEPT ![p] = NoCall]
    /\ \/ /\ sub[p].pg = Nil
          /\ k' = [k EXCEPT ![p] = InUnmap(q, 0, 0, va, "fp_tf")]
          /\ UNCHANGED <<pt, kpg>>
       \/ /\ sub[p].pg # Nil
          /\ kpg' = [kpg EXCEPT ![q][LeafSlot(va)] = sub[p].pg]
          /\ pt' = [pt EXCEPT ![q][va] = pt[p][va]]
          /\ k' = [k EXCEPT ![p] = OnSlot("fk_count", q, va)]
    /\ UNCHANGED <<freelist, nump_using, content, sz, st, halted>>

\* uvmcopy: count the child's use, after it has been mapped.
ForkCount(p) ==
    LET pg == pt[p][k[p].va].pa IN
    /\ At(p, "fk_count")
    /\ nump_using' = [nump_using EXCEPT ![pg] = @ + 1]
    /\ k' = [k EXCEPT ![p] = OnSlot("fk_pte", @.tgt, @.va + 1)]
    /\ UNCHANGED <<freelist, content, pt, kpg, sz, st, sub, halted>>

\* fork: the child becomes RUNNABLE.
ForkDone(p) ==
    LET q == k[p].tgt IN
    /\ At(p, "fk_pte")
    /\ k[p].va = sz[p]
    /\ sz' = [sz EXCEPT ![q] = sz[p]]
    /\ st' = [st EXCEPT ![q] = "live"]
    /\ k' = [k EXCEPT ![p] = InUser(p)]
    /\ UNCHANGED <<freelist, nump_using, content, pt, kpg, sub, halted>>

\* exit, for memory: the process never runs again; init may not exit.
Die(p) ==
    /\ halted' = (p = InitProc)
    /\ st' = [st EXCEPT ![p] = IF p = InitProc THEN @ ELSE "zombie"]
    /\ UNCHANGED <<freelist, nump_using, content, pt, kpg, sz, k, sub>>

Exit(p) ==
    /\ Idle(p)
    /\ p # InitProc
    /\ Die(p)

\* wait, waitx: freeproc of a zombie, under wait_lock.  Which process reaps
\* is decided elsewhere; here any other one may.
Wait(p) ==
    /\ Idle(p)
    /\ \A r \in Proc : st[r] # "reaped"
    /\ \E q \in Proc :
         /\ st[q] = "zombie"
         /\ st' = [st EXCEPT ![q] = "reaped"]
         /\ k' = [k EXCEPT ![p] = OnSlot("fp_tf", q, 0)]
    /\ UNCHANGED <<freelist, nump_using, content, pt, kpg, sz, sub, halted>>
-----------------------------------------------------------------------------
\* growproc, n > 0.
SbrkGrow(p) ==
    /\ Idle(p)
    /\ \E n \in sz[p] + 1 .. MaxPg :
         k' = [k EXCEPT ![p] = InGrow(p, "gr_page", sz[p], sz[p], n, Nil)]
    /\ UNCHANGED <<freelist, nump_using, content, pt, kpg, sz, st, sub, halted>>

\* uvmalloc gives back what it mapped so far: uvmdealloc(a, oldsz).
UndoGrow(p) ==
    k' = [k EXCEPT ![p] = InUnmap(p, @.lo, @.lo, @.va, "user")]

\* uvmalloc, one page: zero it and map it, if the leaf table exists.
GrowPage(p) ==
    LET va == k[p].va
        pg == sub[p].pg
    IN
    /\ Back(p, "gr_page")
    /\ sub' = [sub EXCEPT ![p] = NoCall]
    /\ \/ /\ pg = Nil
          /\ UndoGrow(p)
          /\ UNCHANGED <<content, pt>>
       \/ /\ pg # Nil
          /\ content' = [content EXCEPT ![pg] = 0]
          /\ \/ /\ kpg[p][LeafSlot(va)] = Nil
                /\ k' = [k EXCEPT ![p] = InGrow(p, "gr_leaf", @.lo, va, @.end, pg)]
                /\ UNCHANGED pt
             \/ /\ kpg[p][LeafSlot(va)] # Nil
                /\ pt' = [pt EXCEPT ![p][va] = [pa |-> pg, perm |-> "rw"]]
                /\ k' = [k EXCEPT ![p] =
                            InGrow(p, "gr_page", @.lo, va + 1, @.end, Nil)]
    /\ UNCHANGED <<freelist, nump_using, kpg, sz, st, halted>>

\* uvmalloc: mappages allocated the leaf table and maps the page.
GrowLeaf(p) ==
    LET va == k[p].va IN
    /\ Back(p, "gr_leaf")
    /\ sub[p].pg # Nil
    /\ sub' = [sub EXCEPT ![p] = NoCall]
    /\ kpg' = [kpg EXCEPT ![p][LeafSlot(va)] = sub[p].pg]
    /\ pt' = [pt EXCEPT ![p][va] = [pa |-> k[p].mem, perm |-> "rw"]]
    /\ k' = [k EXCEPT ![p] = InGrow(p, "gr_page", @.lo, va + 1, @.end, Nil)]
    /\ UNCHANGED <<freelist, nump_using, content, sz, st, halted>>

\* uvmalloc: mappages failed; kfree(mem) comes first.
GrowLeafFails(p) ==
    /\ Back(p, "gr_leaf")
    /\ sub[p].pg = Nil
    /\ sub' = [sub EXCEPT ![p] = NoCall]
    /\ k' = [k EXCEPT ![p] = InGrow(p, "gr_undo", @.lo, @.va, @.end, @.mem)]
    /\ UNCHANGED <<freelist, nump_using, content, pt, kpg, sz, st, halted>>

\* uvmalloc: kfree(mem) returned; undo the rest.
GrowUndo(p) ==
    /\ Back(p, "gr_undo")
    /\ sub' = [sub EXCEPT ![p] = NoCall]
    /\ UndoGrow(p)
    /\ UNCHANGED <<freelist, nump_using, content, pt, kpg, sz, st, halted>>

GrowDone(p) ==
    /\ At(p, "gr_page")
    /\ k[p].va = k[p].end
    /\ sz' = [sz EXCEPT ![p] = k[p].end]
    /\ k' = [k EXCEPT ![p] = InUser(p)]
    /\ UNCHANGED <<freelist, nump_using, content, pt, kpg, st, sub, halted>>

\* growproc, n < 0: uvmdealloc unmaps from the new size up to the old one.
SbrkShrink(p) ==
    /\ Idle(p)
    /\ \E n \in 0 .. sz[p] - 1 :
         k' = [k EXCEPT ![p] = InUnmap(p, n, n, sz[p], "sbrk")]
    /\ UNCHANGED <<freelist, nump_using, content, pt, kpg, sz, st, sub, halted>>
-----------------------------------------------------------------------------
\* A user store the hardware lets through.
Store(p) ==
    /\ Idle(p)
    /\ \E va \in VA, v \in Val :
         /\ pt[p][va] # NoPte
         /\ pt[p][va].perm = "rw"
         /\ content' = [content EXCEPT ![pt[p][va].pa] = v]
    /\ UNCHANGED <<freelist, nump_using, pt, kpg, sz, st, k, sub, halted>>

\* A store page fault (scause 15): usertrap calls removecopy.  Its test
\* against the stack pointer never holds, both addresses being page-aligned.
StoreFault(p) ==
    /\ Idle(p)
    /\ \E va \in VA :
         \/ /\ pt[p][va] # NoPte
            /\ pt[p][va].perm = "cow"
            /\ k' = [k EXCEPT ![p] = InCopy(p, "rc_page", va, "user", Nil)]
            /\ UNCHANGED <<freelist, nump_using, content, pt, kpg, sz, st, sub,
                           halted>>
         \* not a copy-on-write page: p->killed = 1, exit(-1)
         \/ /\ pt[p][va] = NoPte => kpg[p][LeafSlot(va)] # Nil
            /\ pt[p][va].perm = "ro"
            /\ Die(p)
         \* walk returned 0 and removecopy reads through it
         \/ /\ kpg[p][LeafSlot(va)] = Nil
            /\ halted' = TRUE
            /\ UNCHANGED <<freelist, nump_using, content, pt, kpg, sz, st, k,
                           sub>>

\* removecopy: copy the page and make the copy writable.
RemoveCopyKeeps(p) ==
    LET va == k[p].va
        new == sub[p].pg
    IN
    /\ Back(p, "rc_page")
    /\ new # Nil
    /\ sub' = [sub EXCEPT ![p] = NoCall]
    /\ content' = [content EXCEPT ![new] = content[pt[p][va].pa]]
    /\ pt' = [pt EXCEPT ![p][va] = [pa |-> new, perm |-> "rw"]]
    /\ k' = [k EXCEPT ![p] = InUser(p)]
    /\ UNCHANGED <<freelist, nump_using, kpg, sz, st, halted>>

RemoveCopy(p) ==
    LET va == k[p].va
        old == pt[p][va].pa
        new == sub[p].pg
    IN
    /\ Back(p, "rc_page")
    /\ new # Nil
    /\ sub' = [sub EXCEPT ![p] = NoCall]
    /\ content' = [content EXCEPT ![new] = content[old]]
    /\ pt' = [pt EXCEPT ![p][va] = [pa |-> new, perm |-> "rw"]]
    /\ k' = [k EXCEPT ![p] = InCopy(p, "rc_free", va, @.ret, old)]
    /\ UNCHANGED <<freelist, nump_using, kpg, sz, st, halted>>

\* removecopy: no page for the copy, panic.
RemoveCopyPanics(p) ==
    /\ Back(p, "rc_page")
    /\ sub[p].pg = Nil
    /\ halted' = TRUE
    /\ UNCHANGED <<freelist, nump_using, content, pt, kpg, sz, st, k, sub>>

\* removecopy: kfree(pa) returned; back to the program or to copyout.
RemoveCopyDone(p) ==
    /\ Back(p, "rc_free")
    /\ sub' = [sub EXCEPT ![p] = NoCall]
    /\ k' = [k EXCEPT ![p] = IF k[p].ret = "user" THEN InUser(p)
                             ELSE InCopy(p, "co_write", k[p].va, "user", Nil)]
    /\ UNCHANGED <<freelist, nump_using, content, pt, kpg, sz, st, halted>>

\* copyout, usertrap: must the page be copied before it is written?
NeverCopied(e) == FALSE
NeedsCopy(e) == e.perm = "cow"

\* copyout, one page: a copy-on-write page is copied first; an unmapped one
\* makes copyout return -1.
Copyout(p) ==
    /\ Idle(p)
    /\ \E va \in VA :
         /\ pt[p][va] # NoPte
         /\ pt[p][va].perm = "ro" => WriteText
         /\ k' = [k EXCEPT ![p] =
                    IF NeedsCopy(pt[p][va])
                    THEN InCopy(p, "rc_page", va, "co_write", Nil)
                    ELSE InCopy(p, "co_write", va, "user", Nil)]
    /\ UNCHANGED <<freelist, nump_using, content, pt, kpg, sz, st, sub, halted>>

\* copyout: write through the physical address, whatever the entry permits.
CopyoutWrite(p) ==
    /\ At(p, "co_write")
    /\ \E v \in Val : content' = [content EXCEPT ![pt[p][k[p].va].pa] = v]
    /\ k' = [k EXCEPT ![p] = InUser(p)]
    /\ UNCHANGED <<freelist, nump_using, pt, kpg, sz, st, sub, halted>>
-----------------------------------------------------------------------------
Next ==
    \E p \in Proc :
        \/ Kalloc1(p) \/ Kalloc2(p) \/ Kfree1(p) \/ Kfree2(p)
        \/ UnmapClear(p) \/ UnmapDone(p) \/ FreeTrapframe(p)
        \/ FreeLeaf(p) \/ SkipLeaf(p) \/ FreeRoot(p)
        \/ ForkStart(p) \/ ForkTrapframe(p) \/ ForkPagetable(p) \/ ForkPte(p)
        \/ ForkLeaf(p) \/ ForkCount(p) \/ ForkDone(p)
        \/ Exit(p) \/ Wait(p)
        \/ SbrkGrow(p) \/ GrowPage(p) \/ GrowLeaf(p) \/ GrowLeafFails(p)
        \/ GrowUndo(p) \/ GrowDone(p) \/ SbrkShrink(p)
        \/ Store(p) \/ StoreFault(p) \/ RemoveCopy(p) \/ RemoveCopyPanics(p)
        \/ RemoveCopyDone(p) \/ Copyout(p) \/ CopyoutWrite(p)

Spec == Init /\ [][Next]_vars
-----------------------------------------------------------------------------
\* Every variable keeps its type: counts never go negative (kfree and kalloc
\* print a complaint when they do), and locals stay in range.
TypeOK ==
    /\ freelist \in SUBSET Page
    /\ nump_using \in [Page -> Nat]
    /\ content \in [Page -> Val \cup {Junk}]
    /\ pt \in [Proc -> [VA -> Pte \cup {NoPte}]]
    /\ kpg \in [Proc -> [Slots -> Page \cup {Nil}]]
    /\ sz \in [Proc -> 0 .. MaxPg]
    /\ st \in [Proc -> {"unused", "used", "live", "zombie", "reaped"}]
    /\ k \in [Proc -> Loc]
    /\ sub \in [Proc -> [at : {"idle", "count", "push", "ret"},
                         pg : Page \cup {Nil}]]
    /\ halted \in BOOLEAN

(***************************************************************************)
(* The places that hold a page and are counted for it: page-table entries, *)
(* the pages a process owns, a local pointer, and a page kalloc has just   *)
(* returned.  A place still holding a page is not counted for it when      *)
(* kfree has already dropped the use or uvmcopy has not counted it yet.    *)
(***************************************************************************)
Ref == (Proc \X {"pte"} \X VA) \cup (Proc \X {"kpg"} \X Slots)
         \cup (Proc \X {"mem", "got"} \X {0})

Dropped(p) == sub[p].at \in {"push", "ret"}

PteHolds(q, va) ==
    IF \E p \in Proc : /\ k[p].tgt = q /\ k[p].va = va
                       /\ k[p].pc = "fk_count" \/ (k[p].pc = "unmap" /\ Dropped(p))
    THEN Nil ELSE pt[q][va].pa

KpgHolds(q, s) ==
    IF \E p \in Proc : /\ k[p].tgt = q /\ Dropped(p)
                       /\ \/ k[p].pc = "fp_tf" /\ s = TF
                          \/ k[p].pc = "fp_leaf" /\ s = LeafSlot(k[p].va)
                          \/ k[p].pc = "fp_root" /\ s = ROOT
    THEN Nil ELSE kpg[q][s]

MemHolds(p) == IF k[p].pc \in FreePcs /\ Dropped(p) THEN Nil ELSE k[p].mem
GotHolds(p) == IF k[p].pc \in AllocPcs /\ sub[p].at = "ret" THEN sub[p].pg ELSE Nil

Counted(r) ==
    CASE r[2] = "pte" -> PteHolds(r[1], r[3])
      [] r[2] = "kpg" -> KpgHolds(r[1], r[3])
      [] r[2] = "mem" -> MemHolds(r[1])
      [] OTHER        -> GotHolds(r[1])

Holders(pg) == {r \in Ref : Counted(r) = pg}

\* Pages that kalloc has taken or kfree is about to push.
InTransit(p, pg) == sub[p].at \in {"count", "push"} /\ sub[p].pg = pg

\* nump_using is exact at every step of every interleaving: the number of
\* places that hold the page, but for the one kfree or uvmcopy is at.
CountsExact == \A pg \in Page : nump_using[pg] = Cardinality(Holders(pg))

\* No page is lost or free twice: a page nobody uses is on the free list
\* once, or is in the hands of exactly one call of kalloc or kfree.
UnusedAccounted ==
    \A pg \in Page :
        LET onList == freelist \cap {pg}
            taken == {p \in Proc : InTransit(p, pg)}
        IN  Cardinality(onList) + Cardinality(taken)
              = IF nump_using[pg] = 0 THEN 1 ELSE 0

\* A page a process may write is in no other page table and is no process's
\* trapframe or page-table page, so a store reaches nobody else.
WritableIsPrivate ==
    \A p \in Proc, va \in VA :
        PteHolds(p, va) # Nil /\ pt[p][va].perm = "rw"
            => Holders(PteHolds(p, va)) = {<<p, "pte", va>>}

\* No use after free: whatever a process in user space can reach through
\* its page table, the tables themselves and its trapframe are in use.
MappedIsInUse ==
    \A p \in Proc :
        st[p] = "live" /\ k[p].pc = "user" =>
            /\ \A va \in VA : /\ va < sz[p] <=> pt[p][va] # NoPte
                             /\ va < sz[p] => /\ nump_using[pt[p][va].pa] >= 1
                                               /\ pt[p][va].pa \notin freelist
            /\ \A s \in {TF, ROOT} \cup {LeafSlot(va) : va \in 0 .. sz[p] - 1} :
                   kpg[p][s] # Nil /\ nump_using[kpg[p][s]] = 1

\* What uvmcopy, removecopy, uvmunmap and kfree owe a process: the pages it
\* may write are its own, and the pages it can reach are not free.
PagesSafe == WritableIsPrivate /\ MappedIsInUse

(***************************************************************************)
(* The memory a program sees.  A shrinking sbrk takes effect when it       *)
(* starts, a growing one when it stores the new size.                      *)
(***************************************************************************)
VisibleSz(p) == IF k[p].ret = "sbrk" THEN k[p].lo ELSE sz[p]

Private == INSTANCE PrivateMemory WITH
    live <- {p \in Proc : st[p] = "live"},
    mem <- [p \in Proc |-> IF st[p] = "live"
                           THEN [va \in 0 .. VisibleSz(p) - 1 |->
                                    content[pt[p][va].pa]]
                           ELSE [va \in {} |-> 0]],
    InitMem <- [va \in 0 .. InitSz - 1 |-> 0]

\* Copy-on-write is invisible: every run of fork, exit, wait, sbrk, stores
\* and copyout is one in which each process has a memory of its own.
ForkCopiesMemory == Private!PSpec
=============================================================================
