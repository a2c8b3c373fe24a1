-------------------------------- MODULE Heap -------------------------------
(***************************************************************************)
(* malloc and free of user/umalloc.c: a circular list of free blocks in    *)
(* order of address, each with a header in its first unit.  Addresses and  *)
(* sizes are in units of a Header; the static base lies below the heap.    *)
(*                                                                         *)
(* An operator that no action uses and that stands just before one of the  *)
(* same parameters is a deliberate fault, used to test the properties.     *)
(***************************************************************************)
EXTENDS Integers, FiniteSets, FiniteSetsExt

CONSTANTS HeaderSize,  \* bytes of a Header
          Requests,    \* arguments of malloc
          MinCore,     \* 4096: the fewest units morecore asks for
          HeapTop,     \* bound: where sbrk fails
          Gaps         \* units the program itself gets from sbrk between

VARIABLES
    heap,   \* [ptr, size: the headers; freep; brk: the end of the heap]
    given,  \* blocks malloc has returned and free has not taken back
    core    \* history: units morecore got

heapVars == <<heap, given, core>>

base == 0
NoPtr == -1
Addr == 0 .. HeapTop - 1

HeapInit ==
    /\ heap = [ptr |-> [a \in Addr |-> base], size |-> [a \in Addr |-> 0],
               freep |-> NoPtr, brk |-> 1]
    /\ given = {} /\ core = {}

RECURSIVE Place(_, _, _)

\* The free block p after which bp belongs: free's loop, from p on.
Place(h, bp, p) ==
    IF \/ bp > p /\ bp < h.ptr[p]
       \/ p >= h.ptr[p] /\ (bp > p \/ bp < h.ptr[p])
    THEN p ELSE Place(h, bp, h.ptr[p])

JoinedKeepsPtr(h, p, bp) ==
    IF p + h.size[p] = bp THEN [h EXCEPT !.size[p] = @ + h.size[bp]]
                          ELSE [h EXCEPT !.ptr[p] = bp]

\* bp put after p, in one block with p if they touch.
Joined(h, p, bp) ==
    IF p + h.size[p] = bp
    THEN [h EXCEPT !.size[p] = @ + h.size[bp], !.ptr[p] = h.ptr[bp]]
    ELSE [h EXCEPT !.ptr[p] = bp]

\* free(bp + 1)
FreeBlock(h, bp) ==
    LET p == Place(h, bp, h.freep)
        q == h.ptr[p]
        g == IF bp + h.size[bp] = q
             THEN [h EXCEPT !.size[bp] = @ + h.size[q], !.ptr[bp] = h.ptr[q]]
             ELSE [h EXCEPT !.ptr[bp] = q]
    IN  [Joined(g, p, bp) EXCEPT !.freep = p]

Morecore(h, nu) ==
    LET n == Max({nu, MinCore})
    IN  FreeBlock([h EXCEPT !.size[h.brk] = n, !.brk = @ + n], h.brk)

\* p holds enough: all of it, or its last nunits units.
Take(h, prevp, p, nunits) ==
    LET a == p + h.size[p] - nunits
    IN  [block |-> a,
         heap |-> IF h.size[p] = nunits
                  THEN [h EXCEPT !.ptr[prevp] = h.ptr[p], !.freep = prevp]
                  ELSE [h EXCEPT !.size[p] = @ - nunits, !.size[a] = nunits,
                                 !.freep = prevp]]

RECURSIVE Search(_, _, _, _)

\* malloc's loop; block is base when there is no memory.
Search(h, prevp, p, nunits) ==
    IF h.size[p] >= nunits THEN Take(h, prevp, p, nunits)
    ELSE IF p # h.freep THEN Search(h, p, h.ptr[p], nunits)
    ELSE IF h.brk + Max({nunits, MinCore}) > HeapTop THEN [block |-> base, heap |-> h]
    ELSE LET g == Morecore(h, nunits) IN Search(g, g.freep, g.ptr[g.freep], nunits)

Nunits(nbytes) == ((nbytes + HeaderSize - 1) \div HeaderSize) + 1

RECURSIVE Listed(_, _, _)
Listed(h, a, S) == IF a \in S THEN S ELSE Listed(h, h.ptr[a], S \cup {a})

\* What is left in units that are no header (any more) is forgotten, and the
\* ptr of a block the program has: nothing may read it.
Kept(h, blocks) ==
    LET list == Listed(h, h.freep, {})
        sized == list \cup {b[1] : b \in blocks}
    IN  [h EXCEPT !.ptr = [a \in Addr |-> IF a \in list THEN @[a] ELSE base],
                  !.size = [a \in Addr |-> IF a \in sized THEN @[a] ELSE 0]]

Malloc(nbytes) ==
    LET h == IF heap.freep = NoPtr THEN [heap EXCEPT !.freep = base] ELSE heap
        r == Search(h, h.freep, h.ptr[h.freep], Nunits(nbytes))
    IN  /\ given' = IF r.block = base THEN given ELSE given \cup {<<r.block, Nunits(nbytes)>>}
        /\ heap' = Kept(r.heap, given')
        /\ core' = core \cup (IF r.heap.brk > h.brk THEN h.brk .. r.heap.brk - 1 ELSE {})

UserFree(b) ==
    /\ given' = given \ {b}
    /\ heap' = Kept(FreeBlock(heap, b[1]), given') /\ UNCHANGED core

\* The program calls sbrk for itself, so the next core does not follow the last.
Sbrk(n) ==
    /\ heap.brk + n < HeapTop
    /\ heap' = [heap EXCEPT !.brk = @ + n] /\ UNCHANGED <<given, core>>

HeapNext ==
    \/ \E n \in Requests : Malloc(n)
    \/ \E b \in given : UserFree(b)
    \/ \E n \in Gaps : Sbrk(n)

---------------------------------------------------------------------------

FreeBlocks == IF heap.freep = NoPtr THEN {}
              ELSE {<<a, heap.size[a]>> : a \in Listed(heap, heap.freep, {}) \ {base}}
Extent(b) == b[1] .. b[1] + b[2] - 1

\* Every unit of the heap is in one free block or in one block the program
\* has, whatever was allocated, split, freed and joined before; the program's
\* blocks are as long as it asked for, and two free blocks never touch.
HeapExact ==
    LET all == FreeBlocks \cup given
    IN  /\ \A b, c \in all : b # c => Extent(b) \cap Extent(c) = {}
        /\ UNION {Extent(b) : b \in all} = core
        /\ \A b \in given : heap.size[b[1]] = b[2]
        /\ \A b, c \in FreeBlocks : b[1] + b[2] # c[1]
=============================================================================
