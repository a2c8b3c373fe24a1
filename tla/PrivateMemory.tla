--------------------------- MODULE PrivateMemory ---------------------------
(***************************************************************************)
(* What fork, exit, sbrk and a store promise a user program about memory:  *)
(* every live process has a memory of its own, a fork hands the child a    *)
(* copy of the parent's, and nobody else's store is ever seen.  There are  *)
(* no pages, reference counts or page tables here; CowMemory.tla is shown  *)
(* to implement this specification.                                        *)
(***************************************************************************)
EXTENDS Integers

CONSTANTS Proc,      \* the slots of the process table
          InitProc,  \* the first process
          MaxPg,     \* the most pages a process may have
          Val,       \* the contents a program stores in a page
          InitMem    \* the first program's memory

VARIABLES live,  \* the processes that may run
          mem    \* mem[p][va]: what p reads at page va, for va below its size

pvars == <<live, mem>>

Sizes == 0 .. MaxPg

Memories == UNION {[0 .. n - 1 -> Val] : n \in Sizes}

NoMemory == [va \in {} |-> 0]

PInit ==
    /\ live = {InitProc}
    /\ mem = [p \in Proc |-> IF p = InitProc THEN InitMem ELSE NoMemory]

\* p writes one of its own pages.
PStore(p) ==
    /\ p \in live
    /\ \E va \in DOMAIN mem[p], v \in Val : mem' = [mem EXCEPT ![p][va] = v]
    /\ UNCHANGED live

\* fork: the child starts with what the parent has at this moment.
PFork(p, q) ==
    /\ p \in live
    /\ q \notin live
    /\ live' = live \cup {q}
    /\ mem' = [mem EXCEPT ![q] = mem[p]]

\* sbrk: pages below both sizes keep their contents, new pages are zero.
PResize(p) ==
    /\ p \in live
    /\ \E n \in Sizes :
         mem' = [mem EXCEPT ![p] = [va \in 0 .. n - 1 |->
                    IF va \in DOMAIN mem[p] THEN mem[p][va] ELSE 0]]
    /\ UNCHANGED live

PExit(p) ==
    /\ p \in live
    /\ live' = live \ {p}
    /\ mem' = [mem EXCEPT ![p] = NoMemory]

PNext ==
    \E p \in Proc :
        \/ PStore(p)
        \/ \E q \in Proc : PFork(p, q)
        \/ PResize(p)
        \/ PExit(p)

PSpec == PInit /\ [][PNext]_pvars
=============================================================================
