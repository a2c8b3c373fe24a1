----------------------------- MODULE AtomicDisk -----------------------------
(***************************************************************************)
(* What the log promises the file system: blocks written by the system     *)
(* calls between two commits reach the disk together or not at all, and a  *)
(* commit never contains half a system call.  Log.tla implements this.     *)
(***************************************************************************)
EXTENDS FiniteSets

CONSTANTS Proc, Block, Val, Zero

VARIABLES view,     \* what a read of each block returns
          durable,  \* what survives a crash
          ops       \* processes inside a file-system call

avars == <<view, durable, ops>>

AInit ==
    /\ view = [b \in Block |-> Zero]
    /\ durable = view
    /\ ops = {}

ABegin(p) ==
    /\ p \notin ops
    /\ ops' = ops \cup {p}
    /\ UNCHANGED <<view, durable>>

AWrite(p) ==
    /\ p \in ops
    /\ \E b \in Block, v \in Val : view' = [view EXCEPT ![b] = v]
    /\ UNCHANGED <<durable, ops>>

AEnd(p) ==
    /\ p \in ops
    /\ ops' = ops \ {p}
    /\ UNCHANGED <<view, durable>>

ACommit ==
    /\ ops = {}
    /\ durable' = view
    /\ UNCHANGED <<view, ops>>

ACrash ==
    /\ view' = durable
    /\ ops' = {}
    /\ UNCHANGED durable

ANext ==
    \/ \E p \in Proc : ABegin(p) \/ AWrite(p) \/ AEnd(p)
    \/ ACommit
    \/ ACrash

ASpec == AInit /\ [][ANext]_avars
=============================================================================
