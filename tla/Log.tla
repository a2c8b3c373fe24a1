-------------------------------- MODULE Log --------------------------------
(***************************************************************************)
(* The redo log of log.c on top of the buffer cache of bio.c, with a crash *)
(* possible between any two disk writes and recovery at the next boot.     *)
(*                                                                         *)
(* bread/modify/log_write/brelse is one step: the buffer's sleep-lock is   *)
(* held throughout, and commit, the only other reader of the buffer, never *)
(* runs while an operation is outstanding.  A block holds one value.       *)
(*                                                                         *)
(* An operator that no action uses and that stands just before one of the  *)
(* same parameters is a deliberate fault, used to test the properties.     *)
(***************************************************************************)
EXTENDS Integers, Sequences, FiniteSets

CONSTANTS Proc,         \* processes that make file-system calls
          Block,        \* blocks outside the log
          Val,          \* contents of a block
          Zero,         \* the contents mkfs leaves
          NoBuf,        \* no buffer of the cache holds the block
          MAXOPBLOCKS,  \* the most blocks one call writes
          LOGSIZE,      \* block numbers a log header has room for
          LogBlocks     \* sb.nlog: the log's blocks, its header included

ASSUME LogAssumption ==
    /\ IsFiniteSet(Proc)
    /\ Zero \in Val
    /\ NoBuf \notin Val
    /\ MAXOPBLOCKS \in Nat \ {0}
    /\ LOGSIZE \in Nat /\ MAXOPBLOCKS <= LOGSIZE
    /\ LogBlocks \in Nat \ {0}

VARIABLES
    home,         \* on disk: every block at its home location
    logd,         \* on disk: the log's data blocks
    head,         \* on disk: the header, the block numbers logged
    cache,        \* the buffer of a block, or NoBuf
    pins,         \* bpin count of a block's buffer
    lh,           \* log.lh
    outstanding,  \* log.outstanding
    committing,   \* log.committing
    pc,           \* where each process is in its call
    wrote,        \* blocks the current call of a process has written
    com,          \* where commit or recovery is: its phase and loop index
    halted        \* the kernel has panicked

disk == <<home, logd, head>>
vars == <<home, logd, head, cache, pins, lh, outstanding, committing, pc,
          wrote, com, halted>>

Slot == 1 .. LogBlocks - 1

\* Phases of commit (write_log, the two write_heads, install_trans) and of
\* recover_from_log; "none" while file-system calls may run.
Phase == {"none", "log", "commit", "install", "erase", "done",
          "read", "replay", "clear"}
NotCommitting == [ph |-> "none", i |-> 1]
Recovering == com.ph \in {"read", "replay", "clear"}

Init ==
    /\ home = [b \in Block |-> Zero]
    /\ logd = [s \in Slot |-> Zero]
    /\ head = <<>>
    /\ cache = [b \in Block |-> NoBuf]
    /\ pins = [b \in Block |-> 0]
    /\ lh = <<>>
    /\ outstanding = 0
    /\ committing = FALSE
    /\ pc = [p \in Proc |-> "idle"]
    /\ wrote = [p \in Proc |-> {}]
    /\ com = NotCommitting
    /\ halted = FALSE

Up == ~halted /\ ~Recovering

\* bread: the buffer of a block, filled from disk when it is not cached.
Bread(b) == IF cache[b] = NoBuf THEN home[b] ELSE cache[b]

\* wakeup(&log), as a change of pc.
NoWakeup(f) == f
Wakeup(f) == [p \in Proc |-> IF f[p] = "asleep" THEN "begin" ELSE f[p]]
-----------------------------------------------------------------------------
\* A file-system call is made.
Call(p) ==
    /\ Up /\ pc[p] = "idle"
    /\ pc' = [pc EXCEPT ![p] = "begin"]
    /\ UNCHANGED <<disk, cache, pins, lh, outstanding, committing, wrote, com,
                   halted>>

\* The space every call in progress, and one more, may still need.
NoRoom == Len(lh) + (outstanding + 1) * MAXOPBLOCKS > LOGSIZE

\* begin_op sleeps.
OnlyRoomMatters == NoRoom
MustWait == committing \/ NoRoom

\* begin_op, from acquire to sleep or release.
BeginOp(p) ==
    /\ Up /\ pc[p] = "begin"
    /\ \/ /\ MustWait
          /\ pc' = [pc EXCEPT ![p] = "asleep"]
          /\ UNCHANGED <<outstanding, wrote>>
       \/ /\ ~MustWait
          /\ pc' = [pc EXCEPT ![p] = "op"]
          /\ outstanding' = outstanding + 1
          /\ wrote' = [wrote EXCEPT ![p] = {}]
    /\ UNCHANGED <<disk, cache, pins, lh, committing, com, halted>>

\* bread, brelse: a block that is only read enters the cache.  fileread does
\* so outside begin_op/end_op, also during a commit.
Read(b) ==
    /\ Up /\ cache[b] = NoBuf
    /\ cache' = [cache EXCEPT ![b] = Bread(b)]
    /\ UNCHANGED <<disk, pins, lh, outstanding, committing, pc, wrote, com,
                   halted>>

\* log_write: log absorption.
Logged(b) == \E i \in DOMAIN lh : lh[i] = b

\* The panic "too big a transaction".
TooBig == Len(lh) >= LOGSIZE \/ Len(lh) >= LogBlocks - 1

\* A block of the current transaction is absorbed, a new one is pinned and
\* takes the next slot.
Record(p, b, v) ==
    /\ cache' = [cache EXCEPT ![b] = v]
    /\ wrote' = [wrote EXCEPT ![p] = @ \cup {b}]
    /\ lh' = IF Logged(b) THEN lh ELSE Append(lh, b)
    /\ pins' = IF Logged(b) THEN pins ELSE [pins EXCEPT ![b] = @ + 1]
    /\ UNCHANGED halted

\* bread, modify, log_write, brelse.
LogWrite(p) ==
    /\ Up /\ pc[p] = "op"
    /\ \E b \in Block, v \in Val :
         /\ Cardinality(wrote[p] \cup {b}) <= MAXOPBLOCKS
         /\ \/ /\ TooBig
               /\ halted' = TRUE
               /\ UNCHANGED <<cache, pins, lh, wrote>>
            \/ ~TooBig /\ Record(p, b, v)
    /\ UNCHANGED <<disk, outstanding, committing, pc, com>>

\* end_op up to the release of log.lock; the last call out commits, if
\* there is anything to commit.  (Its panic is the property PanicsUnreachable.)
EndOp(p) ==
    /\ Up /\ pc[p] = "op"
    /\ outstanding' = outstanding - 1
    /\ \/ /\ outstanding # 1
          /\ pc' = Wakeup([pc EXCEPT ![p] = "idle"])
          /\ UNCHANGED <<committing, com>>
       \/ /\ outstanding = 1
          /\ committing' = TRUE
          /\ pc' = [pc EXCEPT ![p] = "commit"]
          /\ com' = [ph |-> IF lh = <<>> THEN "done" ELSE "log", i |-> 1]
    /\ UNCHANGED <<disk, cache, pins, lh, wrote, halted>>

\* bget recycles a buffer nobody refers to.
EvictPinned(b) ==
    /\ Up /\ cache[b] # NoBuf
    /\ cache' = [cache EXCEPT ![b] = NoBuf]
    /\ UNCHANGED <<disk, pins, lh, outstanding, committing, pc, wrote, com,
                   halted>>

Evict(b) ==
    /\ Up /\ pins[b] = 0 /\ cache[b] # NoBuf
    /\ cache' = [cache EXCEPT ![b] = NoBuf]
    /\ UNCHANGED <<disk, pins, lh, outstanding, committing, pc, wrote, com,
                   halted>>
-----------------------------------------------------------------------------
\* The next index of a loop over lh, and the phase after its last one.
Step(ph, after) ==
    com' = IF com.i < Len(lh) THEN [ph |-> ph, i |-> com.i + 1]
                              ELSE [ph |-> after, i |-> 1]

\* write_log, one block: from the cache to the log.
WriteLog ==
    /\ ~halted /\ com.ph = "log"
    /\ logd' = [logd EXCEPT ![com.i] = Bread(lh[com.i])]
    /\ cache' = [cache EXCEPT ![lh[com.i]] = Bread(lh[com.i])]
    /\ Step("log", "commit")
    /\ UNCHANGED <<home, head, pins, lh, outstanding, committing, pc, wrote,
                   halted>>

\* write_head: the commit point.
WriteHead ==
    /\ ~halted /\ com.ph = "commit"
    /\ head' = lh
    /\ com' = [ph |-> "install", i |-> 1]
    /\ UNCHANGED <<home, logd, cache, pins, lh, outstanding, committing, pc,
                   wrote, halted>>

\* install_trans(0), one block: from the log to its home, then unpin.
InstallTrans ==
    /\ ~halted /\ com.ph = "install"
    /\ LET b == lh[com.i] IN
         /\ home' = [home EXCEPT ![b] = logd[com.i]]
         /\ cache' = [cache EXCEPT ![b] = logd[com.i]]
         /\ pins' = [pins EXCEPT ![b] = @ - 1]
    /\ Step("install", "erase")
    /\ UNCHANGED <<logd, head, lh, outstanding, committing, pc, wrote, halted>>

\* commit: log.lh.n = 0 and write_head, erasing the transaction.
EraseOnlyInMemory ==
    /\ ~halted /\ com.ph = "erase"
    /\ lh' = <<>>
    /\ com' = [ph |-> "done", i |-> 1]
    /\ UNCHANGED <<disk, cache, pins, outstanding, committing, pc, wrote, halted>>

EraseHead ==
    /\ ~halted /\ com.ph = "erase"
    /\ lh' = <<>>
    /\ head' = <<>>
    /\ com' = [ph |-> "done", i |-> 1]
    /\ UNCHANGED <<home, logd, cache, pins, outstanding, committing, pc, wrote,
                   halted>>

\* end_op, after commit.
EndCommit(p) ==
    /\ ~halted /\ com.ph = "done" /\ pc[p] = "commit"
    /\ committing' = FALSE
    /\ com' = NotCommitting
    /\ pc' = Wakeup([pc EXCEPT ![p] = "idle"])
    /\ UNCHANGED <<disk, cache, pins, lh, outstanding, wrote, halted>>
-----------------------------------------------------------------------------
\* Power fails between two disk writes, or a panicked machine is restarted.
\* Only the disk survives; initlog calls recover_from_log.
Crash ==
    /\ cache' = [b \in Block |-> NoBuf]
    /\ pins' = [b \in Block |-> 0]
    /\ lh' = <<>>
    /\ outstanding' = 0
    /\ committing' = FALSE
    /\ pc' = [p \in Proc |-> "idle"]
    /\ wrote' = [p \in Proc |-> {}]
    /\ com' = [ph |-> "read", i |-> 1]
    /\ halted' = FALSE
    /\ UNCHANGED disk

\* read_head.
ReadHead ==
    /\ com.ph = "read"
    /\ lh' = head
    /\ com' = [ph |-> IF head = <<>> THEN "clear" ELSE "replay", i |-> 1]
    /\ UNCHANGED <<disk, cache, pins, outstanding, committing, pc, wrote, halted>>

\* install_trans(1), one block.
Replay ==
    /\ com.ph = "replay"
    /\ home' = [home EXCEPT ![lh[com.i]] = logd[com.i]]
    /\ cache' = [cache EXCEPT ![lh[com.i]] = logd[com.i]]
    /\ Step("replay", "clear")
    /\ UNCHANGED <<logd, head, pins, lh, outstanding, committing, pc, wrote,
                   halted>>

\* recover_from_log: log.lh.n = 0 and write_head; file-system calls begin.
ClearHead ==
    /\ com.ph = "clear"
    /\ lh' = <<>>
    /\ head' = <<>>
    /\ com' = NotCommitting
    /\ UNCHANGED <<home, logd, cache, pins, outstanding, committing, pc, wrote,
                   halted>>
-----------------------------------------------------------------------------
Next ==
    \/ \E p \in Proc : \/ Call(p) \/ BeginOp(p) \/ LogWrite(p)
                       \/ EndOp(p) \/ EndCommit(p)
    \/ \E b \in Block : Read(b) \/ Evict(b)
    \/ WriteLog \/ WriteHead \/ InstallTrans \/ EraseHead
    \/ Crash \/ ReadHead \/ Replay \/ ClearHead

Spec == Init /\ [][Next]_vars
-----------------------------------------------------------------------------
\* A log header names each block once and no more of them than the log has
\* room for.
IsHeader(h) ==
    /\ h \in Seq(Block) /\ DOMAIN h \subseteq Slot
    /\ \A i, j \in DOMAIN h : h[i] = h[j] => i = j

\* Variables keep their types.
TypeOK ==
    /\ home \in [Block -> Val]
    /\ logd \in [Slot -> Val]
    /\ cache \in [Block -> Val \cup {NoBuf}]
    /\ pins \in [Block -> Nat]
    /\ IsHeader(lh) /\ IsHeader(head)
    /\ outstanding \in Nat
    /\ committing \in BOOLEAN
    /\ pc \in [Proc -> {"idle", "begin", "asleep", "op", "commit"}]
    /\ wrote \in [Proc -> SUBSET Block]
    /\ com \in [ph : Phase, i : Nat]
    /\ halted \in BOOLEAN

\* The calls in progress.
Ops == {p \in Proc : pc[p] = "op"}

\* The panics "log.committing" and "log_write outside of trans" are never
\* reached: log.outstanding counts the calls between begin_op and end_op, and
\* commit runs only while there are none.
PanicsUnreachable ==
    /\ outstanding = Cardinality(Ops)
    /\ committing <=> \E p \in Proc : pc[p] = "commit"
    /\ committing => outstanding = 0

\* A call asleep in begin_op has somebody to wake it: a call that will end or
\* a commit in progress.
SleeperWillWake ==
    (\E p \in Proc : pc[p] = "asleep") /\ ~halted => outstanding > 0 \/ committing

\* After the last end_op has returned, nothing written is still only in
\* memory: a crash from then on loses nothing.
QuietMeansDurable ==
    (Up /\ ~committing /\ outstanding = 0)
        => lh = <<>> /\ head = <<>> /\ \A b \in Block : Bread(b) = home[b]

\* The home blocks d, overlaid by the log's blocks l that a header h names.
Overlay(h, l, d) ==
    [b \in Block |-> IF \E i \in DOMAIN h : h[i] = b
                     THEN l[CHOOSE i \in DOMAIN h : h[i] = b]
                     ELSE d[b]]

\* The disk a crash leaves, and what a read returns.
Survives == Overlay(head, logd, home)
View == IF Recovering THEN Survives ELSE [b \in Block |-> Bread(b)]

Atomic == INSTANCE AtomicDisk WITH view <- View, durable <- Survives, ops <- Ops

\* Crash safety: whatever the interleaving of calls, evictions, commit steps
\* and crashes (also during recovery), the disk is one that a sequence of
\* whole transactions leaves, and reads see all writes before them.
CrashAtomic == Atomic!ASpec

\* A call that keeps to MAXOPBLOCKS blocks never meets the panic "too big a
\* transaction": begin_op has reserved the space.
ReservationSuffices == ~halted
=============================================================================
