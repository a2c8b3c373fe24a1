----------------------------- MODULE BufCache ------------------------------
(***************************************************************************)
(* The buffer cache of bio.c with the sleep locks of sleeplock.c, used as  *)
(* fs.c and log.c use it: bread, change and log_write (which pins) or      *)
(* install (bwrite, bunpin), brelse.  A thread here has one buffer at a    *)
(* time (bmap, write_log and install_trans hold a second one for a while). *)
(* virtio_disk_rw is one transfer, made under the buffer's lock;           *)
(* VirtioDisk has its detail.                                              *)
(*                                                                         *)
(* An operator that no action uses and that stands just before one of the  *)
(* same parameters is a deliberate fault, used to test the properties.     *)
(***************************************************************************)
EXTENDS Integers, Sequences, FiniteSets, SequencesExt

CONSTANTS BufThreads,  \* processes in the kernel
          Blocks,      \* block numbers
          BlocksOf,    \* those that each process reads
          Changed,     \* those that programs change
          NBUF,        \* buffers
          BlockData,   \* contents a block may have
          MaxPins      \* blocks the log keeps in the cache (LOGSIZE)

NoBlock == 0  \* blockno of a buffer never used (its dev is 0)
NoBuf == 0
Bufs == 1 .. NBUF

VARIABLES
    bufs,     \* b -> blockno, valid, refcnt, data
    lru,      \* the list from bcache.head.next (most recent) to head.prev
    block,    \* b->lock: the thread that holds the sleep lock, or 0
    bpc,      \* where a thread is
    want,     \* the blockno argument of its bread
    has,      \* the buffer it works on
    platter,  \* the blocks on disk
    pins,     \* blocks pinned by log_write
    latest    \* history: what was last stored in each block, cached or not

bufVars == <<bufs, lru, block, bpc, want, has, platter, pins, latest>>

\* binit: the last buffer linked in comes first.
BufInit ==
    /\ bufs = [b \in Bufs |-> [blockno |-> NoBlock, valid |-> FALSE, refcnt |-> 0,
                               data |-> CHOOSE d \in BlockData : TRUE]]
    /\ lru = [i \in Bufs |-> NBUF + 1 - i]
    /\ block = [b \in Bufs |-> 0]
    /\ bpc = [t \in BufThreads |-> "idle"]
    /\ want = [t \in BufThreads |-> NoBlock]
    /\ has = [t \in BufThreads |-> NoBuf]
    /\ platter = [n \in Blocks |-> CHOOSE d \in BlockData : TRUE]
    /\ pins = {}
    /\ latest = platter

Found(n) == {b \in Bufs : bufs[b].blockno = n}
IdleBufs == {b \in Bufs : bufs[b].refcnt = 0}

LeastRecentAny(S) == Last(lru)

\* The first buffer of S from the head.prev end of the list.
LeastRecent(S) == Last(SelectSeq(lru, LAMBDA b : b \in S))

Enter(t, n, b, pc) ==
    /\ bpc' = [bpc EXCEPT ![t] = pc]
    /\ want' = [want EXCEPT ![t] = n]
    /\ has' = [has EXCEPT ![t] = b]
    /\ UNCHANGED <<lru, block, platter, pins, latest>>

\* bget up to acquiresleep, under bcache.lock.  When every buffer is in use
\* bget panics, and the thread takes no further step.
Bget(t, n) ==
    /\ bpc[t] = "idle"
    /\ \/ \E b \in Found(n) :
             /\ bufs' = [bufs EXCEPT ![b].refcnt = @ + 1]
             /\ Enter(t, n, b, "lock")
       \/ /\ Found(n) = {} /\ IdleBufs # {}
          /\ LET b == LeastRecent(IdleBufs)
             IN  /\ bufs' = [bufs EXCEPT ![b] = [@ EXCEPT !.blockno = n,
                                                 !.valid = FALSE, !.refcnt = 1]]
                 /\ Enter(t, n, b, "lock")

At1(t, from, to) ==
    bpc[t] = from /\ bpc' = [bpc EXCEPT ![t] = to] /\ UNCHANGED <<want, has>>

\* acquiresleep: take the lock or sleep on it.
AcquireSleep(t) ==
    LET b == has[t]
    IN  /\ bpc[t] = "lock"
        /\ \/ /\ block[b] = 0
              /\ At1(t, "lock", IF bufs[b].valid THEN "hold" ELSE "fill")
              /\ block' = [block EXCEPT ![b] = t]
           \/ block[b] # 0 /\ At1(t, "lock", "asleep") /\ UNCHANGED block
        /\ UNCHANGED <<bufs, lru, platter, pins, latest>>

\* bread of a buffer that is not valid.
Fill(t) ==
    /\ At1(t, "fill", "hold")
    /\ bufs' = [bufs EXCEPT ![has[t]] = [@ EXCEPT !.data = platter[want[t]],
                                                  !.valid = TRUE]]
    /\ UNCHANGED <<lru, block, platter, pins, latest>>

\* A file-system function changes the data and calls log_write; a block that
\* is in the log already is not pinned again.
Change(t, d) ==
    LET b == has[t]
    IN  /\ At1(t, "hold", "hold") /\ want[t] \in Changed
        /\ want[t] \in pins \/ Cardinality(pins) < MaxPins
        /\ bufs' = [bufs EXCEPT ![b] =
                        [@ EXCEPT !.data = d,
                                  !.refcnt = @ + IF want[t] \in pins THEN 0 ELSE 1]]
        /\ pins' = pins \cup {want[t]}
        /\ latest' = [latest EXCEPT ![want[t]] = d]
        /\ UNCHANGED <<lru, block, platter>>

\* install_trans: bwrite, then bunpin.
Install(t) ==
    /\ At1(t, "hold", "hold") /\ want[t] \in pins
    /\ platter' = [platter EXCEPT ![want[t]] = bufs[has[t]].data]
    /\ bufs' = [bufs EXCEPT ![has[t]].refcnt = @ - 1]
    /\ pins' = pins \ {want[t]}
    /\ UNCHANGED <<lru, block, latest>>

ReleaseWithoutWakeup(t) == bpc' = [bpc EXCEPT ![t] = "release"]

\* releasesleep wakes every thread that sleeps on the lock.
ReleaseWakes(t) ==
    bpc' = [u \in BufThreads |->
              IF u = t THEN "release"
              ELSE IF bpc[u] = "asleep" /\ has[u] = has[t] THEN "lock" ELSE bpc[u]]

\* brelse, first half.
Releasesleep(t) ==
    /\ bpc[t] = "hold" /\ ReleaseWakes(t)
    /\ block' = [block EXCEPT ![has[t]] = 0]
    /\ UNCHANGED <<bufs, lru, want, has, platter, pins, latest>>

NotGivenBack(b) == bufs[b].refcnt
GivenBack(b) == bufs[b].refcnt - 1

\* brelse, second half, under bcache.lock.
Brelse(t) ==
    LET b == has[t]
    IN  /\ bpc[t] = "release" /\ bpc' = [bpc EXCEPT ![t] = "idle"]
        /\ bufs' = [bufs EXCEPT ![b].refcnt = GivenBack(b)]
        /\ lru' = IF GivenBack(b) = 0 THEN <<b>> \o Remove(lru, b) ELSE lru
        /\ has' = [has EXCEPT ![t] = NoBuf]
        /\ want' = [want EXCEPT ![t] = NoBlock]
        /\ UNCHANGED <<block, platter, pins, latest>>

BufNext ==
    \E t \in BufThreads :
        \/ \E n \in BlocksOf[t] : Bget(t, n)
        \/ AcquireSleep(t) \/ Fill(t) \/ Install(t)
        \/ Releasesleep(t) \/ Brelse(t)
        \/ \E d \in BlockData : Change(t, d)

---------------------------------------------------------------------------

\* Whoever holds a block sees what was last stored in it, though buffers are
\* recycled, found by others between bget and acquiresleep, and written back
\* late: no block is in two buffers, and none loses a change with its buffer.
HoldersSeeLatest ==
    /\ \A n \in Blocks : Cardinality(Found(n)) <= 1
    /\ \A t \in BufThreads :
          bpc[t] = "hold" => /\ bufs[has[t]].blockno = want[t]
                             /\ bufs[has[t]].data = latest[want[t]]

\* A buffer is kept from recycling by exactly those that use it: its count is
\* the threads between their bget and the end of their brelse, and one when the
\* log has its block pinned; and a pinned block stays in its buffer.  So bpin,
\* bunpin and brelse give back what was taken once, in any order, and bget
\* runs out of buffers only when all are really in use.
RefcntsExact ==
    /\ \A b \in Bufs :
          bufs[b].refcnt = Cardinality({t \in BufThreads : has[t] = b})
                           + (IF bufs[b].blockno \in pins THEN 1 ELSE 0)
    /\ \A n \in pins : Found(n) # {}

\* No thread sleeps on a buffer's lock that is free: releasesleep's wakeup
\* reaches every thread that found the lock taken.
NoSleeperOnFreeBuffer ==
    \A t \in BufThreads : bpc[t] = "asleep" => block[has[t]] # 0
=============================================================================
