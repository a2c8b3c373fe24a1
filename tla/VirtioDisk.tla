---------------------------- MODULE VirtioDisk -----------------------------
(***************************************************************************)
(* The disk driver of virtio_disk.c: descriptors, the avail and used       *)
(* rings, virtio_disk_rw of several processes and virtio_disk_intr, with   *)
(* a device that serves requests in any order.                             *)
(*                                                                         *)
(* Everything a process does between two sleeps holds vdisk_lock and is    *)
(* one step.  The interrupt handler also holds it, but the device goes on  *)
(* while the handler loops, so the handler has several steps.  The indices *)
(* of the rings are 16-bit counters; here they wrap at IdxSize, a multiple *)
(* of NUM as 2^16 is.  An entry of a ring is cleared once it has been      *)
(* taken, which only makes fewer states: it is written again before it is  *)
(* read again.                                                             *)
(*                                                                         *)
(* An operator that no action uses and that stands just before one of the  *)
(* same parameters is a deliberate fault, used to test the properties.     *)
(***************************************************************************)
EXTENDS Integers, Sequences, FiniteSets, FiniteSetsExt

CONSTANTS DiskUsers,  \* processes, each with a buffer of its own
          NUM,        \* descriptors
          IdxSize     \* the ring indices wrap here (2^16)

Desc == 0 .. NUM - 1
NoUser == 0

VARIABLES
    dfree,     \* disk.free
    dnext,     \* disk.desc[i].next of a descriptor with VRING_DESC_F_NEXT, or -1
    dinfo,     \* disk.info[i]: the buffer (its process) and the status
    aring,     \* disk.avail->ring
    aidx,      \* disk.avail->idx
    uring,     \* disk.used->ring
    uidx,      \* disk.used->idx, the device's
    used_idx,  \* disk.used_idx, the driver's
    taken,     \* the device's own avail index
    serving,   \* heads the device works on
    raised,    \* VIRTIO_MMIO_INTERRUPT_STATUS: the device raises its interrupt
    handling,  \* virtio_disk_intr runs
    dpc,       \* where a process is
    head,      \* its idx[0]
    busy,      \* b->disk
    moved      \* history: the device has transferred the process's block

diskVars == <<dfree, dnext, dinfo, aring, aidx, uring, uidx, used_idx, taken,
              serving, raised, handling, dpc, head, busy, moved>>
deviceVars == <<uring, uidx, taken, serving>>

\* virtio_disk_init
DiskInit ==
    /\ dfree = Desc
    /\ dnext = [i \in Desc |-> -1]
    /\ dinfo = [i \in Desc |-> [b |-> NoUser, status |-> 0]]
    /\ aring = [i \in Desc |-> 0] /\ uring = [i \in Desc |-> 0]
    /\ aidx = 0 /\ uidx = 0 /\ used_idx = 0 /\ taken = 0
    /\ serving = {}
    /\ raised = FALSE /\ handling = FALSE
    /\ dpc = [u \in DiskUsers |-> "idle"]
    /\ head = [u \in DiskUsers |-> -1]
    /\ busy = [u \in DiskUsers |-> FALSE]
    /\ moved = [u \in DiskUsers |-> FALSE]

Inc(i) == (i + 1) % IdxSize

\* wakeup(&disk.free[0]), once u is where it goes.
WakeFor(u, pc) ==
    dpc' = [v \in DiskUsers |-> IF v = u THEN pc
                                ELSE IF dpc[v] = "nodesc" THEN "start" ELSE dpc[v]]

\* virtio_disk_rw with too few descriptors: the ones alloc3_desc got are freed
\* again, which wakes the other processes that wait for descriptors.
NoDesc(u) ==
    /\ dpc[u] \in {"idle", "start"} /\ ~handling /\ Cardinality(dfree) < 3
    /\ IF dfree = {} THEN dpc' = [dpc EXCEPT ![u] = "nodesc"]
                     ELSE WakeFor(u, "nodesc")
    /\ UNCHANGED <<dfree, dnext, dinfo, aring, aidx, used_idx, raised, handling,
                   head, busy, moved, deviceVars>>

Lowest3(S) ==
    LET a == Min(S) b == Min(S \ {a}) IN <<a, b, Min(S \ {a, b})>>

\* virtio_disk_rw up to sleep(b).
Submit(u) ==
    LET d == Lowest3(dfree)
    IN  /\ dpc[u] \in {"idle", "start"} /\ ~handling /\ Cardinality(dfree) >= 3
        /\ dfree' = dfree \ {d[1], d[2], d[3]}
        /\ dnext' = [dnext EXCEPT ![d[1]] = d[2], ![d[2]] = d[3], ![d[3]] = -1]
        /\ dinfo' = [dinfo EXCEPT ![d[1]] = [b |-> u, status |-> 255]]
        /\ busy' = [busy EXCEPT ![u] = TRUE]
        /\ aring' = [aring EXCEPT ![aidx % NUM] = d[1]]
        /\ aidx' = Inc(aidx)
        /\ dpc' = [dpc EXCEPT ![u] = "wait"]
        /\ head' = [head EXCEPT ![u] = d[1]]
        /\ moved' = [moved EXCEPT ![u] = FALSE]
        /\ UNCHANGED <<used_idx, raised, handling, deviceVars>>

ChainHeadOnly(i) == {i}

\* The descriptors free_chain(i) frees.
Chain(i) == {i, dnext[i], dnext[dnext[i]]}

\* virtio_disk_rw after the interrupt: free the chain, which wakes the others.
Return(u) ==
    /\ dpc[u] = "wake" /\ ~handling
    /\ dinfo' = [dinfo EXCEPT ![head[u]].b = NoUser]
    /\ dfree' = dfree \cup Chain(head[u])
    /\ dnext' = [i \in Desc |-> IF i \in Chain(head[u]) THEN -1 ELSE dnext[i]]
    /\ WakeFor(u, "idle")
    /\ head' = [head EXCEPT ![u] = -1]
    /\ UNCHANGED <<aring, aidx, used_idx, raised, handling, busy, moved, deviceVars>>

---------------------------------------------------------------------------
(* The device.                                                             *)

DeviceTake ==
    /\ taken # aidx
    /\ serving' = serving \cup {aring[taken % NUM]}
    /\ taken' = Inc(taken)
    /\ aring' = [aring EXCEPT ![taken % NUM] = 0]
    /\ UNCHANGED <<dfree, dnext, dinfo, aidx, uring, uidx, used_idx, raised,
                   handling, dpc, head, busy, moved>>

\* Transfer, status byte, used ring, then used->idx and the interrupt.
DeviceDone(i) ==
    /\ i \in serving
    /\ dinfo' = [dinfo EXCEPT ![i].status = 0]
    /\ moved' = [moved EXCEPT ![dinfo[i].b] = TRUE]
    /\ uring' = [uring EXCEPT ![uidx % NUM] = i]
    /\ uidx' = Inc(uidx)
    /\ serving' = serving \ {i}
    /\ raised' = TRUE
    /\ UNCHANGED <<dfree, dnext, aring, aidx, used_idx, taken, handling, dpc, head,
                   busy>>

---------------------------------------------------------------------------
(* virtio_disk_intr.                                                       *)

\* Take the lock and acknowledge the interrupt.
Intr ==
    /\ raised /\ ~handling /\ handling' = TRUE /\ raised' = FALSE
    /\ UNCHANGED <<dfree, dnext, dinfo, aring, aidx, used_idx, dpc, head, busy,
                   moved, deviceVars>>

UsedEntryNext == uring[(used_idx + 1) % NUM]

\* disk.used->ring[disk.used_idx % NUM].id
UsedEntry == uring[used_idx % NUM]

\* One turn of the loop: b->disk = 0 and wakeup(b).
IntrStep ==
    LET u == dinfo[UsedEntry].b
    IN  /\ handling /\ used_idx # uidx /\ u # NoUser
        /\ busy' = [busy EXCEPT ![u] = FALSE]
        /\ dpc' = [dpc EXCEPT ![u] = IF @ = "wait" THEN "wake" ELSE @]
        /\ used_idx' = Inc(used_idx)
        /\ uring' = [uring EXCEPT ![used_idx % NUM] = 0]
        /\ UNCHANGED <<dfree, dnext, dinfo, aring, aidx, uidx, taken, serving, raised,
                       handling, head, moved>>

IntrEndEarly ==
    /\ handling /\ handling' = FALSE
    /\ UNCHANGED <<dfree, dnext, dinfo, aring, aidx, used_idx, raised, dpc, head,
                   busy, moved, deviceVars>>

IntrEnd ==
    /\ handling /\ used_idx = uidx /\ handling' = FALSE
    /\ UNCHANGED <<dfree, dnext, dinfo, aring, aidx, used_idx, raised, dpc, head,
                   busy, moved, deviceVars>>

DiskNext ==
    \/ Intr \/ IntrStep \/ IntrEnd \/ DeviceTake
    \/ \E i \in Desc : DeviceDone(i)
    \/ \E u \in DiskUsers : Submit(u) \/ NoDesc(u) \/ Return(u)

\* The device serves what it is given and its interrupt is delivered; a woken
\* process is scheduled, also when others wake and sleep meanwhile.
DiskFairness ==
    /\ WF_diskVars(Intr) /\ WF_diskVars(IntrStep) /\ WF_diskVars(IntrEnd)
    /\ WF_diskVars(DeviceTake) /\ \A i \in Desc : WF_diskVars(DeviceDone(i))
    /\ \A u \in DiskUsers : SF_diskVars(Return(u))

---------------------------------------------------------------------------

InFlight(u) == dpc[u] \in {"wait", "wake"}

\* Every descriptor is free or in the chain of exactly one request, so
\* free_desc never panics; the handler finds a live request with status 0
\* behind every used entry, also while the device adds more; and a process
\* gets its buffer back only after the device has transferred it.
RequestsAccounted ==
    /\ \A i \in Desc : Cardinality({u \in DiskUsers : InFlight(u) /\ i \in Chain(head[u])})
                         = IF i \in dfree THEN 0 ELSE 1
    /\ (handling /\ used_idx # uidx) =>
          dinfo[UsedEntry].b # NoUser /\ dinfo[UsedEntry].status = 0
    /\ \A u \in DiskUsers : dpc[u] = "wake" => moved[u] /\ ~busy[u]

\* Every request comes back, whatever the order the device serves them in and
\* however its interrupts fall on the handler's loop: none is missed.
RequestsReturn ==
    \A u \in DiskUsers : dpc[u] = "wait" ~> dpc[u] = "idle"
=============================================================================
