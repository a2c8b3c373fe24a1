------------------------------- MODULE MCLive -------------------------------
(***************************************************************************)
(* The schedulers and the disk driver, each on its own: a behaviour is one *)
(* of Sched, for a build of MCBuilds, or one of VirtioDisk, when the build *)
(* has no CPU.                                                             *)
(***************************************************************************)
EXTENDS Sched, VirtioDisk

Kernel(sched, cpus, slots, bound, prios) ==
    [sched |-> sched, cpus |-> cpus, slots |-> slots, ticks |-> bound, prios |-> prios]

DiskOnly == Kernel("FCFS", 0, 1, 0, {})

\* PBS is the scheduler that keeps locks of processes it has passed over.
MCBuilds == {Kernel("PBS", 2, 3, 0, {20}), DiskOnly}
MCticklim == <<1, 2>>

\* The Makefile's default of two CPUs under a scheduler that does not keep locks.
MCTwoCpus == {Kernel("FCFS", 2, 2, 1, {})}

LiveInit == SchedInit /\ DiskInit

LiveNext ==
    \/ build # DiskOnly /\ SchedNext /\ UNCHANGED diskVars
    \/ build = DiskOnly /\ DiskNext /\ UNCHANGED schedVars

\* Without a CPU no action of Sched is enabled, and as long as no process asks
\* for a block none of the fair actions of VirtioDisk is.
LiveSpec ==
    /\ LiveInit /\ [][LiveNext]_<<schedVars, diskVars>>
    /\ SchedFairness /\ DiskFairness
=============================================================================
