------------------------------- MODULE Sched -------------------------------
(***************************************************************************)
(* The schedulers that replace round robin: sched_fcfs, sched_mlfq and     *)
(* sched_pbs of proc.c, with what feeds them: clockintr and update_time,   *)
(* the preemption of usertrap and kerneltrap, mlfq_yield, set_priority,    *)
(* the fields allocproc sets, and the times waitx reports.                 *)
(*                                                                         *)
(* A build compiles one scheduler in and runs on a number of CPUs; f[p]    *)
(* holds the fields of p that this build's scheduler reads, and the times  *)
(* that waitx reports in the FCFS build (they are the same in the others). *)
(* A section that holds one p->lock is one step.  sched_pbs keeps the      *)
(* lock of its candidate over several steps, so lk is a variable.          *)
(* mlfq_yield runs with interrupts off and is one step: an MLFQ build here *)
(* has one CPU.                                                            *)
(* Processes block, wake, fork, exit and are reaped as they please;        *)
(* ProcTable has the detail of those calls.                                *)
(*                                                                         *)
(* An operator that no action uses and that stands just before one of the  *)
(* same parameters is a deliberate fault, used to test the properties.     *)
(***************************************************************************)
EXTENDS Integers, Sequences, FiniteSets, FiniteSetsExt

CONSTANTS Builds,      \* kernels: a scheduler, CPUs, NPROC, a bound on ticks, and
                       \* the priorities programs pass to set_priority
          ticklim,     \* time slices of the queue levels (proc.c: 1, 3, 9, 15)
          AgeTicks,    \* ticks after which a waiting process moves up (30)
          PastEnd,     \* what a read one past the end of ticklim may return
          MaxShed      \* bound: turns a process gives back (PBS)

VARIABLES
    build,   \* the member of Builds that runs
    st,      \* p->state
    f,       \* the scheduling fields of p
    lk,      \* the CPU that keeps p->lock over several steps, or Nil
    cproc,   \* c->proc
    sel,     \* selected, in the CPU's sched_* call
    idx,     \* the slot that call looks at
    seen,    \* history: the slots that call found RUNNABLE
    ticks,
    clk,     \* CPU 1 (hart 0) in clockintr: the loop step it is at, or 0
    due,     \* the CPU's process has a timer interrupt to finish
    joined,  \* history (MLFQ): when p joined the queue it waits in, and if by fork
    got      \* history (MLFQ): when the CPU's process got it

schedVars == <<build, st, f, lk, cproc, sel, idx, seen, ticks, clk, due, joined, got>>

Nil == 0
NSlot == build.slots
Slot == 1 .. NSlot
Policy == build.sched
Cpu == 1 .. build.cpus
numq == Len(ticklim)

FreshNoTimes(p) == [ctime |-> ticks, rtime |-> f[p].rtime, etime |-> 0]

FreshTimes(p) == [ctime |-> ticks, rtime |-> 0, etime |-> 0]

\* allocproc: in_time is the one field it leaves as the slot's last process
\* left it.
Fresh(p) ==
    CASE Policy = "FCFS" -> FreshTimes(p)
      [] Policy = "MLFQ" -> [queue_level |-> 0, tick_ctr |-> 0,
                             last_exec |-> ticks, in_time |-> f[p].in_time]
      [] Policy = "PBS" -> [run_time |-> 0, wait_time |-> 0, sleep_time |-> 0,
                            priority |-> 50, dynamic |-> 0, num_shed |-> 0,
                            ctime |-> ticks]

\* freeproc: in_time and the three times are left.
Freed(p) ==
    CASE Policy = "FCFS" -> f[p]
      [] Policy = "MLFQ" -> [f[p] EXCEPT !.queue_level = 0, !.tick_ctr = 0,
                                         !.last_exec = ticks]
      [] Policy = "PBS" -> [f[p] EXCEPT !.run_time = 0, !.wait_time = 0,
                                        !.sleep_time = 0, !.priority = 0,
                                        !.dynamic = 0, !.num_shed = 0]

\* The fields at the start: those of allocproc with priority pr.
Started(policy, pr) ==
    CASE policy = "FCFS" -> [ctime |-> 0, rtime |-> 0, etime |-> 0]
      [] policy = "MLFQ" -> [queue_level |-> 0, tick_ctr |-> 0,
                             last_exec |-> 0, in_time |-> 0]
      [] policy = "PBS" -> [run_time |-> 0, wait_time |-> 0, sleep_time |-> 0,
                            priority |-> pr, dynamic |-> 0, num_shed |-> 0,
                            ctime |-> 0]

\* userinit has made the first process; the other slots are zero.
SchedInit ==
    /\ build \in Builds
    /\ st = [p \in Slot |-> IF p = 1 THEN "RUNNABLE" ELSE "UNUSED"]
    /\ f = [p \in Slot |-> Started(build.sched, IF p = 1 THEN 50 ELSE 0)]
    /\ lk = [p \in Slot |-> Nil]
    /\ cproc = [c \in Cpu |-> Nil]
    /\ sel = [c \in Cpu |-> Nil]
    /\ idx = [c \in Cpu |-> 1]
    /\ seen = [c \in Cpu |-> {}]
    /\ ticks = 0
    /\ clk = 0
    /\ due = [c \in Cpu |-> FALSE]
    /\ joined = [p \in Slot |-> [at |-> 0, new |-> p = 1 /\ Policy = "MLFQ"]]
    /\ got = [c \in Cpu |-> 0]

---------------------------------------------------------------------------
(* Which of two processes a scheduler prefers.                             *)

RawPriority(r) ==
    LET t == r.run_time + r.wait_time + r.sleep_time + 1
        n == 50 * (3 * r.run_time - r.wait_time - r.sleep_time)
    IN  IF n < 0 THEN 0 ELSE n \div t

\* The formula sched_pbs writes into p->dynamic_priority.  A negative
\* quotient is clamped to 0 whichever way it is rounded.
DynamicPriority(r) == Min({RawPriority(r) + r.priority, 100})

Better(g, p, s) ==
    CASE Policy = "FCFS" -> g[p].ctime < g[s].ctime
      [] Policy = "MLFQ" ->
            \/ g[p].queue_level < g[s].queue_level
            \/ g[p].queue_level = g[s].queue_level /\ g[p].in_time < g[s].in_time
      [] Policy = "PBS" ->
            \/ g[p].dynamic < g[s].dynamic
            \/ /\ g[p].dynamic = g[s].dynamic
               /\ \/ g[p].num_shed < g[s].num_shed
                  \/ g[p].num_shed = g[s].num_shed /\ g[p].ctime < g[s].ctime

---------------------------------------------------------------------------
(* The scheduler's loop.                                                   *)

InClock(c) == c = 1 /\ clk > 0
InScheduler(c) == cproc[c] = Nil /\ ~InClock(c)
Running(c) == cproc[c] # Nil /\ ~InClock(c) /\ ~due[c]

CandidateLockDropped(c, p) == lk

CandidateLockKept(c, p) ==
    [q \in Slot |-> IF q = p /\ Policy = "PBS" THEN c ELSE lk[q]]

\* sched_pbs releases the lock of the candidate it replaces and keeps the new
\* one's; the other two release every lock at once.
CandidateLock(c, p) ==
    [q \in Slot |-> IF q = p /\ Policy = "PBS" THEN c
                    ELSE IF lk[q] = c THEN Nil ELSE lk[q]]

\* One slot of the loop.
Scan(c) ==
    LET p == idx[c]
        g == IF Policy = "PBS"
             THEN [f EXCEPT ![p].dynamic = DynamicPriority(f[p])] ELSE f
    IN  /\ InScheduler(c) /\ p \in Slot /\ lk[p] = Nil
        /\ idx' = [idx EXCEPT ![c] = p + 1]
        /\ \/ st[p] # "RUNNABLE" /\ UNCHANGED <<f, sel, lk, seen>>
           \/ /\ st[p] = "RUNNABLE"
              /\ f' = g
              /\ seen' = [seen EXCEPT ![c] = @ \cup {p}]
              /\ IF sel[c] = Nil \/ Better(g, p, sel[c])
                 THEN /\ sel' = [sel EXCEPT ![c] = p]
                      /\ lk' = CandidateLock(c, p)
                 ELSE UNCHANGED <<sel, lk>>
        /\ UNCHANGED <<build, st, cproc, ticks, clk, due>>

OnRun(r) ==
    IF Policy = "PBS"
    THEN [r EXCEPT !.run_time = 0, !.wait_time = 0, !.sleep_time = 0,
                   !.num_shed = @ + 1]
    ELSE r

\* selected->state = RUNNING and swtch.  Nothing looks at the state again.
Run(c) ==
    LET s == sel[c]
    IN  /\ InScheduler(c) /\ idx[c] = NSlot + 1 /\ s # Nil /\ lk[s] \in {Nil, c}
        /\ st' = [st EXCEPT ![s] = "RUNNING"]
        /\ f' = [f EXCEPT ![s] = OnRun(@)]
        /\ lk' = [lk EXCEPT ![s] = Nil]
        /\ cproc' = [cproc EXCEPT ![c] = s]
        /\ sel' = [sel EXCEPT ![c] = Nil]
        /\ idx' = [idx EXCEPT ![c] = 1]
        /\ seen' = [seen EXCEPT ![c] = {}]
        /\ UNCHANGED <<build, ticks, clk, due>>

\* No process was found: scheduler() calls sched_* again.
Again(c) ==
    /\ InScheduler(c) /\ idx[c] = NSlot + 1 /\ sel[c] = Nil
    /\ idx' = [idx EXCEPT ![c] = 1]
    /\ UNCHANGED <<build, st, f, lk, cproc, sel, seen, ticks, clk, due>>

---------------------------------------------------------------------------
(* What the running processes do.                                          *)

\* The bound on turns: a process that has had MaxShed of them only exits.
TurnsLeft(p) == Policy = "PBS" => f[p].num_shed < MaxShed

\* sched(): the process leaves the CPU in state s with the fields r.
Switch(c, s, r) ==
    LET p == cproc[c]
    IN  /\ lk[p] = Nil
        /\ st' = [st EXCEPT ![p] = s]
        /\ f' = [f EXCEPT ![p] = r]
        /\ cproc' = [cproc EXCEPT ![c] = Nil]
        /\ due' = [due EXCEPT ![c] = FALSE]
        /\ UNCHANGED <<build, lk, sel, idx, seen, ticks, clk>>

Sleep(c) ==
    Running(c) /\ TurnsLeft(cproc[c]) /\ Switch(c, "SLEEPING", f[cproc[c]])

Exit(c) ==
    /\ Running(c) /\ cproc[c] # 1
    /\ Switch(c, "ZOMBIE", IF Policy = "FCFS"
                           THEN [f[cproc[c]] EXCEPT !.etime = ticks]
                           ELSE f[cproc[c]])

SetState(p, s, r) ==
    /\ lk[p] = Nil
    /\ st' = [st EXCEPT ![p] = s]
    /\ f' = [f EXCEPT ![p] = r]
    /\ UNCHANGED <<build, lk, cproc, sel, idx, seen, ticks, clk, due>>


\* A process that wakes enters its queue anew.
Requeued(p) ==
    IF Policy = "MLFQ"
    THEN [f[p] EXCEPT !.last_exec = ticks, !.tick_ctr = 0, !.in_time = ticks]
    ELSE f[p]

\* wakeup or kill, by an interrupt or by a process.
Wake(p) == st[p] = "SLEEPING" /\ SetState(p, "RUNNABLE", Requeued(p))

Fork(c) ==
    LET free == {p \in Slot : st[p] = "UNUSED"}
    IN  /\ Running(c) /\ free # {}
        /\ SetState(Min(free), "RUNNABLE", Fresh(Min(free)))

\* waitx has handed out the times; freeproc.
Reap(c, p) ==
    Running(c) /\ st[p] = "ZOMBIE" /\ SetState(p, "UNUSED", Freed(p))

\* sys_set_priority.  A lower value than before makes the caller yield.
SetPriority(c, p, v) ==
    /\ Policy = "PBS" /\ Running(c) /\ st[p] # "UNUSED" /\ lk[p] = Nil
    /\ f' = [f EXCEPT ![p].dynamic = v + 25, ![p].priority = v]
    /\ f[p].priority > v => TurnsLeft(cproc[c])
    /\ due' = [due EXCEPT ![c] = f[p].priority > v]
    /\ UNCHANGED <<build, st, lk, cproc, sel, idx, seen, ticks, clk>>

---------------------------------------------------------------------------
(* The timer.                                                              *)

\* A timer interrupt.  Interrupts are off while a lock is kept.  Hart 0 runs
\* clockintr first; a CPU that was in its scheduler has nothing more to do.
Timer(c) ==
    /\ ~InClock(c) /\ ~due[c] /\ \A p \in Slot : lk[p] # c
    /\ IF c = 1 THEN ticks < build.ticks /\ ticks' = ticks + 1 /\ clk' = 1
                ELSE cproc[c] # Nil /\ UNCHANGED <<ticks, clk>>
    /\ cproc[c] # Nil => TurnsLeft(cproc[c])
    /\ due' = [due EXCEPT ![c] = cproc[c] # Nil]
    /\ UNCHANGED <<build, st, f, lk, cproc, sel, idx, seen>>

\* One slot of a loop of clockintr: update_time first, then the PBS counters.
Counted(p, r) ==
    IF clk <= NSlot
    THEN IF Policy = "FCFS" /\ st[p] = "RUNNING" THEN [r EXCEPT !.rtime = @ + 1]
                                                 ELSE r
    ELSE CASE Policy # "PBS" -> r
           [] st[p] = "RUNNING" -> [r EXCEPT !.run_time = @ + 1]
           [] st[p] = "SLEEPING" -> [r EXCEPT !.wait_time = @ + 1]
           [] st[p] = "RUNNABLE" -> [r EXCEPT !.sleep_time = @ + 1]
           [] OTHER -> r

Tick ==
    LET p == ((clk - 1) % NSlot) + 1
    IN  /\ clk > 0 /\ lk[p] = Nil
        /\ f' = [f EXCEPT ![p] = Counted(p, @)]
        /\ clk' = IF clk = 2 * NSlot THEN 0 ELSE clk + 1
        /\ UNCHANGED <<build, st, lk, cproc, sel, idx, seen, ticks, due>>

Aged(p, r) ==
    IF st[p] = "RUNNABLE" /\ r.queue_level > 0 /\ ticks - r.last_exec > AgeTicks
    THEN [r EXCEPT !.last_exec = ticks, !.in_time = ticks, !.queue_level = @ - 1]
    ELSE r

\* ticklim[level]; the code lets queue_level reach numq, past the end.
Slices(level) == IF level < numq THEN {ticklim[level + 1]} ELSE PastEnd

AheadByTwo(g, level) ==
    \E q \in Slot : st[q] = "RUNNABLE" /\ g[q].queue_level + 1 < level

Ahead(g, level) ==
    \E q \in Slot : st[q] = "RUNNABLE" /\ g[q].queue_level < level

\* mlfq_yield: age the waiting processes, then demote the current one at the
\* end of its slice, or let a process of a better level run.
MlfqYield(c) ==
    LET p == cproc[c]
        cur == [f[p] EXCEPT !.tick_ctr = @ + 1]
        g == [q \in Slot |-> IF q = p THEN cur ELSE Aged(q, f[q])]
        out == [cur EXCEPT !.tick_ctr = 0, !.in_time = ticks]
        Leave(r) == /\ f' = [g EXCEPT ![p] = r]
                    /\ st' = [st EXCEPT ![p] = "RUNNABLE"]
                    /\ cproc' = [cproc EXCEPT ![c] = Nil]
    IN  \E slice \in Slices(cur.queue_level) :
            \/ /\ cur.tick_ctr >= slice
               /\ Leave([out EXCEPT !.queue_level = Min({@ + 1, numq})])
            \/ cur.tick_ctr < slice /\ Ahead(g, cur.queue_level) /\ Leave(out)
            \/ /\ cur.tick_ctr < slice /\ ~Ahead(g, cur.queue_level)
               /\ f' = g /\ UNCHANGED <<st, cproc>>

\* The end of usertrap or kerneltrap after a timer interrupt.
Preempt(c) ==
    /\ due[c] /\ ~InClock(c)
    /\ \/ /\ Policy = "FCFS" /\ due' = [due EXCEPT ![c] = FALSE]
          /\ UNCHANGED <<build, st, f, lk, cproc, sel, idx, seen, ticks, clk>>
       \/ Policy = "PBS" /\ Switch(c, "RUNNABLE", f[cproc[c]])
       \/ /\ Policy = "MLFQ" /\ MlfqYield(c) /\ due' = [due EXCEPT ![c] = FALSE]
          /\ UNCHANGED <<build, lk, sel, idx, seen, ticks, clk>>

---------------------------------------------------------------------------

\* p joins a queue: it becomes RUNNABLE, or changes its level while it waits.
Joins(p) ==
    /\ st'[p] = "RUNNABLE"
    /\ st[p] = "RUNNABLE" => f'[p].queue_level # f[p].queue_level

\* The history of an MLFQ build, kept from what the processes do and not from
\* the fields the code keeps for it.
Recorded ==
    IF Policy # "MLFQ" THEN UNCHANGED <<joined, got>>
    ELSE /\ joined' = [p \in Slot |->
                         IF st'[p] # "RUNNABLE" THEN [at |-> 0, new |-> FALSE]
                         ELSE IF Joins(p) THEN [at |-> ticks, new |-> st[p] = "UNUSED"]
                         ELSE joined[p]]
         /\ got' = [c \in Cpu |-> IF cproc'[c] = Nil THEN 0
                                  ELSE IF cproc[c] = Nil THEN ticks ELSE got[c]]

SchedNext ==
    /\ \/ Tick
       \/ \E p \in Slot : Wake(p)
       \/ \E c \in Cpu :
             \/ Scan(c) \/ Run(c) \/ Again(c) \/ Sleep(c) \/ Exit(c) \/ Fork(c)
             \/ Timer(c) \/ Preempt(c)
             \/ \E p \in Slot : Reap(c, p)
             \/ \E p \in Slot, v \in build.prios : SetPriority(c, p, v)
    /\ Recorded

\* A CPU keeps executing instructions, so its scheduler loop, clockintr and the
\* end of a trap go on.  Nothing is assumed of programs or of the timer.
SchedFairness ==
    /\ WF_schedVars(Tick /\ Recorded)
    /\ \A c \in 1 .. Max({b.cpus : b \in Builds}) :
          WF_schedVars(/\ c \in Cpu /\ (Scan(c) \/ Run(c) \/ Again(c) \/ Preempt(c))
                       /\ Recorded)

SchedSpec == SchedInit /\ [][SchedNext]_schedVars
FairSchedSpec == SchedSpec /\ SchedFairness

---------------------------------------------------------------------------

\* A process is on one CPU at most, and exactly the processes on a CPU are
\* RUNNING: what a scheduler found RUNNABLE still is when it runs it, though
\* sched_fcfs and sched_mlfq let go of its lock in between (on one CPU), and
\* other CPUs, wakeups and set_priority come in while sched_pbs keeps it.
OneCpuPerProcess ==
    \A p \in Slot : LET on == {c \in Cpu : cproc[c] = p}
                    IN  Cardinality(on) = IF st[p] = "RUNNING" THEN 1 ELSE 0

\* p comes before q: it was created earlier; it is at a better level, or was
\* pushed into the same queue earlier; its dynamic priority is better, then
\* it has had fewer turns, then it was created earlier.
ComesBefore(p, q) ==
    CASE Policy = "FCFS" -> f[p].ctime < f[q].ctime
      [] Policy = "MLFQ" ->
            \/ f[p].queue_level < f[q].queue_level
            \/ /\ f[p].queue_level = f[q].queue_level
               /\ ~joined[p].new /\ ~joined[q].new /\ joined[p].at < joined[q].at
      [] Policy = "PBS" ->
            LET Key(r) == <<r.dynamic, r.num_shed, r.ctime>>
            IN  \E i \in 1 .. 3 : /\ Key(f[p])[i] < Key(f[q])[i]
                                 /\ \A j \in 1 .. i - 1 : Key(f[p])[j] = Key(f[q])[j]


\* On one CPU the time a child spent not running, etime - ctime - rtime in
\* waitx, is not negative (it is stored in an unsigned int).
WaitTimeNotNegative ==
    \A p \in Slot : (Policy = "FCFS" /\ st[p] = "ZOMBIE") =>
                        f[p].etime - f[p].ctime >= f[p].rtime

\* Under MLFQ, when a process has kept the CPU over a tick, its time there is
\* within the slice of its level; nobody at a better level waits who was there
\* before that tick; and nobody below the top level has waited in one queue for
\* more than AgeTicks.  So forks, wakeups, agings and demotions in any order
\* leave no process behind, though only the running one looks (mlfq_yield).
CpuIsShared ==
    LET p == cproc[1]
    IN  (Policy = "MLFQ" /\ p # Nil /\ ~due[1] /\ got[1] < ticks) =>
            /\ ticks - got[1] < Max(Slices(f[p].queue_level))
            /\ \A q \in Slot : st[q] = "RUNNABLE" =>
                 /\ f[q].queue_level < f[p].queue_level => joined[q].at = ticks
                 /\ f[q].queue_level > 0 => ticks - joined[q].at <= AgeTicks

\* Every process lock a scheduler keeps is released again: the CPUs that hold a
\* candidate's lock while they wait for the next slot's never wait in a circle.
CandidateLocksReleased ==
    \A p \in 1 .. Max({b.slots : b \in Builds}) :
        (p \in Slot /\ lk[p] # Nil) ~> ~(p \in Slot /\ lk[p] # Nil)

=============================================================================
