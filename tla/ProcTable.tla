----------------------------- MODULE ProcTable -----------------------------
(***************************************************************************)
(* The process table of proc.c under the default (RR) scheduler: fork,     *)
(* exit, wait, kill, sleep/wakeup, sys_sleep, the timer and the scheduler  *)
(* loops of several CPUs.                                                  *)
(*                                                                         *)
(* A section of code that holds p->lock is one step, also across swtch:    *)
(* sleep, yield and exit acquire p->lock and the scheduler releases it     *)
(* after the switch, and nothing else reads the fields it protects without *)
(* it.  wait_lock and tickslock are held over several steps and are        *)
(* variables.  A process that holds one of them has interrupts off.        *)
(*                                                                         *)
(* Slots stand for pids: a pid names the process in its slot until         *)
(* freeproc.  Files, memory and exit statuses are left out.                *)
(*                                                                         *)
(* An operator that no action uses and that stands just before one of the  *)
(* same parameters is a deliberate fault, used to test the properties.     *)
(***************************************************************************)
EXTENDS Integers, FiniteSets, FiniteSetsExt

CONSTANTS NPROC,      \* slots of the process table
          NCPU,       \* CPUs running scheduler()
          MaxSleep,   \* bound: the longest sleep a program asks for, in ticks
          CowFaults,  \* do programs store to copy-on-write pages?
          KillZero    \* do programs call kill(0)?

ASSUME ProcTableAssumption ==
    /\ NPROC \in Nat \ {0}
    /\ NCPU \in Nat \ {0}
    /\ MaxSleep \in Nat
    /\ CowFaults \in BOOLEAN
    /\ KillZero \in BOOLEAN

Proc == 1 .. NPROC
Cpu == 0 .. NCPU - 1
initproc == 1
Nil == 0
TicksChan == NPROC + 1          \* &ticks; a process is its own channel

VARIABLES
    state,      \* p->state
    parent,     \* p->parent
    chan,       \* p->chan
    killed,     \* p->killed
    pc,         \* where the process is, in user space or in a system call
    np,         \* the child fork is making
    left,       \* sys_sleep: ticks still to pass, n - (ticks - ticks0)
    cproc,      \* c->proc
    idx,        \* the slot a CPU's scheduler loop looks at
    wait_lock,  \* the process holding it, or Nil
    tickslock,  \* the process holding it, or Nil
    shell       \* init's variable pid: the child it waits for, or Nil

vars == <<state, parent, chan, killed, pc, np, left, cproc, idx, wait_lock,
          tickslock, shell>>

Pcs == {"user", "ret", "fk_parent", "fk_run", "ex_lock", "ex_wake", "ex_zombie",
        "wt_lock", "wt_scan", "wt_sleep", "sl_lock", "sl_check", "sl_sleep"}

\* userinit has run and the CPUs are in scheduler().
Init ==
    /\ state = [p \in Proc |-> IF p = initproc THEN "RUNNABLE" ELSE "UNUSED"]
    /\ parent = [p \in Proc |-> Nil]
    /\ chan = [p \in Proc |-> Nil]
    /\ killed = [p \in Proc |-> FALSE]
    /\ pc = [p \in Proc |-> "user"]
    /\ np = [p \in Proc |-> Nil]
    /\ left = [p \in Proc |-> 0]
    /\ cproc = [c \in Cpu |-> Nil]
    /\ idx = [c \in Cpu |-> 1]
    /\ wait_lock = Nil
    /\ tickslock = Nil
    /\ shell = Nil

OnCpu(p) == \E c \in Cpu : cproc[c] = p
At(p, l) == OnCpu(p) /\ pc[p] = l
Goto(p, l) == pc' = [pc EXCEPT ![p] = l]

\* swtch to the scheduler, which clears c->proc, releases p->lock and looks
\* at the next slot.
NextSlot(i) == IF i = NPROC THEN 1 ELSE i + 1
SwitchAway(p) ==
    /\ cproc' = [c \in Cpu |-> IF cproc[c] = p THEN Nil ELSE cproc[c]]
    /\ idx' = [c \in Cpu |-> IF cproc[c] = p THEN NextSlot(idx[c]) ELSE idx[c]]

\* wakeup(ch), given the states so far.
WakeNobody(ch, s) == s
Wakeup(ch, s) == [p \in Proc |-> IF s[p] = "SLEEPING" /\ chan[p] = ch
                                 THEN "RUNNABLE" ELSE s[p]]
-----------------------------------------------------------------------------
\* scheduler(), one slot: run the process there if it is RUNNABLE.  A process
\* that comes back from sleep() clears p->chan before it releases p->lock.
ScheduleUnchecked(c) ==
    LET p == idx[c] IN
    /\ cproc[c] = Nil
    /\ state[p] \in {"RUNNABLE", "RUNNING"}
    /\ state' = [state EXCEPT ![p] = "RUNNING"]
    /\ chan' = [chan EXCEPT ![p] = Nil]
    /\ cproc' = [cproc EXCEPT ![c] = p]
    /\ UNCHANGED <<parent, killed, pc, np, left, idx, wait_lock, tickslock, shell>>

RestartAtZero(c) ==
    LET p == idx[c] IN
    /\ cproc[c] = Nil
    /\ \/ /\ state[p] = "RUNNABLE"
          /\ state' = [state EXCEPT ![p] = "RUNNING"]
          /\ chan' = [chan EXCEPT ![p] = Nil]
          /\ cproc' = [cproc EXCEPT ![c] = p]
          /\ idx' = [idx EXCEPT ![c] = NPROC]
       \/ /\ state[p] # "RUNNABLE"
          /\ idx' = [idx EXCEPT ![c] = NextSlot(p)]
          /\ UNCHANGED <<state, chan, cproc>>
    /\ UNCHANGED <<parent, killed, pc, np, left, wait_lock, tickslock, shell>>

Schedule(c) ==
    LET p == idx[c] IN
    /\ cproc[c] = Nil
    /\ \/ /\ state[p] = "RUNNABLE"
          /\ state' = [state EXCEPT ![p] = "RUNNING"]
          /\ chan' = [chan EXCEPT ![p] = Nil]
          /\ cproc' = [cproc EXCEPT ![c] = p]
          /\ UNCHANGED idx
       \/ /\ state[p] # "RUNNABLE"
          /\ idx' = [idx EXCEPT ![c] = NextSlot(p)]
          /\ UNCHANGED <<state, chan, cproc>>
    /\ UNCHANGED <<parent, killed, pc, np, left, wait_lock, tickslock, shell>>

\* clockintr runs on CPU 0 only: ticks++ and wakeup(&ticks), under tickslock.
Ticked(c) ==
    IF c = 0 THEN /\ tickslock = Nil
                  /\ left' = [p \in Proc |-> IF left[p] > 0 THEN left[p] - 1 ELSE 0]
             ELSE UNCHANGED left

AfterTick(c) == IF c = 0 THEN Wakeup(TicksChan, state) ELSE state

\* A timer interrupt while CPU c is looking for a process.
TimerIdle(c) ==
    /\ cproc[c] = Nil
    /\ Ticked(c)
    /\ state' = AfterTick(c)
    /\ UNCHANGED <<parent, chan, killed, pc, np, cproc, idx, wait_lock, tickslock,
                   shell>>

\* A timer interrupt while p runs on CPU c with interrupts on: usertrap makes
\* a killed process exit, and it (or kerneltrap) calls yield otherwise.
Timer(c, p) ==
    /\ cproc[c] = p
    /\ wait_lock # p /\ tickslock # p
    /\ Ticked(c)
    /\ \/ /\ pc[p] = "user" /\ killed[p]
          /\ state' = AfterTick(c)
          /\ Goto(p, "ex_lock")
          /\ UNCHANGED <<cproc, idx>>
       \/ /\ ~(pc[p] = "user" /\ killed[p])
          /\ state' = [AfterTick(c) EXCEPT ![p] = "RUNNABLE"]
          /\ SwitchAway(p)
          /\ UNCHANGED pc
    /\ UNCHANGED <<parent, chan, killed, np, wait_lock, tickslock, shell>>
-----------------------------------------------------------------------------
\* usertrap, scause 8: a killed process exits instead of making the call.
Enter(p) == At(p, "user") /\ ~killed[p]

TrapKilled(p) ==
    /\ At(p, "user") /\ killed[p]
    /\ Goto(p, "ex_lock")
    /\ UNCHANGED <<state, parent, chan, killed, np, left, cproc, idx, wait_lock,
                   tickslock, shell>>

\* usertrap, after the call.
Return(p) ==
    /\ At(p, "ret")
    /\ Goto(p, IF killed[p] THEN "ex_lock" ELSE "user")
    /\ UNCHANGED <<state, parent, chan, killed, np, left, cproc, idx, wait_lock,
                   tickslock, shell>>

\* usertrap, scause 15: p->killed = removecopy(...), which is 0 for a
\* copy-on-write page and 1 for another one.
CowFault(p) ==
    /\ CowFaults /\ At(p, "user")
    /\ \/ /\ killed' = [killed EXCEPT ![p] = FALSE]
          /\ UNCHANGED pc
       \/ /\ p # initproc
          /\ killed' = [killed EXCEPT ![p] = TRUE]
          /\ Goto(p, "ex_lock")
    /\ UNCHANGED <<state, parent, chan, np, left, cproc, idx, wait_lock,
                   tickslock, shell>>

Unused == {q \in Proc : state[q] = "UNUSED"}

\* fork up to the release of np->lock: allocproc takes the first free slot.
\* Without one, or without memory, the call fails.  init forks a shell when
\* it has none.
Fork(p) ==
    /\ Enter(p)
    /\ p = initproc => shell = Nil
    /\ \/ /\ Unused # {}
          /\ LET q == Min(Unused) IN
               /\ state' = [state EXCEPT ![q] = "USED"]
               /\ np' = [np EXCEPT ![p] = q]
               /\ shell' = IF p = initproc THEN q ELSE shell
          /\ Goto(p, "fk_parent")
       \/ /\ p # initproc
          /\ Goto(p, "ret")
          /\ UNCHANGED <<state, np, shell>>
    /\ UNCHANGED <<parent, chan, killed, left, cproc, idx, wait_lock, tickslock>>

\* fork: np->parent = p under wait_lock.
ForkParent(p) ==
    /\ At(p, "fk_parent") /\ wait_lock = Nil
    /\ parent' = [parent EXCEPT ![np[p]] = p]
    /\ Goto(p, "fk_run")
    /\ UNCHANGED <<state, chan, killed, np, left, cproc, idx, wait_lock,
                   tickslock, shell>>

\* fork: the child may run; it starts in forkret, which returns to user space.
ForkRun(p) ==
    /\ At(p, "fk_run")
    /\ state' = [state EXCEPT ![np[p]] = "RUNNABLE"]
    /\ pc' = [pc EXCEPT ![p] = "ret", ![np[p]] = "user"]
    /\ np' = [np EXCEPT ![p] = Nil]
    /\ UNCHANGED <<parent, chan, killed, left, cproc, idx, wait_lock, tickslock,
                   shell>>
-----------------------------------------------------------------------------
Exit(p) ==
    /\ Enter(p) /\ p # initproc
    /\ Goto(p, "ex_lock")
    /\ UNCHANGED <<state, parent, chan, killed, np, left, cproc, idx, wait_lock,
                   tickslock, shell>>

\* exit: acquire wait_lock and reparent; init may be asleep in wait().
ForgetChildren(p) ==
    /\ At(p, "ex_lock") /\ wait_lock = Nil
    /\ wait_lock' = p
    /\ Goto(p, "ex_wake")
    /\ UNCHANGED <<state, parent, chan, killed, np, left, cproc, idx, tickslock,
                   shell>>

Reparent(p) ==
    /\ At(p, "ex_lock") /\ wait_lock = Nil
    /\ wait_lock' = p
    /\ parent' = [q \in Proc |-> IF parent[q] = p THEN initproc ELSE parent[q]]
    /\ state' = IF \E q \in Proc : parent[q] = p THEN Wakeup(initproc, state)
                                                 ELSE state
    /\ Goto(p, "ex_wake")
    /\ UNCHANGED <<chan, killed, np, left, cproc, idx, tickslock, shell>>

\* exit: wakeup(p->parent).
ExitWakeup(p) ==
    /\ At(p, "ex_wake")
    /\ state' = Wakeup(parent[p], state)
    /\ Goto(p, "ex_zombie")
    /\ UNCHANGED <<parent, chan, killed, np, left, cproc, idx, wait_lock,
                   tickslock, shell>>

\* exit: ZOMBIE, release wait_lock, sched; never to return.
ExitZombie(p) ==
    /\ At(p, "ex_zombie")
    /\ state' = [state EXCEPT ![p] = "ZOMBIE"]
    /\ wait_lock' = Nil
    /\ SwitchAway(p)
    /\ Goto(p, "user")
    /\ UNCHANGED <<parent, chan, killed, np, left, tickslock, shell>>
-----------------------------------------------------------------------------
\* wait, waitx.  init waits while its shell lives.
Wait(p) ==
    /\ Enter(p)
    /\ p = initproc => shell # Nil
    /\ Goto(p, "wt_lock")
    /\ UNCHANGED <<state, parent, chan, killed, np, left, cproc, idx, wait_lock,
                   tickslock, shell>>

WaitLock(p) ==
    /\ At(p, "wt_lock") /\ wait_lock = Nil
    /\ wait_lock' = p
    /\ Goto(p, "wt_scan")
    /\ UNCHANGED <<state, parent, chan, killed, np, left, cproc, idx, tickslock,
                   shell>>

Children(p) == {q \in Proc : parent[q] = p}
Zombies(p) == {q \in Children(p) : state[q] = "ZOMBIE"}

\* freeproc, for the table: every field is reset.
KeepFlag(q) ==
    /\ state' = [state EXCEPT ![q] = "UNUSED"]
    /\ parent' = [parent EXCEPT ![q] = Nil]
    /\ chan' = [chan EXCEPT ![q] = Nil]
    /\ UNCHANGED killed

Freeproc(q) ==
    /\ state' = [state EXCEPT ![q] = "UNUSED"]
    /\ parent' = [parent EXCEPT ![q] = Nil]
    /\ chan' = [chan EXCEPT ![q] = Nil]
    /\ killed' = [killed EXCEPT ![q] = FALSE]

\* wait: the scan found a zombie, the first in the table; copyout of its
\* status may fail, and then it stays.
WaitReap(p) ==
    /\ At(p, "wt_scan") /\ Zombies(p) # {}
    /\ LET q == Min(Zombies(p)) IN
         \/ /\ Freeproc(q)
            /\ shell' = IF p = initproc /\ q = shell THEN Nil ELSE shell
         \/ /\ p # initproc
            /\ UNCHANGED <<state, parent, chan, killed, shell>>
    /\ wait_lock' = Nil
    /\ Goto(p, "ret")
    /\ UNCHANGED <<np, left, cproc, idx, tickslock>>

\* wait: no zombie; return -1, or decide to sleep.
WaitNone(p) ==
    /\ At(p, "wt_scan") /\ Zombies(p) = {}
    /\ \/ /\ Children(p) = {} \/ killed[p]
          /\ wait_lock' = Nil
          /\ Goto(p, "ret")
       \/ /\ Children(p) # {} /\ ~killed[p]
          /\ Goto(p, "wt_sleep")
          /\ UNCHANGED wait_lock
    /\ UNCHANGED <<state, parent, chan, killed, np, left, cproc, idx, tickslock,
                   shell>>

\* sleep(ch, lk) up to the switch, but for the release of lk.
Sleep(p, ch) ==
    /\ state' = [state EXCEPT ![p] = "SLEEPING"]
    /\ chan' = [chan EXCEPT ![p] = ch]
    /\ SwitchAway(p)

\* wait: sleep(p, &wait_lock); it continues by taking wait_lock again.
WaitSleepHolding(p) ==
    /\ At(p, "wt_sleep")
    /\ Sleep(p, p)
    /\ Goto(p, "wt_lock")
    /\ UNCHANGED <<parent, killed, np, left, wait_lock, tickslock, shell>>

WaitSleep(p) ==
    /\ At(p, "wt_sleep")
    /\ Sleep(p, p)
    /\ wait_lock' = Nil
    /\ Goto(p, "wt_lock")
    /\ UNCHANGED <<parent, killed, np, left, tickslock, shell>>
-----------------------------------------------------------------------------
\* sys_sleep: acquire tickslock and read ticks.
SysSleep(p) ==
    /\ Enter(p) /\ p # initproc /\ tickslock = Nil
    /\ \E n \in 1 .. MaxSleep : left' = [left EXCEPT ![p] = n]
    /\ tickslock' = p
    /\ Goto(p, "sl_check")
    /\ UNCHANGED <<state, parent, chan, killed, np, cproc, idx, wait_lock, shell>>

\* sys_sleep: the loop's tests.
SleepCheck(p) ==
    /\ At(p, "sl_check")
    /\ \/ /\ left[p] = 0 \/ killed[p]
          /\ left' = [left EXCEPT ![p] = 0]
          /\ tickslock' = Nil
          /\ Goto(p, "ret")
       \/ /\ left[p] > 0 /\ ~killed[p]
          /\ Goto(p, "sl_sleep")
          /\ UNCHANGED <<left, tickslock>>
    /\ UNCHANGED <<state, parent, chan, killed, np, cproc, idx, wait_lock, shell>>

\* sys_sleep: sleep(&ticks, &tickslock).
SleepSleep(p) ==
    /\ At(p, "sl_sleep")
    /\ Sleep(p, TicksChan)
    /\ tickslock' = Nil
    /\ Goto(p, "sl_lock")
    /\ UNCHANGED <<parent, killed, np, left, wait_lock, shell>>

\* sys_sleep: the end of sleep takes tickslock again.
SleepLock(p) ==
    /\ At(p, "sl_lock") /\ tickslock = Nil
    /\ tickslock' = p
    /\ Goto(p, "sl_check")
    /\ UNCHANGED <<state, parent, chan, killed, np, left, cproc, idx, wait_lock,
                   shell>>

\* kill: mark the process with that pid, and wake it from any sleep.  Free
\* slots have pid 0.  (Killing init, which then panics, is left out.)
MarkOnly(q, s) == s
Rouse(q, s) == IF s[q] = "SLEEPING" THEN [s EXCEPT ![q] = "RUNNABLE"] ELSE s

Kill(p) ==
    /\ Enter(p) /\ p # initproc
    /\ \/ \E q \in Proc \ (Unused \cup {initproc}) :
            /\ killed' = [killed EXCEPT ![q] = TRUE]
            /\ state' = Rouse(q, state)
       \/ /\ KillZero /\ Unused # {}
          /\ killed' = [killed EXCEPT ![Min(Unused)] = TRUE]
          /\ UNCHANGED state
    /\ Goto(p, "ret")
    /\ UNCHANGED <<parent, chan, np, left, cproc, idx, wait_lock, tickslock, shell>>
-----------------------------------------------------------------------------
\* A step inside a system call, which the CPU takes by itself.
KernelStep(p) ==
    \/ Return(p) \/ ForkParent(p) \/ ForkRun(p)
    \/ Reparent(p) \/ ExitWakeup(p) \/ ExitZombie(p)
    \/ WaitLock(p) \/ WaitReap(p) \/ WaitNone(p) \/ WaitSleep(p)
    \/ SleepCheck(p) \/ SleepSleep(p) \/ SleepLock(p)

\* A trap the program causes.
UserStep(p) ==
    \/ TrapKilled(p) \/ CowFault(p)
    \/ Fork(p) \/ Exit(p) \/ Wait(p) \/ SysSleep(p) \/ Kill(p)

TimerInterrupt(c) == TimerIdle(c) \/ \E p \in Proc : Timer(c, p)

Next ==
    \/ \E c \in Cpu : Schedule(c) \/ TimerInterrupt(c)
    \/ \E p \in Proc : KernelStep(p) \/ UserStep(p)

Spec == Init /\ [][Next]_vars

(***************************************************************************)
(* CPUs do not stop.  A pending timer interrupt is taken when interrupts   *)
(* are on again, however often they are off.  The timer's interval is much *)
(* longer than a step, so a process that is given the CPU again and again  *)
(* makes progress, and so does init, which calls fork or wait whenever it  *)
(* is in user space.  Other programs may do nothing.                       *)
(***************************************************************************)
Fairness ==
    /\ \A c \in Cpu : WF_vars(Schedule(c)) /\ SF_vars(TimerInterrupt(c))
    /\ \A p \in Proc : SF_vars(KernelStep(p))
    /\ SF_vars(Fork(initproc) \/ Wait(initproc))

FairSpec == Spec /\ Fairness
-----------------------------------------------------------------------------
\* Every variable keeps its type; a sleep never counts below zero.
TypeOK ==
    /\ state \in [Proc -> {"UNUSED", "USED", "SLEEPING", "RUNNABLE", "RUNNING",
                           "ZOMBIE"}]
    /\ parent \in [Proc -> Proc \cup {Nil}]
    /\ chan \in [Proc -> Proc \cup {Nil, TicksChan}]
    /\ killed \in [Proc -> BOOLEAN]
    /\ pc \in [Proc -> Pcs]
    /\ np \in [Proc -> Proc \cup {Nil}]
    /\ left \in [Proc -> 0 .. MaxSleep]
    /\ cproc \in [Cpu -> Proc \cup {Nil}]
    /\ idx \in [Cpu -> Proc]
    /\ wait_lock \in Proc \cup {Nil}
    /\ tickslock \in Proc \cup {Nil}
    /\ shell \in Proc \cup {Nil}

\* No two CPUs run on the kernel stack of one process, and RUNNING means
\* that some CPU does.
OneCpuPerProcess ==
    /\ \A p \in Proc : state[p] = "RUNNING" <=> OnCpu(p)
    /\ \A c, d \in Cpu : cproc[c] = cproc[d] /\ cproc[c] # Nil => c = d

\* Nobody is off the CPU holding a spinlock: sched() would panic with "sched
\* locks", and everyone else would spin for ever.
SpinlockHolderRuns ==
    \A p \in Proc : wait_lock = p \/ tickslock = p => state[p] = "RUNNING"

\* No lost wakeup in wait(): while wait_lock is free, a parent asleep in
\* wait has a child, and none of its children is a zombie already.
WaiterNotForgotten ==
    \A p \in Proc :
        (state[p] = "SLEEPING" /\ chan[p] = p /\ wait_lock = Nil)
            => Children(p) # {} /\ Zombies(p) = {}

\* No orphans: every process but init has a parent that can still reap it,
\* whatever exits and slot reuses happened since fork.
ParentAlive ==
    \A q \in Proc \ {initproc} :
        (state[q] # "UNUSED" /\ \A p \in Proc : ~(np[p] = q /\ pc[p] = "fk_parent"))
            => /\ parent[q] # Nil
               /\ state[parent[q]] \notin {"UNUSED", "USED", "ZOMBIE"}

\* No lost wakeup in sys_sleep: who sleeps on ticks has time left to sleep.
NoOversleep ==
    \A p \in Proc : state[p] = "SLEEPING" /\ chan[p] = TicksChan => left[p] > 0

\* A slot on offer to fork carries nothing over from its last process, or
\* from a call that named no process.
UnusedIsClean ==
    \A p \in Unused : ~killed[p] /\ chan[p] = Nil /\ parent[p] = Nil

\* kill() is not forgotten: the mark stays until the victim has been reaped,
\* so its next return to user space makes it exit.
KilledSticky ==
    [][\A p \in Proc : killed[p] /\ ~killed'[p] => state'[p] = "UNUSED"]_vars

\* The RR scheduler starves nobody.
RunnableRuns == \A p \in Proc : state[p] = "RUNNABLE" ~> state[p] = "RUNNING"

\* sys_sleep returns.
SleepReturns == \A p \in Proc : pc[p] = "sl_lock" ~> pc[p] = "ret"

\* A parent in wait() with a zombie child gets it.
WaitReturns ==
    \A p \in Proc : (pc[p] = "wt_lock" /\ Zombies(p) # {}) ~> pc[p] = "ret"

\* A killed process ends, wherever kill() found it (on one CPU).
KilledExits ==
    \A p \in Proc : killed[p] ~> state[p] \in {"ZOMBIE", "UNUSED"}
=============================================================================
