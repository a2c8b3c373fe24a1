-------------------------- MODULE ProcTable_proofs --------------------------
(***************************************************************************)
(* Proofs that the safety invariants of ProcTable hold for every number of *)
(* processes and CPUs and every length of sleep.  The inductive invariant  *)
(* IInv has three layers: Scheduling (processes, CPUs, locks), Kinship     *)
(* (parents and children), and what is known of sleepers and free slots.   *)
(***************************************************************************)
EXTENDS ProcTable, WellFoundedInduction, TLAPS

State == {"UNUSED", "USED", "SLEEPING", "RUNNABLE", "RUNNING", "ZOMBIE"}

\* The code between acquire and release of each of the two locks.
InWaitLock == {"ex_wake", "ex_zombie", "wt_scan", "wt_sleep"}
InTicksLock == {"sl_check", "sl_sleep"}
Forking == {"fk_parent", "fk_run"}
Exiting == {"ex_lock", "ex_wake", "ex_zombie"}

\* States of a slot that has no process to run, or none yet.
Inert == {"UNUSED", "USED", "ZOMBIE"}

\* A lock is held by exactly the process in its critical section, on a CPU.
Locks ==
    \A p \in Proc :
        /\ wait_lock = p <=> pc[p] \in InWaitLock
        /\ tickslock = p <=> pc[p] \in InTicksLock
        /\ pc[p] \in InWaitLock \cup InTicksLock => state[p] = "RUNNING"

\* Where a process can be in each of its states.
Whereabouts ==
    /\ state[initproc] \notin Inert
    /\ pc[initproc] \notin Exiting /\ ~killed[initproc]
    /\ \A p \in Proc :
        /\ state[p] \in Inert => pc[p] = "user"
        /\ state[p] = "SLEEPING" => \/ pc[p] = "wt_lock" /\ chan[p] = p
                                    \/ pc[p] = "sl_lock" /\ chan[p] = TicksChan
        /\ state[p] \notin {"SLEEPING", "RUNNABLE"} => chan[p] = Nil

\* A slot being made into a child belongs to one process in fork.
Newborn ==
    /\ \A p \in Proc :
        /\ np[p] # Nil <=> pc[p] \in Forking
        /\ np[p] # Nil => state[np[p]] = "USED"
    /\ \A p, q \in Proc : np[p] = np[q] /\ np[p] # Nil => p = q

Scheduling == OneCpuPerProcess /\ Locks /\ Whereabouts /\ Newborn

\* Who is whose parent.
Family ==
    /\ parent[initproc] = Nil
    /\ \A q \in Proc : state[q] = "UNUSED" => parent[q] = Nil
    /\ \A p \in Proc : pc[p] = "fk_parent" => parent[np[p]] = Nil
    /\ \A p \in Proc : pc[p] \in {"ex_wake", "ex_zombie"} => Children(p) = {}

\* A process that sleeps in wait, or is about to, has something to wait for;
\* the parent of a process that is about to be a zombie is awake.
Waiting(p) == pc[p] = "wt_sleep" \/ (state[p] = "SLEEPING" /\ chan[p] = p)
Waiters ==
    /\ \A p \in Proc : Waiting(p) => Children(p) # {} /\ Zombies(p) = {}
    /\ \A q \in Proc : pc[q] = "ex_zombie" => parent[q] # Nil /\ ~Waiting(parent[q])

Kinship == Family /\ ParentAlive /\ Waiters

\* A process that sleeps on ticks, or is about to, has time left.
Sleepers ==
    \A p \in Proc :
        pc[p] = "sl_sleep" \/ (state[p] = "SLEEPING" /\ chan[p] = TicksChan)
            => left[p] > 0

\* Unless programs call kill(0), no free slot is marked killed.
Clean == KillZero \/ \A p \in Unused : ~killed[p]

IInv == TypeOK /\ Scheduling /\ Kinship /\ Sleepers /\ Clean
-----------------------------------------------------------------------------
LEMMA Consts ==
    /\ initproc \in Proc /\ Nil \notin Proc
    /\ TicksChan \notin Proc /\ TicksChan # Nil
    /\ MaxSleep \in Nat /\ KillZero \in BOOLEAN
BY ProcTableAssumption DEF Proc, initproc, Nil, TicksChan

LEMMA NextSlotIn == \A i \in Proc : NextSlot(i) \in Proc
BY ProcTableAssumption DEF Proc, NextSlot

\* The table is scanned from its first slot: the scan finds a slot of S.
LEMMA MinIn ==
    ASSUME NEW S, S \subseteq Proc, S # {}
    PROVE  Min(S) \in S
<1>1. S \subseteq Nat BY ProcTableAssumption DEF Proc
<1>2. PICK x \in S : \A y \in S : ~(<<y, x>> \in OpToRel(<, Nat))
  BY <1>1, NatLessThanWellFounded, WFMin, Zenon
<1>3. ASSUME NEW y \in S PROVE x <= y
  <2>1. x \in Nat /\ y \in Nat BY <1>1, <1>2
  <2>2. ~(y < x) BY <1>2, <2>1, Zenon DEF OpToRel
  <2>3. QED BY <2>1, <2>2
<1>4. QED BY <1>3 DEF Min

LEMMA MinUnused ==
    ASSUME Unused # {}
    PROVE  Min(Unused) \in Proc /\ state[Min(Unused)] = "UNUSED"
<1>1. Min(Unused) \in Unused BY MinIn DEF Unused
<1>2. QED BY <1>1 DEF Unused

LEMMA MinZombie ==
    ASSUME NEW p \in Proc, Zombies(p) # {}
    PROVE  /\ Min(Zombies(p)) \in Proc
           /\ parent[Min(Zombies(p))] = p
           /\ state[Min(Zombies(p))] = "ZOMBIE"
<1>1. Min(Zombies(p)) \in Zombies(p) BY MinIn DEF Zombies, Children
<1>2. QED BY <1>1 DEF Zombies, Children

LEMMA SetBool ==
    ASSUME NEW f \in [Proc -> BOOLEAN], NEW q, NEW b \in BOOLEAN
    PROVE  [f EXCEPT ![q] = b] \in [Proc -> BOOLEAN]
OBVIOUS
-----------------------------------------------------------------------------
\* What a timer interrupt does to a running process and to the others: it may
\* lose its CPU, and CPU 0 wakes whoever sleeps on ticks.
LEMMA TimerEffect ==
    ASSUME TypeOK, OneCpuPerProcess, NEW c \in Cpu, NEW p \in Proc, Timer(c, p)
    PROVE  /\ state' \in [Proc -> State]
           /\ state[p] = "RUNNING" /\ state'[p] \in {"RUNNING", "RUNNABLE"}
           /\ \A q \in Proc \ {p} :
                \/ state'[q] = state[q]
                \/ state[q] = "SLEEPING" /\ state'[q] = "RUNNABLE"
           /\ \A q \in Proc :
                state'[q] = "SLEEPING" /\ chan[q] = TicksChan => left'[q] = left[q]
           /\ pc' \in [Proc -> Pcs]
           /\ \A q \in Proc :
                \/ pc'[q] = pc[q]
                \/ q = p /\ pc[p] = "user" /\ killed[p] /\ pc'[p] = "ex_lock"
<1>1. state[p] = "RUNNING" BY DEF Timer, OneCpuPerProcess, OnCpu
<1>2. AfterTick(c) \in [Proc -> State]
  BY DEF AfterTick, Wakeup, TypeOK, State
<1>3. \A q \in Proc : \/ AfterTick(c)[q] = state[q]
                      \/ state[q] = "SLEEPING" /\ AfterTick(c)[q] = "RUNNABLE"
  BY DEF AfterTick, Wakeup, TypeOK
<1>4. \A q \in Proc : AfterTick(c)[q] = "SLEEPING" /\ chan[q] = TicksChan => c # 0
  BY DEF AfterTick, Wakeup, TypeOK
<1>5. state' = AfterTick(c) \/ state' = [AfterTick(c) EXCEPT ![p] = "RUNNABLE"]
  BY DEF Timer
<1>6. c # 0 => left' = left BY DEF Timer, Ticked
<1>7. \/ pc' = [pc EXCEPT ![p] = "ex_lock"] /\ pc[p] = "user" /\ killed[p]
      \/ pc' = pc
  BY DEF Timer, Goto
<1>8. /\ pc' \in [Proc -> Pcs]
      /\ \A q \in Proc :
           \/ pc'[q] = pc[q]
           \/ q = p /\ pc[p] = "user" /\ killed[p] /\ pc'[p] = "ex_lock"
  BY <1>7 DEF TypeOK, Pcs
<1>9. QED BY <1>1, <1>2, <1>3, <1>4, <1>5, <1>6, <1>8 DEF State

LEMMA TimerType ==
    ASSUME TypeOK, OneCpuPerProcess, NEW c \in Cpu, NEW p \in Proc, Timer(c, p)
    PROVE  TypeOK'
<1>1. left' \in [Proc -> 0 .. MaxSleep] BY Consts DEF Timer, Ticked, TypeOK
<1>2. QED
  BY <1>1, TimerEffect, NextSlotIn DEF Timer, SwitchAway, TypeOK, State

LEMMA TimerScheduling ==
    ASSUME TypeOK, Scheduling, NEW c \in Cpu, NEW p \in Proc, Timer(c, p)
    PROVE  Scheduling'
<1> USE SMTT(30) DEF Scheduling
<1>1. OneCpuPerProcess'
  <2>1. \/ cproc' = cproc /\ state'[p] = "RUNNING"
        \/ SwitchAway(p) /\ state'[p] = "RUNNABLE"
    BY TimerEffect DEF Timer, AfterTick, Wakeup, TypeOK
  <2>2. CASE cproc' = cproc /\ state'[p] = "RUNNING"
    BY <2>2, TimerEffect DEF Timer, OneCpuPerProcess, OnCpu
  <2>3. CASE SwitchAway(p) /\ state'[p] = "RUNNABLE"
    BY <2>3, TimerEffect, Consts
    DEF Timer, SwitchAway, OneCpuPerProcess, OnCpu, TypeOK
  <2>4. QED BY <2>1, <2>2, <2>3
<1>2. Locks' BY TimerEffect DEF Timer, Locks, InWaitLock, InTicksLock, TypeOK
<1>3. Whereabouts' BY TimerEffect, Consts DEF Timer, Whereabouts, Inert, Exiting
<1>4. Newborn' BY TimerEffect, Consts DEF Timer, Newborn, Forking, TypeOK
<1>5. QED BY <1>1, <1>2, <1>3, <1>4

LEMMA TimerKinship ==
    ASSUME TypeOK, Scheduling, Kinship, NEW c \in Cpu, NEW p \in Proc, Timer(c, p)
    PROVE  Kinship'
<1> USE SMTT(30) DEF Scheduling, Kinship
<1>1. Family' BY TimerEffect, Consts DEF Timer, Family, Children
<1>2. ParentAlive' BY TimerEffect, Consts DEF Timer, ParentAlive, TypeOK
<1>3. Waiters'
  BY TimerEffect, Consts DEF Timer, Waiters, Waiting, Zombies, Children, TypeOK
<1>4. QED BY <1>1, <1>2, <1>3

LEMMA TimerSleep ==
    ASSUME TypeOK, Scheduling, Sleepers, Clean,
           NEW c \in Cpu, NEW p \in Proc, Timer(c, p)
    PROVE  (Sleepers /\ Clean)'
<1> USE DEF Scheduling
<1>1. ASSUME NEW q \in Proc, pc[q] = "sl_sleep" PROVE left'[q] = left[q]
  <2>1. tickslock = q BY <1>1 DEF Locks, InTicksLock
  <2>2. QED BY <2>1, Consts DEF Timer, Ticked
<1>2. Sleepers' BY <1>1, TimerEffect DEF Timer, Sleepers
<1>3. Clean' BY TimerEffect DEF Timer, Clean, Unused
<1>4. QED BY <1>2, <1>3
-----------------------------------------------------------------------------
\* exit's first step hands the children to init, and wakes it if there are any.
LEMMA ReparentKinship ==
    ASSUME TypeOK, Scheduling, Kinship, NEW p \in Proc, Reparent(p)
    PROVE  Kinship'
<1> USE Consts, SMTT(30) DEF Scheduling, Kinship, Reparent, Goto, Wakeup, At, Children,
                   Locks, InWaitLock, Whereabouts, Inert, Exiting, TypeOK
<1>1. Family' BY DEF Family, Newborn, Forking
<1>2. ParentAlive' BY DEF ParentAlive, OneCpuPerProcess
<1>3. Waiters' BY DEF Waiters, Waiting, Zombies, OneCpuPerProcess
<1>4. QED BY <1>1, <1>2, <1>3

\* freeproc takes one zombie out of the children of its own parent.
LEMMA WaitReapKinship ==
    ASSUME TypeOK, Scheduling, Kinship, NEW p \in Proc, WaitReap(p)
    PROVE  Kinship'
<1> USE SMTT(30) DEF Scheduling, Kinship
<1>1. pc'[p] = "ret" /\ \A q \in Proc : q # p => pc'[q] = pc[q]
  BY DEF WaitReap, Goto, TypeOK
<1>2. state[p] = "RUNNING" /\ pc[p] = "wt_scan"
  BY DEF WaitReap, At, OneCpuPerProcess
<1>3. Family'
  BY <1>1, <1>2, MinZombie, Consts
  DEF Family, Children, WaitReap, Freeproc, Newborn, Forking, TypeOK
<1>4. ParentAlive'
  BY <1>1, <1>2, MinZombie, Consts
  DEF ParentAlive, WaitReap, Freeproc, TypeOK, Family, Newborn, Forking, Whereabouts
<1>5. CASE UNCHANGED <<state, parent, chan>>
  <2>1. Waiters'
    BY <1>1, <1>5 DEF Waiters, Waiting, Zombies, Children, TypeOK
  <2>2. QED BY <1>3, <1>4, <2>1
<1>6. CASE Freeproc(Min(Zombies(p)))
  <2> DEFINE z == Min(Zombies(p))
  <2>1. z \in Proc /\ parent[z] = p /\ state[z] = "ZOMBIE"
    BY MinZombie DEF WaitReap
  <2>2. /\ state' = [state EXCEPT ![z] = "UNUSED"]
        /\ parent' = [parent EXCEPT ![z] = Nil]
        /\ chan' = [chan EXCEPT ![z] = Nil]
    BY <1>6 DEF Freeproc
  <2> HIDE DEF z
  <2>3. ASSUME NEW q \in Proc, Waiting(q)' PROVE Waiting(q) /\ q # p /\ q # z
    BY <2>1, <2>2, <2>3, <1>1, <1>2 DEF Waiting, TypeOK, Whereabouts, Inert
  <2>4. ASSUME NEW q \in Proc, Waiting(q)' PROVE Children(q)' # {} /\ Zombies(q)' = {}
    <3>1. Children(q) # {} /\ Zombies(q) = {} BY <2>3, <2>4 DEF Waiters
    <3>2. \A x \in Proc : parent'[x] = q <=> parent[x] = q
      BY <2>1, <2>2, <2>3, <2>4, Consts DEF TypeOK
    <3>3. Children(q)' = Children(q) BY <3>2 DEF Children
    <3>4. Zombies(q)' \subseteq Zombies(q)
      BY <2>1, <2>2, <3>3 DEF Zombies, TypeOK, Children
    <3>5. QED BY <3>1, <3>3, <3>4
  <2>5. ASSUME NEW q \in Proc, pc'[q] = "ex_zombie"
        PROVE  parent'[q] # Nil /\ parent'[q] = parent[q] /\ ~Waiting(parent[q])'
    <3>1. pc[q] = "ex_zombie" /\ q # p BY <1>1, <2>5
    <3>2. q # z BY <3>1, <2>1 DEF Whereabouts, Inert
    <3>3. parent'[q] = parent[q] /\ parent[q] \in Proc /\ ~Waiting(parent[q])
      BY <3>1, <3>2, <2>2 DEF TypeOK, Waiters
    <3>4. QED BY <2>3, <3>3, Consts
  <2>6. Waiters' BY <2>4, <2>5 DEF Waiters, Waiting
  <2>7. QED BY <1>3, <1>4, <2>6
<1>7. QED BY <1>5, <1>6 DEF WaitReap
-----------------------------------------------------------------------------
\* Every action keeps the types.
LEMMA TypeStep ==
    ASSUME TypeOK, OneCpuPerProcess, Next
    PROVE  TypeOK'
<1>1. ASSUME NEW c \in Cpu, Schedule(c) PROVE TypeOK'
  BY <1>1, Consts, NextSlotIn DEF Schedule, TypeOK, Pcs
<1>2. ASSUME NEW c \in Cpu, TimerIdle(c) PROVE TypeOK'
  BY <1>2, Consts DEF TimerIdle, Ticked, AfterTick, Wakeup, TypeOK, Pcs
<1>3. ASSUME NEW c \in Cpu, NEW p \in Proc, Timer(c, p) PROVE TypeOK'
  BY <1>3, TimerType
<1>4. ASSUME NEW p \in Proc, Return(p) PROVE TypeOK'
  BY <1>4, Consts DEF Return, Goto, At, OnCpu, TypeOK, Pcs
<1>5. ASSUME NEW p \in Proc, ForkParent(p) PROVE TypeOK'
  BY <1>5, Consts DEF ForkParent, Goto, At, OnCpu, TypeOK, Pcs
<1>6. ASSUME NEW p \in Proc, ForkRun(p) PROVE TypeOK'
  BY <1>6, Consts DEF ForkRun, At, OnCpu, TypeOK, Pcs
<1>7. ASSUME NEW p \in Proc, Reparent(p) PROVE TypeOK'
  BY <1>7, Consts DEF Reparent, Goto, Wakeup, At, OnCpu, TypeOK, Pcs
<1>8. ASSUME NEW p \in Proc, ExitWakeup(p) PROVE TypeOK'
  BY <1>8, Consts DEF ExitWakeup, Goto, Wakeup, At, OnCpu, TypeOK, Pcs
<1>9. ASSUME NEW p \in Proc, ExitZombie(p) PROVE TypeOK'
  BY <1>9, Consts, NextSlotIn
  DEF ExitZombie, Goto, SwitchAway, At, OnCpu, TypeOK, Pcs
<1>10. ASSUME NEW p \in Proc, WaitLock(p) PROVE TypeOK'
  BY <1>10, Consts DEF WaitLock, Goto, At, OnCpu, TypeOK, Pcs
<1>11. ASSUME NEW p \in Proc, WaitReap(p) PROVE TypeOK'
  <2>1. killed' \in [Proc -> BOOLEAN]
    BY <1>11, SetBool DEF WaitReap, Freeproc, TypeOK
  <2>2. state' \in [Proc -> State] /\ parent' \in [Proc -> Proc \cup {Nil}]
    BY <1>11, MinZombie DEF WaitReap, Freeproc, TypeOK, State
  <2>3. QED
    BY <1>11, <2>1, <2>2, MinZombie, ZenonT(30)
    DEF WaitReap, Freeproc, Goto, TypeOK, Pcs, State
<1>12. ASSUME NEW p \in Proc, WaitNone(p) PROVE TypeOK'
  BY <1>12, Consts, MinZombie DEF WaitNone, Goto, At, OnCpu, TypeOK, Pcs
<1>13. ASSUME NEW p \in Proc, WaitSleep(p) PROVE TypeOK'
  BY <1>13, Consts, NextSlotIn
  DEF WaitSleep, Goto, Sleep, SwitchAway, At, OnCpu, TypeOK, Pcs
<1>14. ASSUME NEW p \in Proc, SleepCheck(p) PROVE TypeOK'
  BY <1>14, Consts DEF SleepCheck, Goto, At, OnCpu, TypeOK, Pcs
<1>15. ASSUME NEW p \in Proc, SleepSleep(p) PROVE TypeOK'
  BY <1>15, Consts, NextSlotIn
  DEF SleepSleep, Goto, Sleep, SwitchAway, At, OnCpu, TypeOK, Pcs
<1>16. ASSUME NEW p \in Proc, SleepLock(p) PROVE TypeOK'
  BY <1>16, Consts DEF SleepLock, Goto, At, OnCpu, TypeOK, Pcs
<1>17. ASSUME NEW p \in Proc, TrapKilled(p) PROVE TypeOK'
  BY <1>17, Consts DEF TrapKilled, Goto, At, OnCpu, TypeOK, Pcs
<1>18. ASSUME NEW p \in Proc, CowFault(p) PROVE TypeOK'
  <2>1. killed' \in [Proc -> BOOLEAN]
    BY <1>18, SetBool DEF CowFault, TypeOK
  <2>2. QED BY <1>18, <2>1 DEF CowFault, Goto, TypeOK, Pcs
<1>19. ASSUME NEW p \in Proc, Fork(p) PROVE TypeOK'
  BY <1>19, Consts, MinUnused DEF Fork, Goto, Enter, At, OnCpu, TypeOK, Pcs
<1>20. ASSUME NEW p \in Proc, Exit(p) PROVE TypeOK'
  BY <1>20, Consts DEF Exit, Goto, Enter, At, OnCpu, TypeOK, Pcs
<1>21. ASSUME NEW p \in Proc, Wait(p) PROVE TypeOK'
  BY <1>21, Consts DEF Wait, Goto, Enter, At, OnCpu, TypeOK, Pcs
<1>22. ASSUME NEW p \in Proc, SysSleep(p) PROVE TypeOK'
  BY <1>22, Consts DEF SysSleep, Goto, Enter, At, OnCpu, TypeOK, Pcs
<1>23. ASSUME NEW p \in Proc, Kill(p) PROVE TypeOK'
  <2>1. PICK q : killed' = [killed EXCEPT ![q] = TRUE] BY <1>23 DEF Kill
  <2>2. killed' \in [Proc -> BOOLEAN] BY <2>1, SetBool DEF TypeOK
  <2>3. QED BY <1>23, <2>2 DEF Kill, Rouse, Goto, TypeOK, Pcs
<1>24. QED
  BY <1>1, <1>2, <1>3, <1>4, <1>5, <1>6, <1>7, <1>8, <1>9, <1>10, <1>11,
     <1>12, <1>13, <1>14, <1>15, <1>16, <1>17, <1>18, <1>19, <1>20, <1>21,
     <1>22, <1>23, SMTT(30)
  DEF Next, TimerInterrupt, KernelStep, UserStep

\* Every action keeps the relation of processes, CPUs and locks.  Nobody but
\* the process itself, and a timer interrupt outside the locks, takes it off
\* its CPU; fork's child is in no other state than USED until ForkRun.
LEMMA SchedulingStep ==
    ASSUME TypeOK, Scheduling, Next
    PROVE  Scheduling'
<1> USE SMTT(30)
<1>1. ASSUME NEW c \in Cpu, Schedule(c) PROVE Scheduling'
  BY <1>1, Consts
  DEF Schedule, Scheduling, OneCpuPerProcess, OnCpu, Locks, InWaitLock,
      InTicksLock, Whereabouts, Inert, Exiting, Newborn, Forking, TypeOK
<1>2. ASSUME NEW c \in Cpu, TimerIdle(c) PROVE Scheduling'
  BY <1>2, Consts
  DEF TimerIdle, Ticked, AfterTick, Wakeup, Scheduling, OneCpuPerProcess,
      OnCpu, Locks, InWaitLock, InTicksLock, Whereabouts, Inert, Exiting,
      Newborn, Forking, TypeOK
<1>3. ASSUME NEW c \in Cpu, NEW p \in Proc, Timer(c, p) PROVE Scheduling'
  BY <1>3, TimerScheduling
<1>4. ASSUME NEW p \in Proc, Return(p) PROVE Scheduling'
  BY <1>4, Consts
  DEF Return, Goto, At, OnCpu, Scheduling, OneCpuPerProcess, Locks,
      InWaitLock, InTicksLock, Whereabouts, Inert, Exiting, Newborn,
      Forking, TypeOK
<1>5. ASSUME NEW p \in Proc, ForkParent(p) PROVE Scheduling'
  BY <1>5, Consts
  DEF ForkParent, Goto, At, OnCpu, Scheduling, OneCpuPerProcess, Locks,
      InWaitLock, InTicksLock, Whereabouts, Inert, Exiting, Newborn,
      Forking, TypeOK
<1>6. ASSUME NEW p \in Proc, ForkRun(p) PROVE Scheduling'
  BY <1>6, Consts
  DEF ForkRun, At, OnCpu, Scheduling, OneCpuPerProcess, Locks, InWaitLock,
      InTicksLock, Whereabouts, Inert, Exiting, Newborn, Forking, TypeOK
<1>7. ASSUME NEW p \in Proc, Reparent(p) PROVE Scheduling'
  BY <1>7, Consts
  DEF Reparent, Goto, Wakeup, At, OnCpu, Scheduling, OneCpuPerProcess,
      Locks, InWaitLock, InTicksLock, Whereabouts, Inert, Exiting, Newborn,
      Forking, TypeOK
<1>8. ASSUME NEW p \in Proc, ExitWakeup(p) PROVE Scheduling'
  BY <1>8, Consts
  DEF ExitWakeup, Goto, Wakeup, At, OnCpu, Scheduling, OneCpuPerProcess,
      Locks, InWaitLock, InTicksLock, Whereabouts, Inert, Exiting, Newborn,
      Forking, TypeOK
<1>9. ASSUME NEW p \in Proc, ExitZombie(p) PROVE Scheduling'
  BY <1>9, Consts
  DEF ExitZombie, Goto, SwitchAway, At, OnCpu, Scheduling, OneCpuPerProcess,
      Locks, InWaitLock, InTicksLock, Whereabouts, Inert, Exiting, Newborn,
      Forking, TypeOK
<1>10. ASSUME NEW p \in Proc, WaitLock(p) PROVE Scheduling'
  BY <1>10, Consts
  DEF WaitLock, Goto, At, OnCpu, Scheduling, OneCpuPerProcess, Locks,
      InWaitLock, InTicksLock, Whereabouts, Inert, Exiting, Newborn,
      Forking, TypeOK
<1>11. ASSUME NEW p \in Proc, WaitReap(p) PROVE Scheduling'
  BY <1>11, Consts, MinZombie
  DEF WaitReap, Goto, Freeproc, At, OnCpu, Scheduling, OneCpuPerProcess,
      Locks, InWaitLock, InTicksLock, Whereabouts, Inert, Exiting, Newborn,
      Forking, TypeOK
<1>12. ASSUME NEW p \in Proc, WaitNone(p) PROVE Scheduling'
  BY <1>12, Consts, MinZombie
  DEF WaitNone, Goto, At, OnCpu, Scheduling, OneCpuPerProcess, Locks,
      InWaitLock, InTicksLock, Whereabouts, Inert, Exiting, Newborn,
      Forking, TypeOK
<1>13. ASSUME NEW p \in Proc, WaitSleep(p) PROVE Scheduling'
  BY <1>13, Consts
  DEF WaitSleep, Goto, Sleep, SwitchAway, At, OnCpu, Scheduling,
      OneCpuPerProcess, Locks, InWaitLock, InTicksLock, Whereabouts, Inert,
      Exiting, Newborn, Forking, TypeOK
<1>14. ASSUME NEW p \in Proc, SleepCheck(p) PROVE Scheduling'
  BY <1>14, Consts
  DEF SleepCheck, Goto, At, OnCpu, Scheduling, OneCpuPerProcess, Locks,
      InWaitLock, InTicksLock, Whereabouts, Inert, Exiting, Newborn,
      Forking, TypeOK
<1>15. ASSUME NEW p \in Proc, SleepSleep(p) PROVE Scheduling'
  BY <1>15, Consts
  DEF SleepSleep, Goto, Sleep, SwitchAway, At, OnCpu, Scheduling,
      OneCpuPerProcess, Locks, InWaitLock, InTicksLock, Whereabouts, Inert,
      Exiting, Newborn, Forking, TypeOK
<1>16. ASSUME NEW p \in Proc, SleepLock(p) PROVE Scheduling'
  BY <1>16, Consts
  DEF SleepLock, Goto, At, OnCpu, Scheduling, OneCpuPerProcess, Locks,
      InWaitLock, InTicksLock, Whereabouts, Inert, Exiting, Newborn,
      Forking, TypeOK
<1>17. ASSUME NEW p \in Proc, TrapKilled(p) PROVE Scheduling'
  BY <1>17, Consts
  DEF TrapKilled, Goto, At, OnCpu, Scheduling, OneCpuPerProcess, Locks,
      InWaitLock, InTicksLock, Whereabouts, Inert, Exiting, Newborn,
      Forking, TypeOK
<1>18. ASSUME NEW p \in Proc, CowFault(p) PROVE Scheduling'
  BY <1>18, Consts
  DEF CowFault, Goto, At, OnCpu, Scheduling, OneCpuPerProcess, Locks,
      InWaitLock, InTicksLock, Whereabouts, Inert, Exiting, Newborn,
      Forking, TypeOK
<1>19. ASSUME NEW p \in Proc, Fork(p) PROVE Scheduling'
  BY <1>19, Consts, MinUnused
  DEF Fork, Goto, Enter, At, OnCpu, Scheduling, OneCpuPerProcess, Locks,
      InWaitLock, InTicksLock, Whereabouts, Inert, Exiting, Newborn,
      Forking, TypeOK
<1>20. ASSUME NEW p \in Proc, Exit(p) PROVE Scheduling'
  BY <1>20, Consts
  DEF Exit, Goto, Enter, At, OnCpu, Scheduling, OneCpuPerProcess, Locks,
      InWaitLock, InTicksLock, Whereabouts, Inert, Exiting, Newborn,
      Forking, TypeOK
<1>21. ASSUME NEW p \in Proc, Wait(p) PROVE Scheduling'
  BY <1>21, Consts
  DEF Wait, Goto, Enter, At, OnCpu, Scheduling, OneCpuPerProcess, Locks,
      InWaitLock, InTicksLock, Whereabouts, Inert, Exiting, Newborn,
      Forking, TypeOK
<1>22. ASSUME NEW p \in Proc, SysSleep(p) PROVE Scheduling'
  BY <1>22, Consts
  DEF SysSleep, Goto, Enter, At, OnCpu, Scheduling, OneCpuPerProcess, Locks,
      InWaitLock, InTicksLock, Whereabouts, Inert, Exiting, Newborn,
      Forking, TypeOK
<1>23. ASSUME NEW p \in Proc, Kill(p) PROVE Scheduling'
  BY <1>23, Consts, MinUnused
  DEF Kill, Goto, Rouse, Enter, At, OnCpu, Scheduling, OneCpuPerProcess,
      Locks, InWaitLock, InTicksLock, Whereabouts, Inert, Exiting, Newborn,
      Forking, TypeOK
<1>24. QED
  BY <1>1, <1>2, <1>3, <1>4, <1>5, <1>6, <1>7, <1>8, <1>9, <1>10, <1>11,
     <1>12, <1>13, <1>14, <1>15, <1>16, <1>17, <1>18, <1>19, <1>20, <1>21,
     <1>22, <1>23
  DEF Next, TimerInterrupt, KernelStep, UserStep

\* Every action keeps the relation of parents and children.  It rests on
\* wait_lock: from its scan to its sleep a parent excludes exit, and from
\* reparent to ZOMBIE an exiting process excludes wait.
LEMMA KinshipStep ==
    ASSUME TypeOK, Scheduling, Kinship, Next
    PROVE  Kinship'
<1> USE SMTT(30)
<1>1. ASSUME NEW c \in Cpu, Schedule(c) PROVE Kinship'
  BY <1>1, Consts
  DEF Schedule, Kinship, Family, ParentAlive, Waiters, Waiting, Zombies,
      Children, Scheduling, OneCpuPerProcess, Locks, InWaitLock,
      InTicksLock, Whereabouts, Inert, Exiting, Newborn, Forking, TypeOK
<1>2. ASSUME NEW c \in Cpu, TimerIdle(c) PROVE Kinship'
  BY <1>2, Consts
  DEF TimerIdle, Ticked, AfterTick, Wakeup, Kinship, Family, ParentAlive,
      Waiters, Waiting, Zombies, Children, Scheduling, OneCpuPerProcess,
      Locks, InWaitLock, InTicksLock, Whereabouts, Inert, Exiting, Newborn,
      Forking, TypeOK
<1>3. ASSUME NEW c \in Cpu, NEW p \in Proc, Timer(c, p) PROVE Kinship'
  BY <1>3, TimerKinship
<1>4. ASSUME NEW p \in Proc, Return(p) PROVE Kinship'
  BY <1>4, Consts
  DEF Return, Goto, At, OnCpu, Kinship, Family, ParentAlive, Waiters,
      Waiting, Zombies, Children, Scheduling, OneCpuPerProcess, Locks,
      InWaitLock, InTicksLock, Whereabouts, Inert, Exiting, Newborn,
      Forking, TypeOK
<1>5. ASSUME NEW p \in Proc, ForkParent(p) PROVE Kinship'
  BY <1>5, Consts
  DEF ForkParent, Goto, At, OnCpu, Kinship, Family, ParentAlive, Waiters,
      Waiting, Zombies, Children, Scheduling, OneCpuPerProcess, Locks,
      InWaitLock, InTicksLock, Whereabouts, Inert, Exiting, Newborn,
      Forking, TypeOK
<1>6. ASSUME NEW p \in Proc, ForkRun(p) PROVE Kinship'
  BY <1>6, Consts
  DEF ForkRun, At, OnCpu, Kinship, Family, ParentAlive, Waiters, Waiting,
      Zombies, Children, Scheduling, OneCpuPerProcess, Locks, InWaitLock,
      InTicksLock, Whereabouts, Inert, Exiting, Newborn, Forking, TypeOK
<1>7. ASSUME NEW p \in Proc, Reparent(p) PROVE Kinship'
  BY <1>7, ReparentKinship
<1>8. ASSUME NEW p \in Proc, ExitWakeup(p) PROVE Kinship'
  BY <1>8, Consts
  DEF ExitWakeup, Goto, Wakeup, At, OnCpu, Kinship, Family, ParentAlive,
      Waiters, Waiting, Zombies, Children, Scheduling, OneCpuPerProcess,
      Locks, InWaitLock, InTicksLock, Whereabouts, Inert, Exiting, Newborn,
      Forking, TypeOK
<1>9. ASSUME NEW p \in Proc, ExitZombie(p) PROVE Kinship'
  BY <1>9, Consts
  DEF ExitZombie, Goto, SwitchAway, At, OnCpu, Kinship, Family, ParentAlive,
      Waiters, Waiting, Zombies, Children, Scheduling, OneCpuPerProcess,
      Locks, InWaitLock, InTicksLock, Whereabouts, Inert, Exiting, Newborn,
      Forking, TypeOK
<1>10. ASSUME NEW p \in Proc, WaitLock(p) PROVE Kinship'
  BY <1>10, Consts
  DEF WaitLock, Goto, At, OnCpu, Kinship, Family, ParentAlive, Waiters,
      Waiting, Zombies, Children, Scheduling, OneCpuPerProcess, Locks,
      InWaitLock, InTicksLock, Whereabouts, Inert, Exiting, Newborn,
      Forking, TypeOK
<1>11. ASSUME NEW p \in Proc, WaitReap(p) PROVE Kinship'
  BY <1>11, WaitReapKinship
<1>12. ASSUME NEW p \in Proc, WaitNone(p) PROVE Kinship'
  BY <1>12, Consts, MinZombie
  DEF WaitNone, Goto, At, OnCpu, Kinship, Family, ParentAlive, Waiters,
      Waiting, Zombies, Children, Scheduling, OneCpuPerProcess, Locks,
      InWaitLock, InTicksLock, Whereabouts, Inert, Exiting, Newborn,
      Forking, TypeOK
<1>13. ASSUME NEW p \in Proc, WaitSleep(p) PROVE Kinship'
  BY <1>13, Consts
  DEF WaitSleep, Goto, Sleep, SwitchAway, At, OnCpu, Kinship, Family,
      ParentAlive, Waiters, Waiting, Zombies, Children, Scheduling,
      OneCpuPerProcess, Locks, InWaitLock, InTicksLock, Whereabouts, Inert,
      Exiting, Newborn, Forking, TypeOK
<1>14. ASSUME NEW p \in Proc, SleepCheck(p) PROVE Kinship'
  BY <1>14, Consts
  DEF SleepCheck, Goto, At, OnCpu, Kinship, Family, ParentAlive, Waiters,
      Waiting, Zombies, Children, Scheduling, OneCpuPerProcess, Locks,
      InWaitLock, InTicksLock, Whereabouts, Inert, Exiting, Newborn,
      Forking, TypeOK
<1>15. ASSUME NEW p \in Proc, SleepSleep(p) PROVE Kinship'
  BY <1>15, Consts
  DEF SleepSleep, Goto, Sleep, SwitchAway, At, OnCpu, Kinship, Family,
      ParentAlive, Waiters, Waiting, Zombies, Children, Scheduling,
      OneCpuPerProcess, Locks, InWaitLock, InTicksLock, Whereabouts, Inert,
      Exiting, Newborn, Forking, TypeOK
<1>16. ASSUME NEW p \in Proc, SleepLock(p) PROVE Kinship'
  BY <1>16, Consts
  DEF SleepLock, Goto, At, OnCpu, Kinship, Family, ParentAlive, Waiters,
      Waiting, Zombies, Children, Scheduling, OneCpuPerProcess, Locks,
      InWaitLock, InTicksLock, Whereabouts, Inert, Exiting, Newborn,
      Forking, TypeOK
<1>17. ASSUME NEW p \in Proc, TrapKilled(p) PROVE Kinship'
  BY <1>17, Consts
  DEF TrapKilled, Goto, At, OnCpu, Kinship, Family, ParentAlive, Waiters,
      Waiting, Zombies, Children, Scheduling, OneCpuPerProcess, Locks,
      InWaitLock, InTicksLock, Whereabouts, Inert, Exiting, Newborn,
      Forking, TypeOK
<1>18. ASSUME NEW p \in Proc, CowFault(p) PROVE Kinship'
  BY <1>18, Consts
  DEF CowFault, Goto, At, OnCpu, Kinship, Family, ParentAlive, Waiters,
      Waiting, Zombies, Children, Scheduling, OneCpuPerProcess, Locks,
      InWaitLock, InTicksLock, Whereabouts, Inert, Exiting, Newborn,
      Forking, TypeOK
<1>19. ASSUME NEW p \in Proc, Fork(p) PROVE Kinship'
  BY <1>19, Consts, MinUnused
  DEF Fork, Goto, Enter, At, OnCpu, Kinship, Family, ParentAlive, Waiters,
      Waiting, Zombies, Children, Scheduling, OneCpuPerProcess, Locks,
      InWaitLock, InTicksLock, Whereabouts, Inert, Exiting, Newborn,
      Forking, TypeOK
<1>20. ASSUME NEW p \in Proc, Exit(p) PROVE Kinship'
  BY <1>20, Consts
  DEF Exit, Goto, Enter, At, OnCpu, Kinship, Family, ParentAlive, Waiters,
      Waiting, Zombies, Children, Scheduling, OneCpuPerProcess, Locks,
      InWaitLock, InTicksLock, Whereabouts, Inert, Exiting, Newborn,
      Forking, TypeOK
<1>21. ASSUME NEW p \in Proc, Wait(p) PROVE Kinship'
  BY <1>21, Consts
  DEF Wait, Goto, Enter, At, OnCpu, Kinship, Family, ParentAlive, Waiters,
      Waiting, Zombies, Children, Scheduling, OneCpuPerProcess, Locks,
      InWaitLock, InTicksLock, Whereabouts, Inert, Exiting, Newborn,
      Forking, TypeOK
<1>22. ASSUME NEW p \in Proc, SysSleep(p) PROVE Kinship'
  BY <1>22, Consts
  DEF SysSleep, Goto, Enter, At, OnCpu, Kinship, Family, ParentAlive,
      Waiters, Waiting, Zombies, Children, Scheduling, OneCpuPerProcess,
      Locks, InWaitLock, InTicksLock, Whereabouts, Inert, Exiting, Newborn,
      Forking, TypeOK
<1>23. ASSUME NEW p \in Proc, Kill(p) PROVE Kinship'
  BY <1>23, Consts, MinUnused
  DEF Kill, Goto, Rouse, Enter, At, OnCpu, Kinship, Family, ParentAlive,
      Waiters, Waiting, Zombies, Children, Scheduling, OneCpuPerProcess,
      Locks, InWaitLock, InTicksLock, Whereabouts, Inert, Exiting, Newborn,
      Forking, TypeOK
<1>24. QED
  BY <1>1, <1>2, <1>3, <1>4, <1>5, <1>6, <1>7, <1>8, <1>9, <1>10, <1>11,
     <1>12, <1>13, <1>14, <1>15, <1>16, <1>17, <1>18, <1>19, <1>20, <1>21,
     <1>22, <1>23
  DEF Next, TimerInterrupt, KernelStep, UserStep

\* Every action keeps what is known of sleepers on ticks, and of free slots.
\* ticks changes only while tickslock is free, so not between the test of a
\* sleeper and its sleep.
LEMMA SleepStep ==
    ASSUME TypeOK, Scheduling, Sleepers, Clean, Next
    PROVE  (Sleepers /\ Clean)'
<1> USE SMTT(30)
<1>1. ASSUME NEW c \in Cpu, Schedule(c) PROVE (Sleepers /\ Clean)'
  BY <1>1, Consts
  DEF Schedule, Sleepers, Clean, Unused, Scheduling, OneCpuPerProcess,
      Locks, InWaitLock, InTicksLock, Whereabouts, Inert, Exiting, Newborn,
      Forking, TypeOK
<1>2. ASSUME NEW c \in Cpu, TimerIdle(c) PROVE (Sleepers /\ Clean)'
  BY <1>2, Consts
  DEF TimerIdle, Ticked, AfterTick, Wakeup, Sleepers, Clean, Unused,
      Scheduling, OneCpuPerProcess, Locks, InWaitLock, InTicksLock,
      Whereabouts, Inert, Exiting, Newborn, Forking, TypeOK
<1>3. ASSUME NEW c \in Cpu, NEW p \in Proc, Timer(c, p) PROVE (Sleepers /\ Clean)'
  BY <1>3, TimerSleep
<1>4. ASSUME NEW p \in Proc, Return(p) PROVE (Sleepers /\ Clean)'
  BY <1>4, Consts
  DEF Return, Goto, At, OnCpu, Sleepers, Clean, Unused, Scheduling,
      OneCpuPerProcess, Locks, InWaitLock, InTicksLock, Whereabouts, Inert,
      Exiting, Newborn, Forking, TypeOK
<1>5. ASSUME NEW p \in Proc, ForkParent(p) PROVE (Sleepers /\ Clean)'
  BY <1>5, Consts
  DEF ForkParent, Goto, At, OnCpu, Sleepers, Clean, Unused, Scheduling,
      OneCpuPerProcess, Locks, InWaitLock, InTicksLock, Whereabouts, Inert,
      Exiting, Newborn, Forking, TypeOK
<1>6. ASSUME NEW p \in Proc, ForkRun(p) PROVE (Sleepers /\ Clean)'
  BY <1>6, Consts
  DEF ForkRun, At, OnCpu, Sleepers, Clean, Unused, Scheduling,
      OneCpuPerProcess, Locks, InWaitLock, InTicksLock, Whereabouts, Inert,
      Exiting, Newborn, Forking, TypeOK
<1>7. ASSUME NEW p \in Proc, Reparent(p) PROVE (Sleepers /\ Clean)'
  BY <1>7, Consts
  DEF Reparent, Goto, Wakeup, At, OnCpu, Sleepers, Clean, Unused,
      Scheduling, OneCpuPerProcess, Locks, InWaitLock, InTicksLock,
      Whereabouts, Inert, Exiting, Newborn, Forking, TypeOK
<1>8. ASSUME NEW p \in Proc, ExitWakeup(p) PROVE (Sleepers /\ Clean)'
  BY <1>8, Consts
  DEF ExitWakeup, Goto, Wakeup, At, OnCpu, Sleepers, Clean, Unused,
      Scheduling, OneCpuPerProcess, Locks, InWaitLock, InTicksLock,
      Whereabouts, Inert, Exiting, Newborn, Forking, TypeOK
<1>9. ASSUME NEW p \in Proc, ExitZombie(p) PROVE (Sleepers /\ Clean)'
  BY <1>9, Consts
  DEF ExitZombie, Goto, SwitchAway, At, OnCpu, Sleepers, Clean, Unused,
      Scheduling, OneCpuPerProcess, Locks, InWaitLock, InTicksLock,
      Whereabouts, Inert, Exiting, Newborn, Forking, TypeOK
<1>10. ASSUME NEW p \in Proc, WaitLock(p) PROVE (Sleepers /\ Clean)'
  BY <1>10, Consts
  DEF WaitLock, Goto, At, OnCpu, Sleepers, Clean, Unused, Scheduling,
      OneCpuPerProcess, Locks, InWaitLock, InTicksLock, Whereabouts, Inert,
      Exiting, Newborn, Forking, TypeOK
<1>11. ASSUME NEW p \in Proc, WaitReap(p) PROVE (Sleepers /\ Clean)'
  BY <1>11, Consts, MinZombie
  DEF WaitReap, Goto, Freeproc, At, OnCpu, Sleepers, Clean, Unused,
      Scheduling, OneCpuPerProcess, Locks, InWaitLock, InTicksLock,
      Whereabouts, Inert, Exiting, Newborn, Forking, TypeOK
<1>12. ASSUME NEW p \in Proc, WaitNone(p) PROVE (Sleepers /\ Clean)'
  BY <1>12, Consts, MinZombie
  DEF WaitNone, Goto, At, OnCpu, Sleepers, Clean, Unused, Scheduling,
      OneCpuPerProcess, Locks, InWaitLock, InTicksLock, Whereabouts, Inert,
      Exiting, Newborn, Forking, TypeOK
<1>13. ASSUME NEW p \in Proc, WaitSleep(p) PROVE (Sleepers /\ Clean)'
  BY <1>13, Consts
  DEF WaitSleep, Goto, Sleep, SwitchAway, At, OnCpu, Sleepers, Clean,
      Unused, Scheduling, OneCpuPerProcess, Locks, InWaitLock, InTicksLock,
      Whereabouts, Inert, Exiting, Newborn, Forking, TypeOK
<1>14. ASSUME NEW p \in Proc, SleepCheck(p) PROVE (Sleepers /\ Clean)'
  BY <1>14, Consts
  DEF SleepCheck, Goto, At, OnCpu, Sleepers, Clean, Unused, Scheduling,
      OneCpuPerProcess, Locks, InWaitLock, InTicksLock, Whereabouts, Inert,
      Exiting, Newborn, Forking, TypeOK
<1>15. ASSUME NEW p \in Proc, SleepSleep(p) PROVE (Sleepers /\ Clean)'
  BY <1>15, Consts
  DEF SleepSleep, Goto, Sleep, SwitchAway, At, OnCpu, Sleepers, Clean,
      Unused, Scheduling, OneCpuPerProcess, Locks, InWaitLock, InTicksLock,
      Whereabouts, Inert, Exiting, Newborn, Forking, TypeOK
<1>16. ASSUME NEW p \in Proc, SleepLock(p) PROVE (Sleepers /\ Clean)'
  BY <1>16, Consts
  DEF SleepLock, Goto, At, OnCpu, Sleepers, Clean, Unused, Scheduling,
      OneCpuPerProcess, Locks, InWaitLock, InTicksLock, Whereabouts, Inert,
      Exiting, Newborn, Forking, TypeOK
<1>17. ASSUME NEW p \in Proc, TrapKilled(p) PROVE (Sleepers /\ Clean)'
  BY <1>17, Consts
  DEF TrapKilled, Goto, At, OnCpu, Sleepers, Clean, Unused, Scheduling,
      OneCpuPerProcess, Locks, InWaitLock, InTicksLock, Whereabouts, Inert,
      Exiting, Newborn, Forking, TypeOK
<1>18. ASSUME NEW p \in Proc, CowFault(p) PROVE (Sleepers /\ Clean)'
  BY <1>18, Consts
  DEF CowFault, Goto, At, OnCpu, Sleepers, Clean, Unused, Scheduling,
      OneCpuPerProcess, Locks, InWaitLock, InTicksLock, Whereabouts, Inert,
      Exiting, Newborn, Forking, TypeOK
<1>19. ASSUME NEW p \in Proc, Fork(p) PROVE (Sleepers /\ Clean)'
  BY <1>19, Consts, MinUnused
  DEF Fork, Goto, Enter, At, OnCpu, Sleepers, Clean, Unused, Scheduling,
      OneCpuPerProcess, Locks, InWaitLock, InTicksLock, Whereabouts, Inert,
      Exiting, Newborn, Forking, TypeOK
<1>20. ASSUME NEW p \in Proc, Exit(p) PROVE (Sleepers /\ Clean)'
  BY <1>20, Consts
  DEF Exit, Goto, Enter, At, OnCpu, Sleepers, Clean, Unused, Scheduling,
      OneCpuPerProcess, Locks, InWaitLock, InTicksLock, Whereabouts, Inert,
      Exiting, Newborn, Forking, TypeOK
<1>21. ASSUME NEW p \in Proc, Wait(p) PROVE (Sleepers /\ Clean)'
  BY <1>21, Consts
  DEF Wait, Goto, Enter, At, OnCpu, Sleepers, Clean, Unused, Scheduling,
      OneCpuPerProcess, Locks, InWaitLock, InTicksLock, Whereabouts, Inert,
      Exiting, Newborn, Forking, TypeOK
<1>22. ASSUME NEW p \in Proc, SysSleep(p) PROVE (Sleepers /\ Clean)'
  BY <1>22, Consts
  DEF SysSleep, Goto, Enter, At, OnCpu, Sleepers, Clean, Unused, Scheduling,
      OneCpuPerProcess, Locks, InWaitLock, InTicksLock, Whereabouts, Inert,
      Exiting, Newborn, Forking, TypeOK
<1>23. ASSUME NEW p \in Proc, Kill(p) PROVE (Sleepers /\ Clean)'
  BY <1>23, Consts, MinUnused
  DEF Kill, Goto, Rouse, Enter, At, OnCpu, Sleepers, Clean, Unused,
      Scheduling, OneCpuPerProcess, Locks, InWaitLock, InTicksLock,
      Whereabouts, Inert, Exiting, Newborn, Forking, TypeOK
<1>24. QED
  BY <1>1, <1>2, <1>3, <1>4, <1>5, <1>6, <1>7, <1>8, <1>9, <1>10, <1>11,
     <1>12, <1>13, <1>14, <1>15, <1>16, <1>17, <1>18, <1>19, <1>20, <1>21,
     <1>22, <1>23
  DEF Next, TimerInterrupt, KernelStep, UserStep
-----------------------------------------------------------------------------
LEMMA InitIInv == Init => IInv
<1> SUFFICES ASSUME Init PROVE IInv OBVIOUS
<1> USE Consts DEF Init
<1>1. TypeOK
  <2>1. 1 \in Proc BY DEF initproc
  <2>2. killed \in [Proc -> BOOLEAN] OBVIOUS
  <2>3. QED BY <2>1, <2>2 DEF TypeOK, Pcs
<1>2. Scheduling
  BY DEF Scheduling, OneCpuPerProcess, OnCpu, Locks, InWaitLock, InTicksLock,
         Whereabouts, Inert, Exiting, Newborn, Forking
<1>3. Kinship
  BY DEF Kinship, Family, Children, ParentAlive, Waiters, Waiting
<1>4. Sleepers /\ Clean BY DEF Sleepers, Clean, Unused
<1>5. QED BY <1>1, <1>2, <1>3, <1>4 DEF IInv

\* IInv is inductive.
THEOREM IInvHolds == Spec => []IInv
<1>1. Init => IInv BY InitIInv
<1>2. IInv /\ [Next]_vars => IInv'
  <2> SUFFICES ASSUME IInv, [Next]_vars PROVE IInv' OBVIOUS
  <2>1. CASE Next
    BY <2>1, TypeStep, SchedulingStep, KinshipStep, SleepStep DEF IInv, Scheduling
  <2>2. CASE UNCHANGED vars
    <3>a. state' = state /\ cproc' = cproc /\ pc' = pc /\ np' = np
      BY <2>2 DEF vars
    <3>b. parent' = parent /\ chan' = chan /\ killed' = killed /\ left' = left
      BY <2>2 DEF vars
    <3>c. /\ idx' = idx /\ wait_lock' = wait_lock
          /\ tickslock' = tickslock /\ shell' = shell
      BY <2>2 DEF vars
    <3>1. TypeOK'
      BY <3>a, <3>b, <3>c DEF IInv, TypeOK
    <3>2. OneCpuPerProcess'
      BY <3>a DEF IInv, Scheduling, OneCpuPerProcess, OnCpu
    <3>3. Locks'
      BY <3>a, <3>c DEF IInv, Scheduling, Locks
    <3>4. Whereabouts' /\ Newborn'
      BY <3>a, <3>b DEF IInv, Scheduling, Whereabouts, Newborn
    <3>5. Family' /\ ParentAlive'
      BY <3>a, <3>b DEF IInv, Kinship, Family, Children, ParentAlive
    <3>6. Waiters'
      BY <3>a, <3>b DEF IInv, Kinship, Waiters, Waiting, Children, Zombies
    <3>7. Sleepers' /\ Clean'
      BY <3>a, <3>b DEF IInv, Sleepers, Clean, Unused
    <3>8. QED
      BY <3>1, <3>2, <3>3, <3>4, <3>5, <3>6, <3>7 DEF IInv, Scheduling, Kinship
  <2>3. QED BY <2>1, <2>2
<1>3. QED BY <1>1, <1>2, PTL DEF Spec
-----------------------------------------------------------------------------
\* Every variable of the process table keeps its type; sys_sleep never counts
\* below zero.
THEOREM TypeCorrect == Spec => []TypeOK
<1>1. IInv => TypeOK BY DEF IInv
<1>2. QED BY <1>1, IInvHolds, PTL

\* The scheduler loops of any number of CPUs never run one process twice, and
\* p->state is RUNNING exactly while some CPU runs p.
THEOREM NeverOnTwoCpus == Spec => []OneCpuPerProcess
<1>1. IInv => OneCpuPerProcess BY DEF IInv, Scheduling
<1>2. QED BY <1>1, IInvHolds, PTL

\* No process leaves its CPU holding wait_lock or tickslock, so sched() never
\* panics with "sched locks" for them.
THEOREM LockHoldersRun == Spec => []SpinlockHolderRuns
<1>1. IInv => SpinlockHolderRuns
  BY DEF IInv, Scheduling, Locks, SpinlockHolderRuns
<1>2. QED BY <1>1, IInvHolds, PTL

\* wait() loses no wakeup of exit(), whatever the interleaving.
THEOREM NoLostExit == Spec => []WaiterNotForgotten
<1>1. IInv => WaiterNotForgotten
  BY DEF IInv, Kinship, Waiters, Waiting, WaiterNotForgotten
<1>2. QED BY <1>1, IInvHolds, PTL

\* fork, exit and wait leave no process without a parent that can reap it.
THEOREM NoOrphans == Spec => []ParentAlive
<1>1. IInv => ParentAlive BY DEF IInv, Kinship
<1>2. QED BY <1>1, IInvHolds, PTL

\* sys_sleep loses no tick.
THEOREM NoLostTick == Spec => []NoOversleep
<1>1. IInv => NoOversleep BY DEF IInv, Sleepers, NoOversleep
<1>2. QED BY <1>1, IInvHolds, PTL

\* freeproc leaves nothing behind for the next process in the slot, as long
\* as nobody calls kill(0).
THEOREM FreeSlotsClean == ~KillZero => (Spec => []UnusedIsClean)
<1> SUFFICES ASSUME ~KillZero PROVE Spec => []UnusedIsClean
  OBVIOUS
<1>1. IInv => UnusedIsClean
  BY DEF IInv, Clean, UnusedIsClean, Unused, Scheduling, Whereabouts, Kinship, Family
<1>2. QED BY <1>1, IInvHolds, PTL
=============================================================================
