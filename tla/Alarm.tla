-------------------------------- MODULE Alarm ------------------------------
(***************************************************************************)
(* sigalarm and sigreturn for one process: the timer tick that diverts the *)
(* process to its handler, the page that keeps the interrupted trapframe,  *)
(* and the way back.  Other processes take and free pages meanwhile.       *)
(*                                                                         *)
(* The program keeps to what alarmtest.c does: a handler ends in           *)
(* sigreturn, which nothing else calls, and may turn the alarm off but not *)
(* set it again.                                                           *)
(*                                                                         *)
(* An operator that no action uses and that stands just before one of the  *)
(* same parameters is a deliberate fault, used to test the properties.     *)
(***************************************************************************)
EXTENDS Integers

CONSTANTS NPages, Intervals,
          MaxTicks,   \* bound on current_ticks
          MaxWork     \* the program's position counts up to this

ASSUME AlarmAssumption ==
    NPages \in Nat /\ Intervals \subseteq Nat /\ MaxTicks \in Nat /\ MaxWork \in Nat

VARIABLES
    p_ticks, current_ticks, sigalarm,  \* fields of struct proc
    frame,  \* the trapframe: in the program or its handler, and where
    work,   \* history: how far the program has come
    owner,  \* what each page is used for
    saved   \* what each page holds

alarm == <<p_ticks, current_ticks, sigalarm>>
alarmVars == <<alarm, frame, work, owner, saved>>

Pages == 1 .. NPages
NoSave == 0
Main(n) == [in |-> "main", at |-> n]
Handler == [in |-> "handler", at |-> 0]

AlarmInit ==
    /\ p_ticks = 0 /\ current_ticks = 0 /\ sigalarm = NoSave
    /\ frame = Main(0) /\ work = 0
    /\ owner = [x \in Pages |-> "free"] /\ saved = [x \in Pages |-> Handler]

\* The program, or its handler, runs on.
Work ==
    /\ frame.in = "main" /\ frame.at < MaxWork
    /\ frame' = Main(frame.at + 1) /\ work' = work + 1
    /\ UNCHANGED <<alarm, owner, saved>>

Sigalarm(n) ==
    /\ frame.in = "handler" => n = 0
    /\ current_ticks' = 0 /\ p_ticks' = n
    /\ UNCHANGED <<sigalarm, frame, work, owner, saved>>

DueLate == current_ticks >= p_ticks + 1
Due == current_ticks = p_ticks + 1

\* usertrap on a timer interrupt, with the alarm set.  When kalloc fails the
\* handler is not called, and current_ticks has passed the test for good.
TimerTick ==
    /\ p_ticks # 0 /\ current_ticks < MaxTicks /\ current_ticks' = current_ticks + 1
    /\ \/ /\ Due
          /\ \E x \in Pages :
                /\ owner[x] = "free" /\ owner' = [owner EXCEPT ![x] = "alarm"]
                /\ saved' = [saved EXCEPT ![x] = frame] /\ frame' = Handler
                /\ sigalarm' = x
       \/ /\ Due /\ \A x \in Pages : owner[x] # "free"
          /\ sigalarm' = NoSave /\ UNCHANGED <<frame, owner, saved>>
       \/ ~Due /\ UNCHANGED <<sigalarm, frame, owner, saved>>
    /\ UNCHANGED <<p_ticks, work>>

\* p->sigalarm keeps pointing to the freed page.
Sigreturn ==
    /\ frame.in = "handler"
    /\ frame' = saved[sigalarm] /\ owner' = [owner EXCEPT ![sigalarm] = "free"]
    /\ current_ticks' = 0
    /\ UNCHANGED <<p_ticks, sigalarm, work, saved>>

\* The process ends and its slot is used again.  freeproc forgets the page
\* of a handler that has not returned without freeing it.
AlarmExit ==
    /\ p_ticks' = 0 /\ current_ticks' = 0 /\ sigalarm' = NoSave
    /\ frame' = Main(0) /\ work' = 0
    /\ UNCHANGED <<owner, saved>>

\* Another process takes a page and writes to it, or frees it.
OtherTakes(x) ==
    /\ owner[x] = "free" /\ owner' = [owner EXCEPT ![x] = "other"]
    /\ saved' = [saved EXCEPT ![x] = Handler]
    /\ UNCHANGED <<alarm, frame, work>>
OtherFrees(x) ==
    /\ owner[x] = "other" /\ owner' = [owner EXCEPT ![x] = "free"]
    /\ UNCHANGED <<alarm, frame, work, saved>>

AlarmNext ==
    \/ Work \/ TimerTick \/ Sigreturn \/ AlarmExit
    \/ \E n \in Intervals : Sigalarm(n)
    \/ \E x \in Pages : OtherTakes(x) \/ OtherFrees(x)

AlarmSpec == AlarmInit /\ [][AlarmNext]_alarmVars

---------------------------------------------------------------------------

\* The alarm is invisible to the program it interrupts: while the handler
\* runs, however many ticks pass, the page sigreturn will read is still the
\* process's own and holds the place where the program was interrupted, and
\* back in the program it is where it left off.
AlarmResumes ==
    IF frame.in = "main" THEN frame = Main(work)
    ELSE /\ sigalarm # NoSave /\ owner[sigalarm] = "alarm"
         /\ saved[sigalarm] = Main(work)
=============================================================================
