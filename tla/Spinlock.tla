------------------------------ MODULE Spinlock -----------------------------
(***************************************************************************)
(* spinlock.c on CPUs that take interrupts: acquire and release in the     *)
(* order of their stores, push_off and pop_off, and code that takes locks  *)
(* in a fixed order, in processes and in interrupt handlers.               *)
(*                                                                         *)
(* An operator that no action uses and that stands just before one of the  *)
(* same parameters is a deliberate fault, used to test the properties.     *)
(***************************************************************************)
EXTENDS Integers, FiniteSets

CONSTANTS Harts, NLocks

NoCpu == 0

ASSUME SpinAssumption == NLocks \in Nat /\ NoCpu \notin Harts

VARIABLES
    slocked, scpu,     \* locked and cpu of each lock
    intr,              \* intr_get() of each CPU
    noff, intena,      \* the fields of struct cpu
    spc, swant, sold,  \* where its code is in acquire or release, the lock, and
                       \* push_off's old
    handler, below,    \* an interrupt handler runs; the code it interrupted
    held,              \* history: the locks the CPU has
    lpanic

locks == <<slocked, scpu>>
code == <<spc, swant, sold>>
traps == <<handler, below>>
spinVars == <<locks, intr, noff, intena, code, traps, held, lpanic>>

SLocks == 1 .. NLocks
NoCode == [pc |-> "idle", want |-> 1, old |-> FALSE]

\* started: interrupts are on, no lock is held.
SpinInit ==
    /\ slocked = [l \in SLocks |-> FALSE] /\ scpu = [l \in SLocks |-> NoCpu]
    /\ intr = [c \in Harts |-> TRUE]
    /\ noff = [c \in Harts |-> 0] /\ intena = [c \in Harts |-> FALSE]
    /\ spc = [c \in Harts |-> "idle"] /\ swant = [c \in Harts |-> 1]
    /\ sold = [c \in Harts |-> FALSE]
    /\ handler = [c \in Harts |-> FALSE] /\ below = [c \in Harts |-> NoCode]
    /\ held = [c \in Harts |-> {}]
    /\ lpanic = FALSE

Holding(c, l) == slocked[l] /\ scpu[l] = c
Goes(c, from, to) == spc[c] = from /\ spc' = [spc EXCEPT ![c] = to]

\* push_off reads whether interrupts are on ...
AcquireBegins(c, l) ==
    /\ \A x \in held[c] : x < l
    /\ Goes(c, "idle", "off")
    /\ swant' = [swant EXCEPT ![c] = l] /\ sold' = [sold EXCEPT ![c] = intr[c]]
    /\ UNCHANGED <<locks, intr, noff, intena, traps, held, lpanic>>

IntenaAlways(c) == sold[c]
Intena(c) == IF noff[c] = 0 THEN sold[c] ELSE intena[c]

\* ... and turns them off; then acquire must not hold the lock already.
PushOff(c) ==
    /\ Goes(c, "off", "swap")
    /\ intr' = [intr EXCEPT ![c] = FALSE]
    /\ intena' = [intena EXCEPT ![c] = Intena(c)]
    /\ noff' = [noff EXCEPT ![c] = @ + 1]
    /\ lpanic' = (lpanic \/ Holding(c, swant[c]))
    /\ UNCHANGED <<locks, swant, sold, traps, held>>

Swap(c) ==
    /\ Goes(c, "swap", "own")
    /\ ~slocked[swant[c]] /\ slocked' = [slocked EXCEPT ![swant[c]] = TRUE]
    /\ UNCHANGED <<scpu, intr, noff, intena, swant, sold, traps, held, lpanic>>

Own(c) ==
    /\ Goes(c, "own", "idle")
    /\ scpu' = [scpu EXCEPT ![swant[c]] = c]
    /\ held' = [held EXCEPT ![c] = @ \cup {swant[c]}]
    /\ UNCHANGED <<slocked, intr, noff, intena, swant, sold, traps, lpanic>>

ReleaseBegins(c, l) ==
    /\ l \in held[c]
    /\ Goes(c, "idle", "unlock") /\ swant' = [swant EXCEPT ![c] = l]
    /\ scpu' = [scpu EXCEPT ![l] = NoCpu]
    /\ lpanic' = (lpanic \/ ~Holding(c, l))
    /\ UNCHANGED <<slocked, intr, noff, intena, sold, traps, held>>

Unlock(c) ==
    /\ Goes(c, "unlock", "pop")
    /\ slocked' = [slocked EXCEPT ![swant[c]] = FALSE]
    /\ held' = [held EXCEPT ![c] = @ \ {swant[c]}]
    /\ UNCHANGED <<scpu, intr, noff, intena, swant, sold, traps, lpanic>>

PopOff(c) ==
    /\ Goes(c, "pop", "idle")
    /\ noff' = [noff EXCEPT ![c] = @ - 1]
    /\ intr' = [intr EXCEPT ![c] = @ \/ (noff[c] = 1 /\ intena[c])]
    /\ lpanic' = (lpanic \/ intr[c] \/ noff[c] < 1)
    /\ UNCHANGED <<locks, intena, swant, sold, traps, held>>

\* A trap turns interrupts off until sret.
Interrupt(c) ==
    /\ intr[c] /\ ~handler[c]
    /\ intr' = [intr EXCEPT ![c] = FALSE] /\ handler' = [handler EXCEPT ![c] = TRUE]
    /\ below' = [below EXCEPT ![c] = [pc |-> spc[c], want |-> swant[c], old |-> sold[c]]]
    /\ spc' = [spc EXCEPT ![c] = "idle"] /\ swant' = [swant EXCEPT ![c] = 1]
    /\ sold' = [sold EXCEPT ![c] = FALSE]
    /\ UNCHANGED <<locks, noff, intena, held, lpanic>>

InterruptReturns(c) ==
    /\ handler[c] /\ held[c] = {}
    /\ Goes(c, "idle", below[c].pc)
    /\ swant' = [swant EXCEPT ![c] = below[c].want]
    /\ sold' = [sold EXCEPT ![c] = below[c].old]
    /\ intr' = [intr EXCEPT ![c] = TRUE] /\ handler' = [handler EXCEPT ![c] = FALSE]
    /\ below' = [below EXCEPT ![c] = NoCode]
    /\ UNCHANGED <<locks, noff, intena, held, lpanic>>

SpinNext ==
    \E c \in Harts :
        \/ PushOff(c) \/ Swap(c) \/ Own(c) \/ Unlock(c) \/ PopOff(c)
        \/ Interrupt(c) \/ InterruptReturns(c)
        \/ \E l \in SLocks : AcquireBegins(c, l) \/ ReleaseBegins(c, l)

SpinSpec == SpinInit /\ [][SpinNext]_spinVars

---------------------------------------------------------------------------

\* The locks and the interrupts go together: two CPUs never have the same
\* lock, no handler runs on a CPU that has one (it might want it: "acquire"
\* would panic or spin for ever), and once a CPU has released all its locks
\* its interrupts are again as they were before the first, whatever handlers
\* ran between the steps of push_off.
LocksMaskInterrupts ==
    /\ ~lpanic
    /\ \A c, d \in Harts : c # d => held[c] \cap held[d] = {}
    /\ \A c \in Harts :
         /\ held[c] # {} => ~intr[c]
         /\ spc[c] = "idle" /\ held[c] = {} => intr[c] = ~handler[c]
=============================================================================
