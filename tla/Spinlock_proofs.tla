-------------------------- MODULE Spinlock_proofs ---------------------------
(***************************************************************************)
(* Proof that LocksMaskInterrupts holds for any number of CPUs and locks.  *)
(***************************************************************************)
EXTENDS Spinlock, FiniteSetTheorems, TLAPS

Pc == {"idle", "off", "swap", "own", "unlock", "pop"}

SpinTypes ==
    /\ slocked \in [SLocks -> BOOLEAN] /\ scpu \in [SLocks -> Harts \cup {NoCpu}]
    /\ intr \in [Harts -> BOOLEAN] /\ intena \in [Harts -> BOOLEAN]
    /\ noff \in [Harts -> Int]
    /\ spc \in [Harts -> Pc] /\ swant \in [Harts -> Nat] /\ sold \in [Harts -> BOOLEAN]
    /\ handler \in [Harts -> BOOLEAN]
    /\ below \in [Harts -> [pc : Pc, want : Nat, old : BOOLEAN]]
    /\ held \in [Harts -> SUBSET SLocks]
    /\ lpanic \in BOOLEAN

\* noff counts the locks a CPU has and the one it is about to get or has just
\* given up.
InBetween(c) == IF spc[c] \in {"swap", "own", "pop"} THEN 1 ELSE 0
Depth(c) == noff[c] = Cardinality(held[c]) + InBetween(c)

\* Interrupts are off inside push_off and pop_off, and intena remembers what
\* they were outside.
Masked(c) ==
    /\ noff[c] > 0 => ~intr[c] /\ (intena[c] <=> ~handler[c])
    /\ noff[c] = 0 => (intr[c] <=> ~handler[c])
    /\ spc[c] = "off" => (sold[c] <=> intr[c])
    /\ handler[c] => /\ below[c].pc \in {"idle", "off"}
                     /\ below[c].pc = "off" => below[c].old /\ below[c].want \in SLocks

\* The lock that acquire or release works on.
InHand(c) ==
    /\ spc[c] # "idle" => swant[c] \in SLocks
    /\ spc[c] \in {"off", "swap", "own"} => swant[c] \notin held[c]
    /\ spc[c] = "unlock" => swant[c] \in held[c]

Has(c, l) == l \in held[c] \/ (spc[c] = "own" /\ swant[c] = l)

\* A locked lock has one owner, which lk->cpu names except at both ends.
OwnersAgree ==
    /\ \A c \in Harts, l \in SLocks : Has(c, l) => slocked[l]
    /\ \A c, d \in Harts, l \in SLocks : Has(c, l) /\ Has(d, l) => c = d
    /\ \A c \in Harts, l \in SLocks :
          scpu[l] = c => l \in held[c] /\ ~(spc[c] = "unlock" /\ swant[c] = l)
    /\ \A c \in Harts : \A l \in held[c] :
          ~(spc[c] = "unlock" /\ swant[c] = l) => scpu[l] = c

SpinInv ==
    /\ SpinTypes /\ OwnersAgree /\ ~lpanic
    /\ \A c \in Harts : Depth(c) /\ Masked(c) /\ InHand(c)

---------------------------------------------------------------------------

LEMMA HeldFinite ==
    ASSUME SpinTypes, NEW c \in Harts
    PROVE  IsFiniteSet(held[c]) /\ Cardinality(held[c]) \in Nat
           /\ (Cardinality(held[c]) = 0 <=> held[c] = {})
<1>1. IsFiniteSet(SLocks) BY SpinAssumption, FS_Interval DEF SLocks
<1>2. held[c] \subseteq SLocks BY DEF SpinTypes
<1>3. IsFiniteSet(held[c]) BY <1>1, <1>2, FS_Subset
<1>4. QED BY <1>3, FS_CardinalityType, FS_EmptySet

\* Every step keeps the invariant.  The CPU that takes it is c.
LEMMA SpinStep == SpinInv /\ SpinNext => SpinInv'
<1> SUFFICES ASSUME SpinInv, SpinNext PROVE SpinInv'
  OBVIOUS
<1> PICK c \in Harts :
        \/ PushOff(c) \/ Swap(c) \/ Own(c) \/ Unlock(c) \/ PopOff(c)
        \/ Interrupt(c) \/ InterruptReturns(c)
        \/ \E l \in SLocks : AcquireBegins(c, l) \/ ReleaseBegins(c, l)
  BY DEF SpinNext
<1>t. SpinTypes /\ Depth(c) /\ Masked(c) /\ InHand(c) /\ OwnersAgree /\ ~lpanic
  BY DEF SpinInv
<1>f. IsFiniteSet(held[c]) /\ Cardinality(held[c]) \in Nat
      /\ (Cardinality(held[c]) = 0 <=> held[c] = {})
  BY <1>t, HeldFinite
<1>1. CASE PushOff(c)
  <2>1. SpinTypes'
    BY <1>1, <1>t DEF PushOff, Goes, Intena, locks, traps, SpinTypes, Pc, InHand, SLocks
  <2>2. OwnersAgree'
    BY <1>1, <1>t, <1>f, SpinAssumption DEF PushOff, Goes, Intena, locks, traps,
       SpinTypes, OwnersAgree, Has, InHand, Depth, Masked, InBetween
  <2>3. ~lpanic'
    BY <1>1, <1>t, <1>f DEF PushOff, Goes, Intena, locks, traps, SpinTypes,
       OwnersAgree, Has, InHand, Holding, Masked, Depth, InBetween
  <2>4. Depth(c)'
    BY <1>1, <1>t, <1>f DEF PushOff, Goes, Intena, locks, traps, SpinTypes, Depth,
       Masked, InBetween, Pc
  <2>5. Masked(c)'
    BY <1>1, <1>t, <1>f DEF PushOff, Goes, Intena, locks, traps, SpinTypes, Depth,
       Masked, InHand, InBetween, Pc
  <2>6. InHand(c)'
    BY <1>1, <1>t, <1>f DEF PushOff, Goes, Intena, locks, traps, SpinTypes, Depth,
       Masked, InHand, InBetween, Pc
  <2>7. ASSUME NEW d \in Harts, d # c PROVE Depth(d)' /\ Masked(d)' /\ InHand(d)'
    BY <1>1, <2>7 DEF SpinInv, PushOff, Goes, Intena, locks, traps, SpinTypes, Depth,
       Masked, InHand, InBetween
  <2>8. QED BY <2>1, <2>2, <2>3, <2>4, <2>5, <2>6, <2>7 DEF SpinInv
<1>2. CASE Swap(c)
  <2>1. SpinTypes'
    BY <1>2, <1>t DEF Swap, Goes, traps, SpinTypes, Pc, InHand, SLocks
  <2>2. OwnersAgree'
    BY <1>2, <1>t, <1>f, SpinAssumption DEF Swap, Goes, traps, SpinTypes,
       OwnersAgree, Has, InHand, Depth, Masked, InBetween
  <2>3. ~lpanic'
    BY <1>2, <1>t, <1>f DEF Swap, Goes, traps, SpinTypes, OwnersAgree, Has, InHand,
       Holding, Masked, Depth, InBetween
  <2>4. Depth(c)'
    BY <1>2, <1>t, <1>f DEF Swap, Goes, traps, SpinTypes, Depth, Masked, InBetween, Pc
  <2>5. Masked(c)'
    BY <1>2, <1>t, <1>f DEF Swap, Goes, traps, SpinTypes, Depth, Masked, InHand,
       InBetween, Pc
  <2>6. InHand(c)'
    BY <1>2, <1>t, <1>f DEF Swap, Goes, traps, SpinTypes, Depth, Masked, InHand,
       InBetween, Pc
  <2>7. ASSUME NEW d \in Harts, d # c PROVE Depth(d)' /\ Masked(d)' /\ InHand(d)'
    BY <1>2, <2>7 DEF SpinInv, Swap, Goes, traps, SpinTypes, Depth, Masked, InHand,
       InBetween
  <2>8. QED BY <2>1, <2>2, <2>3, <2>4, <2>5, <2>6, <2>7 DEF SpinInv
<1>3. CASE Own(c)
  <2>1. SpinTypes'
    BY <1>3, <1>t DEF Own, Goes, traps, SpinTypes, Pc, InHand, SLocks
  <2>2. OwnersAgree'
    BY <1>3, <1>t, <1>f, SpinAssumption DEF Own, Goes, traps, SpinTypes, OwnersAgree,
       Has, InHand, Depth, Masked, InBetween
  <2>3. ~lpanic'
    BY <1>3, <1>t, <1>f DEF Own, Goes, traps, SpinTypes, OwnersAgree, Has, InHand,
       Holding, Masked, Depth, InBetween
  <2>a. held'[c] = held[c] \cup {swant[c]} /\ swant[c] \notin held[c]
    BY <1>3, <1>t DEF Own, SpinTypes, InHand, Goes
  <2>b. Cardinality(held'[c]) = Cardinality(held[c]) + 1
    BY <2>a, <1>f, FS_AddElement
  <2>4. Depth(c)'
    BY <1>3, <1>t, <1>f, <2>b DEF Own, Goes, traps, SpinTypes, Depth, Masked,
       InBetween, Pc
  <2>5. Masked(c)'
    BY <1>3, <1>t, <1>f DEF Own, Goes, traps, SpinTypes, Depth, Masked, InHand,
       InBetween, Pc
  <2>6. InHand(c)'
    BY <1>3, <1>t, <1>f DEF Own, Goes, traps, SpinTypes, Depth, Masked, InHand,
       InBetween, Pc
  <2>7. ASSUME NEW d \in Harts, d # c PROVE Depth(d)' /\ Masked(d)' /\ InHand(d)'
    BY <1>3, <2>7 DEF SpinInv, Own, Goes, traps, SpinTypes, Depth, Masked, InHand,
       InBetween
  <2>8. QED BY <2>1, <2>2, <2>3, <2>4, <2>5, <2>6, <2>7 DEF SpinInv
<1>4. CASE Unlock(c)
  <2>1. SpinTypes'
    BY <1>4, <1>t DEF Unlock, Goes, traps, SpinTypes, Pc, InHand, SLocks
  <2>2. OwnersAgree'
    BY <1>4, <1>t, <1>f, SpinAssumption DEF Unlock, Goes, traps, SpinTypes,
       OwnersAgree, Has, InHand, Depth, Masked, InBetween
  <2>3. ~lpanic'
    BY <1>4, <1>t, <1>f DEF Unlock, Goes, traps, SpinTypes, OwnersAgree, Has, InHand,
       Holding, Masked, Depth, InBetween
  <2>a. held'[c] = held[c] \ {swant[c]} /\ swant[c] \in held[c]
    BY <1>4, <1>t DEF Unlock, SpinTypes, InHand, Goes
  <2>b. Cardinality(held'[c]) = Cardinality(held[c]) - 1
    BY <2>a, <1>f, FS_RemoveElement, ZenonT(60)
  <2>4. Depth(c)'
    BY <1>4, <1>t, <1>f, <2>b DEF Unlock, Goes, traps, SpinTypes, Depth, Masked,
       InBetween, Pc
  <2>5. Masked(c)'
    BY <1>4, <1>t, <1>f DEF Unlock, Goes, traps, SpinTypes, Depth, Masked, InHand,
       InBetween, Pc
  <2>6. InHand(c)'
    BY <1>4, <1>t, <1>f DEF Unlock, Goes, traps, SpinTypes, Depth, Masked, InHand,
       InBetween, Pc
  <2>7. ASSUME NEW d \in Harts, d # c PROVE Depth(d)' /\ Masked(d)' /\ InHand(d)'
    BY <1>4, <2>7 DEF SpinInv, Unlock, Goes, traps, SpinTypes, Depth, Masked, InHand,
       InBetween
  <2>8. QED BY <2>1, <2>2, <2>3, <2>4, <2>5, <2>6, <2>7 DEF SpinInv
<1>5. CASE PopOff(c)
  <2>1. SpinTypes'
    BY <1>5, <1>t DEF PopOff, Goes, locks, traps, SpinTypes, Pc, InHand, SLocks
  <2>2. OwnersAgree'
    BY <1>5, <1>t, <1>f, SpinAssumption DEF PopOff, Goes, locks, traps, SpinTypes,
       OwnersAgree, Has, InHand, Depth, Masked, InBetween
  <2>3. ~lpanic'
    BY <1>5, <1>t, <1>f DEF PopOff, Goes, locks, traps, SpinTypes, OwnersAgree, Has,
       InHand, Holding, Masked, Depth, InBetween
  <2>4. Depth(c)'
    BY <1>5, <1>t, <1>f DEF PopOff, Goes, locks, traps, SpinTypes, Depth, Masked,
       InBetween, Pc
  <2>5. Masked(c)'
    BY <1>5, <1>t, <1>f DEF PopOff, Goes, locks, traps, SpinTypes, Depth, Masked,
       InHand, InBetween, Pc
  <2>6. InHand(c)'
    BY <1>5, <1>t, <1>f DEF PopOff, Goes, locks, traps, SpinTypes, Depth, Masked,
       InHand, InBetween, Pc
  <2>7. ASSUME NEW d \in Harts, d # c PROVE Depth(d)' /\ Masked(d)' /\ InHand(d)'
    BY <1>5, <2>7 DEF SpinInv, PopOff, Goes, locks, traps, SpinTypes, Depth, Masked,
       InHand, InBetween
  <2>8. QED BY <2>1, <2>2, <2>3, <2>4, <2>5, <2>6, <2>7 DEF SpinInv
<1>6. CASE Interrupt(c)
  <2>1. SpinTypes'
    BY <1>6, <1>t DEF Interrupt, locks, SpinTypes, Pc, InHand, SLocks
  <2>2. OwnersAgree'
    BY <1>6, <1>t, <1>f, SpinAssumption DEF Interrupt, locks, SpinTypes, OwnersAgree,
       Has, InHand, Depth, Masked, InBetween
  <2>3. ~lpanic'
    BY <1>6, <1>t, <1>f DEF Interrupt, locks, SpinTypes, OwnersAgree, Has, InHand,
       Holding, Masked, Depth, InBetween
  <2>4. Depth(c)'
    BY <1>6, <1>t, <1>f DEF Interrupt, locks, SpinTypes, Depth, Masked, InBetween, Pc
  <2>5. Masked(c)'
    BY <1>6, <1>t, <1>f DEF Interrupt, locks, SpinTypes, Depth, Masked, InHand,
       InBetween, Pc
  <2>6. InHand(c)'
    BY <1>6, <1>t, <1>f DEF Interrupt, locks, SpinTypes, Depth, Masked, InHand,
       InBetween, Pc
  <2>7. ASSUME NEW d \in Harts, d # c PROVE Depth(d)' /\ Masked(d)' /\ InHand(d)'
    BY <1>6, <2>7 DEF SpinInv, Interrupt, locks, SpinTypes, Depth, Masked, InHand,
       InBetween
  <2>8. QED BY <2>1, <2>2, <2>3, <2>4, <2>5, <2>6, <2>7 DEF SpinInv
<1>7. CASE InterruptReturns(c)
  <2>1. SpinTypes'
    BY <1>7, <1>t DEF InterruptReturns, Goes, NoCode, locks, SpinTypes, Pc, InHand,
       SLocks
  <2>2. OwnersAgree'
    BY <1>7, <1>t, <1>f, SpinAssumption DEF InterruptReturns, Goes, NoCode, locks,
       SpinTypes, OwnersAgree, Has, InHand, Depth, Masked, InBetween
  <2>3. ~lpanic'
    BY <1>7, <1>t, <1>f DEF InterruptReturns, Goes, NoCode, locks, SpinTypes,
       OwnersAgree, Has, InHand, Holding, Masked, Depth, InBetween
  <2>4. Depth(c)'
    BY <1>7, <1>t, <1>f DEF InterruptReturns, Goes, NoCode, locks, SpinTypes, Depth,
       Masked, InBetween, Pc
  <2>5. Masked(c)'
    BY <1>7, <1>t, <1>f DEF InterruptReturns, Goes, NoCode, locks, SpinTypes, Depth,
       Masked, InHand, InBetween, Pc
  <2>6. InHand(c)'
    BY <1>7, <1>t, <1>f DEF InterruptReturns, Goes, NoCode, locks, SpinTypes, Depth,
       Masked, InHand, InBetween, Pc
  <2>7. ASSUME NEW d \in Harts, d # c PROVE Depth(d)' /\ Masked(d)' /\ InHand(d)'
    BY <1>7, <2>7 DEF SpinInv, InterruptReturns, Goes, NoCode, locks, SpinTypes,
       Depth, Masked, InHand, InBetween
  <2>8. QED BY <2>1, <2>2, <2>3, <2>4, <2>5, <2>6, <2>7 DEF SpinInv
<1>8. ASSUME NEW l \in SLocks, AcquireBegins(c, l) PROVE SpinInv'
  <2>0. l \notin held[c]
    BY <1>8 DEF AcquireBegins, SLocks
  <2>1. SpinTypes'
    BY <1>8, <1>t DEF AcquireBegins, Goes, locks, traps, SpinTypes, Pc, InHand, SLocks
  <2>2. OwnersAgree'
    BY <1>8, <1>t, <1>f, SpinAssumption DEF AcquireBegins, Goes, locks, traps,
       SpinTypes, OwnersAgree, Has, InHand, Depth, Masked, InBetween
  <2>3. ~lpanic'
    BY <1>8, <1>t, <1>f DEF AcquireBegins, Goes, locks, traps, SpinTypes,
       OwnersAgree, Has, InHand, Holding, Masked, Depth, InBetween
  <2>4. Depth(c)'
    BY <1>8, <1>t, <1>f DEF AcquireBegins, Goes, locks, traps, SpinTypes, Depth,
       Masked, InBetween, Pc
  <2>5. Masked(c)'
    BY <1>8, <1>t, <1>f DEF AcquireBegins, Goes, locks, traps, SpinTypes, Depth,
       Masked, InHand, InBetween, Pc
  <2>6. InHand(c)'
    BY <1>8, <1>t, <1>f, <2>0 DEF AcquireBegins, Goes, locks, traps, SpinTypes,
       Depth, Masked, InHand, InBetween, Pc
  <2>7. ASSUME NEW d \in Harts, d # c PROVE Depth(d)' /\ Masked(d)' /\ InHand(d)'
    BY <1>8, <2>7 DEF SpinInv, AcquireBegins, Goes, locks, traps, SpinTypes, Depth,
       Masked, InHand, InBetween
  <2>8. QED BY <2>1, <2>2, <2>3, <2>4, <2>5, <2>6, <2>7 DEF SpinInv
<1>9. ASSUME NEW l \in SLocks, ReleaseBegins(c, l) PROVE SpinInv'
  <2>1. SpinTypes'
    BY <1>9, <1>t DEF ReleaseBegins, Goes, traps, SpinTypes, Pc, InHand, SLocks
  <2>2. OwnersAgree'
    BY <1>9, <1>t, <1>f, SpinAssumption DEF ReleaseBegins, Goes, traps, SpinTypes,
       OwnersAgree, Has, InHand, Depth, Masked, InBetween
  <2>3. ~lpanic'
    BY <1>9, <1>t, <1>f DEF ReleaseBegins, Goes, traps, SpinTypes, OwnersAgree, Has,
       InHand, Holding, Masked, Depth, InBetween
  <2>4. Depth(c)'
    BY <1>9, <1>t, <1>f DEF ReleaseBegins, Goes, traps, SpinTypes, Depth, Masked,
       InBetween, Pc
  <2>5. Masked(c)'
    BY <1>9, <1>t, <1>f DEF ReleaseBegins, Goes, traps, SpinTypes, Depth, Masked,
       InHand, InBetween, Pc
  <2>6. InHand(c)'
    BY <1>9, <1>t, <1>f DEF ReleaseBegins, Goes, traps, SpinTypes, Depth, Masked,
       InHand, InBetween, Pc
  <2>7. ASSUME NEW d \in Harts, d # c PROVE Depth(d)' /\ Masked(d)' /\ InHand(d)'
    BY <1>9, <2>7 DEF SpinInv, ReleaseBegins, Goes, traps, SpinTypes, Depth, Masked,
       InHand, InBetween
  <2>8. QED BY <2>1, <2>2, <2>3, <2>4, <2>5, <2>6, <2>7 DEF SpinInv
<1>10. QED BY <1>1, <1>2, <1>3, <1>4, <1>5, <1>6, <1>7, <1>8, <1>9

---------------------------------------------------------------------------

\* For any number of CPUs and locks, and any interleaving of their code and
\* their interrupts, the locks and the interrupts go together as
\* LocksMaskInterrupts says.
THEOREM SpinlocksCorrect == SpinSpec => []LocksMaskInterrupts
<1>1. SpinInit => SpinInv
  <2> SUFFICES ASSUME SpinInit PROVE SpinInv
    OBVIOUS
  <2>1. SpinTypes
    <3>1. slocked \in [SLocks -> BOOLEAN] /\ scpu \in [SLocks -> Harts \cup {NoCpu}]
      BY DEF SpinInit
    <3>2. /\ intr \in [Harts -> BOOLEAN] /\ intena \in [Harts -> BOOLEAN]
          /\ noff \in [Harts -> Int]
      BY DEF SpinInit
    <3>3. /\ spc \in [Harts -> Pc] /\ swant \in [Harts -> Nat]
          /\ sold \in [Harts -> BOOLEAN] /\ handler \in [Harts -> BOOLEAN]
      BY DEF SpinInit, Pc
    <3>4. NoCode \in [pc : Pc, want : Nat, old : BOOLEAN]
      BY DEF NoCode, Pc
    <3>5. below \in [Harts -> [pc : Pc, want : Nat, old : BOOLEAN]]
      BY <3>4 DEF SpinInit
    <3>6. held \in [Harts -> SUBSET SLocks] /\ lpanic \in BOOLEAN
      BY DEF SpinInit
    <3>7. QED BY <3>1, <3>2, <3>3, <3>5, <3>6 DEF SpinTypes
  <2>4. OwnersAgree /\ ~lpanic
    BY SpinAssumption DEF SpinInit, OwnersAgree, Has
  <2>2. ASSUME NEW c \in Harts PROVE Depth(c) /\ Masked(c) /\ InHand(c)
    <3>1. Cardinality(held[c]) = 0
      BY FS_EmptySet DEF SpinInit
    <3>2. QED BY <3>1 DEF SpinInit, Depth, Masked, InHand, InBetween
  <2>3. QED BY <2>1, <2>2, <2>4 DEF SpinInv
<1>2. SpinInv /\ UNCHANGED spinVars => SpinInv'
  BY DEF SpinInv, spinVars, locks, code, traps, SpinTypes, OwnersAgree, Has, Depth,
         Masked, InHand, InBetween
<1>3. SpinInv => LocksMaskInterrupts
  <2> SUFFICES ASSUME SpinInv PROVE LocksMaskInterrupts
    OBVIOUS
  <2>1. ASSUME NEW c \in Harts, NEW d \in Harts, c # d PROVE held[c] \cap held[d] = {}
    BY <2>1 DEF SpinInv, SpinTypes, OwnersAgree, Has
  <2>2. ASSUME NEW c \in Harts
        PROVE /\ held[c] # {} => ~intr[c]
              /\ spc[c] = "idle" /\ held[c] = {} => intr[c] = ~handler[c]
    <3>1. Cardinality(held[c]) \in Nat /\ (Cardinality(held[c]) = 0 <=> held[c] = {})
      BY HeldFinite DEF SpinInv
    <3>2. Depth(c) /\ Masked(c) /\ SpinTypes
      BY DEF SpinInv
    <3>3. held[c] # {} => noff[c] > 0
      BY <3>1, <3>2 DEF Depth, InBetween
    <3>4. spc[c] = "idle" /\ held[c] = {} => noff[c] = 0
      BY <3>1, <3>2 DEF Depth, InBetween
    <3>5. QED BY <3>2, <3>3, <3>4 DEF Masked, SpinTypes
  <2>3. QED BY <2>1, <2>2 DEF SpinInv, LocksMaskInterrupts
<1>4. QED BY <1>1, <1>2, <1>3, SpinStep, PTL DEF SpinSpec
=============================================================================
