---------------------------- MODULE Pipe_proofs ----------------------------
(***************************************************************************)
(* Proof that nobody sleeps at a pipe without a reason, for any number of  *)
(* readers and writers and any size of the pipe.                           *)
(***************************************************************************)
EXTENDS Pipe, TLAPS

PipePcs == {"idle", "write", "wait", "tested", "read", "nread", "nwrite", "woken"}

PipeTypes ==
    /\ nread \in 0 .. CountSize - 1 /\ nwrite \in 0 .. CountSize - 1
    /\ readopen \in BOOLEAN /\ writeopen \in BOOLEAN
    /\ plock \in PipeProcs \cup {0}
    /\ ppc \in [PipeProcs -> PipePcs]
    /\ pleft \in [PipeProcs -> Nat]
    /\ pkilled \in [PipeProcs -> BOOLEAN]

\* Who is where: only the lock's holder runs, writers do not sleep at nread
\* nor readers at nwrite, a closed end has nobody in a call, and what a process
\* has tested stays so while it holds the lock, but for killed().
Places ==
    /\ \A p \in PipeProcs : ppc[p] \in {"write", "wait", "tested", "read"} <=> plock = p
    /\ \A p \in Writers : ppc[p] \in {"idle", "write", "tested", "nwrite", "woken"}
    /\ \A p \in Readers : ppc[p] \in {"idle", "wait", "tested", "read", "nread", "woken"}
    /\ ~writeopen => \A p \in Writers : ppc[p] = "idle"
    /\ ~readopen => \A p \in Readers : ppc[p] = "idle"
    /\ \A p \in Writers : ppc[p] = "tested" => pleft[p] > 0 /\ readopen
    /\ \A p \in Readers : ppc[p] = "tested" => Empty /\ writeopen

\* A writer in its loop owes the sleeping readers a wakeup, a reader that has
\* taken a byte owes one to the sleeping writers.
Owed ==
    /\ plock \notin Writers =>
         \A p \in Readers : ppc[p] = "nread" =>
            writeopen /\ (Empty \/ \E q \in Writers : pkilled[q])
    /\ (\A r \in Readers : ppc[r] # "read") =>
         \A p \in Writers : ppc[p] = "nwrite" => readopen /\ Full

PipeInv == PipeTypes /\ Places /\ Owed

LEMMA PipeInvImplies == PipeInv => SleepersHaveReason
  BY PipeAssumption
     DEF PipeInv, PipeTypes, Places, Owed, SleepersHaveReason, PipeProcs

\* The counters wrap; an empty pipe is not full.
LEMMA Counting ==
    ASSUME PipeTypes
    PROVE  /\ (nread + 1) % CountSize \in 0 .. CountSize - 1
           /\ (nwrite + 1) % CountSize \in 0 .. CountSize - 1
           /\ ~(Empty /\ Full)
<1>1. CountSize \in Nat \ {0} /\ nread \in Nat /\ nread < CountSize
  BY PipeAssumption DEF PipeTypes
<1>2. ASSUME NEW a \in 0 .. CountSize - 1
      PROVE (a + 1) % CountSize \in 0 .. CountSize - 1
  BY PipeAssumption
<1>3. ASSUME nread = (nread + PIPESIZE) % CountSize PROVE FALSE
  <2>1. nread + PIPESIZE < CountSize => (nread + PIPESIZE) % CountSize = nread + PIPESIZE
    BY <1>1, PipeAssumption
  <2>2. nread + PIPESIZE >= CountSize =>
          (nread + PIPESIZE) % CountSize = nread + PIPESIZE - CountSize
    BY <1>1, PipeAssumption
  <2>3. QED BY <1>1, <1>3, <2>1, <2>2, PipeAssumption
<1>4. QED BY <1>2, <1>3 DEF PipeTypes, Empty, Full

\* Every action keeps the invariant.
LEMMA PipeStep == PipeInv /\ PipeNext => PipeInv'
<1> SUFFICES ASSUME PipeInv, PipeNext PROVE PipeInv'
  OBVIOUS
<1>a. /\ PipeTypes /\ Places /\ Owed
      /\ Writers \subseteq PipeProcs /\ Readers \subseteq PipeProcs
      /\ Writers \cap Readers = {} /\ 0 \notin PipeProcs
  BY PipeAssumption DEF PipeInv, PipeProcs
<1>c. /\ (nread + 1) % CountSize \in 0 .. CountSize - 1
      /\ (nwrite + 1) % CountSize \in 0 .. CountSize - 1
      /\ ~(Empty /\ Full)
  BY <1>a, Counting
<1>1. CASE NewPipe
  <2>1. PipeTypes'
    BY <1>1, <1>a, <1>c, PipeAssumption DEF NewPipe, PipeTypes, PipePcs
  <2>2. Places'
    BY <1>1, <1>a DEF NewPipe, PipeTypes, PipePcs, Places, Empty
  <2>3. Owed'
    BY <1>1, <1>a, <1>c DEF NewPipe, PipeTypes, PipePcs, Places, Owed, Empty, Full
  <2>4. QED BY <2>1, <2>2, <2>3 DEF PipeInv
<1>2. ASSUME NEW p \in Writers, WriteFails(p) PROVE PipeInv'
  <2>1. PipeTypes'
    BY <1>2, <1>a, <1>c, PipeAssumption
       DEF WriteFails, Returned, ends, At2, PipeTypes, PipePcs
  <2>2. Places'
    BY <1>2, <1>a DEF WriteFails, Returned, ends, At2, PipeTypes, PipePcs, Places, Empty
  <2>3. Owed'
    BY <1>2, <1>a, <1>c
       DEF WriteFails, Returned, ends, At2, PipeTypes, PipePcs, Places, Owed, Empty, Full
  <2>4. QED BY <2>1, <2>2, <2>3 DEF PipeInv
<1>3. ASSUME NEW p \in Writers, WriteFull(p) PROVE PipeInv'
  <2>1. PipeTypes'
    BY <1>3, <1>a, <1>c, PipeAssumption
       DEF WriteFull, WriteSleeps, WakeAll, ends, At2, PipeTypes, PipePcs
  <2>2. Places'
    BY <1>3, <1>a
       DEF WriteFull, WriteSleeps, WakeAll, ends, At2, PipeTypes, PipePcs, Places, Empty
  <2>3. Owed'
    BY <1>3, <1>a, <1>c
       DEF WriteFull, WriteSleeps, WakeAll, ends, At2, PipeTypes, PipePcs, Places, Owed, Empty, Full
  <2>4. QED BY <2>1, <2>2, <2>3 DEF PipeInv
<1>4. ASSUME NEW p \in Writers, WriteByte(p) PROVE PipeInv'
  <2>1. PipeTypes'
    BY <1>4, <1>a, <1>c, PipeAssumption DEF WriteByte, ends, At2, PipeTypes, PipePcs, Places
  <2>2. Places'
    BY <1>4, <1>a DEF WriteByte, ends, At2, PipeTypes, PipePcs, Places, Empty
  <2>3. Owed'
    BY <1>4, <1>a, <1>c
       DEF WriteByte, ends, At2, PipeTypes, PipePcs, Places, Owed, Empty, Full
  <2>4. QED BY <2>1, <2>2, <2>3 DEF PipeInv
<1>5. ASSUME NEW p \in Writers, WriteDone(p) PROVE PipeInv'
  <2>1. PipeTypes'
    BY <1>5, <1>a, <1>c, PipeAssumption
       DEF WriteDone, WakeAll, Returned, ends, At2, PipeTypes, PipePcs
  <2>2. Places'
    BY <1>5, <1>a
       DEF WriteDone, WakeAll, Returned, ends, At2, PipeTypes, PipePcs, Places, Empty
  <2>3. Owed'
    BY <1>5, <1>a, <1>c
       DEF WriteDone, WakeAll, Returned, ends, At2, PipeTypes, PipePcs, Places, Owed, Empty, Full
  <2>4. QED BY <2>1, <2>2, <2>3 DEF PipeInv
<1>6. ASSUME NEW p \in Readers, ReadWait(p) PROVE PipeInv'
  <2>1. PipeTypes'
    BY <1>6, <1>a, <1>c, PipeAssumption
       DEF ReadWait, Returned, ends, At2, PipeTypes, PipePcs
  <2>2. Places'
    BY <1>6, <1>a DEF ReadWait, Returned, ends, At2, PipeTypes, PipePcs, Places, Empty
  <2>3. Owed'
    BY <1>6, <1>a, <1>c
       DEF ReadWait, Returned, ends, At2, PipeTypes, PipePcs, Places, Owed, Empty, Full
  <2>4. QED BY <2>1, <2>2, <2>3 DEF PipeInv
<1>7. ASSUME NEW p \in Readers, ReadByte(p) PROVE PipeInv'
  <2>1. PipeTypes'
    BY <1>7, <1>a, <1>c, PipeAssumption DEF ReadByte, ends, PipeTypes, PipePcs
  <2>2. Places'
    BY <1>7, <1>a DEF ReadByte, ends, PipeTypes, PipePcs, Places, Empty
  <2>3. Owed'
    BY <1>7, <1>a, <1>c
       DEF ReadByte, ends, PipeTypes, PipePcs, Places, Owed, Empty, Full
  <2>4. QED BY <2>1, <2>2, <2>3 DEF PipeInv
<1>8. ASSUME NEW p \in Readers, ReadDone(p) PROVE PipeInv'
  <2>1. PipeTypes'
    BY <1>8, <1>a, <1>c, PipeAssumption
       DEF ReadDone, WakeAll, Returned, ends, PipeTypes, PipePcs
  <2>2. Places'
    BY <1>8, <1>a DEF ReadDone, WakeAll, Returned, ends, PipeTypes, PipePcs, Places, Empty
  <2>3. Owed'
    BY <1>8, <1>a, <1>c
       DEF ReadDone, WakeAll, Returned, ends, PipeTypes, PipePcs, Places, Owed, Empty, Full
  <2>4. QED BY <2>1, <2>2, <2>3 DEF PipeInv
<1>9. ASSUME NEW p \in PipeProcs, Woken(p) PROVE PipeInv'
  <2>1. PipeTypes'
    BY <1>9, <1>a, <1>c, PipeAssumption DEF Woken, ends, PipeTypes, PipePcs
  <2>2. Places'
    BY <1>9, <1>a DEF Woken, ends, PipeTypes, PipePcs, Places, Empty
  <2>3. Owed'
    BY <1>9, <1>a, <1>c
       DEF Woken, ends, PipeTypes, PipePcs, Places, Owed, Empty, Full
  <2>4. QED BY <2>1, <2>2, <2>3 DEF PipeInv
<1>10. ASSUME NEW p \in PipeProcs, Kill(p) PROVE PipeInv'
  <2>1. PipeTypes'
    BY <1>10, <1>a, <1>c, PipeAssumption DEF Kill, ends, PipeTypes, PipePcs
  <2>2. Places'
    BY <1>10, <1>a DEF Kill, ends, PipeTypes, PipePcs, Places, Empty
  <2>3. Owed'
    BY <1>10, <1>a, <1>c
       DEF Kill, ends, PipeTypes, PipePcs, Places, Owed, Empty, Full
  <2>4. QED BY <2>1, <2>2, <2>3 DEF PipeInv
<1>11. ASSUME NEW p \in PipeProcs, PipeClose(p) PROVE PipeInv'
  <2>1. PipeTypes'
    BY <1>11, <1>a, <1>c, PipeAssumption
       DEF PipeClose, CloseWakes, WakeAll, PipeTypes, PipePcs
  <2>2. Places'
    BY <1>11, <1>a DEF PipeClose, CloseWakes, WakeAll, PipeTypes, PipePcs, Places, Empty
  <2>3. Owed'
    BY <1>11, <1>a, <1>c
       DEF PipeClose, CloseWakes, WakeAll, PipeTypes, PipePcs, Places, Owed, Empty, Full
  <2>4. QED BY <2>1, <2>2, <2>3 DEF PipeInv
<1>12. ASSUME NEW p \in PipeProcs, NEW n \in Chunks, MayCall(p), PipeBegin(p, n)
      PROVE PipeInv'
  <2>1. PipeTypes'
    BY <1>12, <1>a, <1>c, PipeAssumption
       DEF PipeBegin, MayCall, ends, PipeTypes, PipePcs
  <2>2. Places'
    BY <1>12, <1>a DEF PipeBegin, MayCall, ends, PipeTypes, PipePcs, Places, Empty
  <2>3. Owed'
    BY <1>12, <1>a, <1>c
       DEF PipeBegin, MayCall, ends, PipeTypes, PipePcs, Places, Owed, Empty, Full
  <2>4. QED BY <2>1, <2>2, <2>3 DEF PipeInv
<1>13. ASSUME NEW p \in Writers, WriteTest(p) PROVE PipeInv'
  <2>1. PipeTypes'
    BY <1>13, <1>a, <1>c, PipeAssumption DEF WriteTest, ends, At2, PipeTypes, PipePcs
  <2>2. Places'
    BY <1>13, <1>a DEF WriteTest, ends, At2, PipeTypes, PipePcs, Places, Empty
  <2>3. Owed'
    BY <1>13, <1>a, <1>c
       DEF WriteTest, ends, At2, PipeTypes, PipePcs, Places, Owed, Empty, Full
  <2>4. QED BY <2>1, <2>2, <2>3 DEF PipeInv
<1>14. ASSUME NEW p \in Readers, ReadTest(p) PROVE PipeInv'
  <2>1. PipeTypes'
    BY <1>14, <1>a, <1>c, PipeAssumption DEF ReadTest, Returned, ends, At2, PipeTypes, PipePcs
  <2>2. Places'
    BY <1>14, <1>a DEF ReadTest, Returned, ends, At2, PipeTypes, PipePcs, Places, Empty
  <2>3. Owed'
    BY <1>14, <1>a, <1>c
       DEF ReadTest, Returned, ends, At2, PipeTypes, PipePcs, Places, Owed, Empty, Full
  <2>4. QED BY <2>1, <2>2, <2>3 DEF PipeInv
<1>15. QED BY <1>1, <1>2, <1>3, <1>4, <1>5, <1>6, <1>7, <1>8, <1>9, <1>10, <1>11, <1>12,
             <1>13, <1>14 DEF PipeNext

\* Nobody sleeps beside work: for any readers, writers, sizes of the pipe and
\* of the counters, and wherever kill() falls.
THEOREM PipeSleepers == PipeSpec => []SleepersHaveReason
<1>1. PipeInit => PipeInv
  BY PipeAssumption
     DEF PipeInit, PipeInv, PipeTypes, PipePcs, Places, Owed, PipeProcs, Empty
<1>2. PipeInv /\ UNCHANGED pipeVars => PipeInv'
  BY DEF PipeInv, pipeVars, PipeTypes, Places, Owed, Empty, Full
<1>3. QED BY <1>1, <1>2, PipeStep, PipeInvImplies, PTL DEF PipeSpec
=============================================================================
