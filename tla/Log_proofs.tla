---------------------------- MODULE Log_proofs -----------------------------
(***************************************************************************)
(* Proofs about the log, for any processes, blocks and log size.  The      *)
(* inductive invariant says how far commit or recovery has come and what   *)
(* the header, the log's blocks, the home blocks and the buffers then have *)
(* in common.                                                              *)
(***************************************************************************)
EXTENDS Log, FiniteSetTheorems, SequenceTheorems, TLAPS

\* Who runs: calls, one commit, or recovery.
Control ==
    /\ committing <=> com.ph \in {"log", "commit", "install", "erase", "done"}
    /\ committing <=> \E p \in Proc : pc[p] = "commit"
    /\ \A p, q \in Proc : pc[p] = "commit" /\ pc[q] = "commit" => p = q
    /\ outstanding = Cardinality(Ops)
    /\ committing \/ Recovering => outstanding = 0
    /\ Recovering => \A p \in Proc : pc[p] = "idle"
    /\ halted => com.ph = "none"

\* The header on disk is that of a transaction only from write_head to its
\* erasure; a call that has ended leaves nothing in the header in memory.
Headers ==
    /\ com.ph \in {"none", "log", "commit", "done"} => head = <<>>
    /\ com.ph \in {"install", "erase", "replay"} => head = lh
    /\ com.ph = "done" \/ (com.ph = "none" /\ outstanding = 0) => lh = <<>>
    /\ com.ph = "commit" => lh # <<>>
    /\ com.ph \in {"log", "install", "replay"} => com.i \in 1 .. Len(lh)

\* The buffer holds what its home location does not have yet.
Dirty(b) ==
    \/ com.ph \in {"none", "log", "commit"} /\ Logged(b)
    \/ com.ph = "install" /\ \E j \in com.i .. Len(lh) : lh[j] = b

\* Such buffers are pinned; the others hold what is on disk.
Buffers ==
    \A b \in Block :
        /\ pins[b] = IF Dirty(b) THEN 1 ELSE 0
        /\ IF Dirty(b) THEN cache[b] # NoBuf ELSE cache[b] \in {NoBuf, home[b]}

\* How far write_log and install_trans have come.
Copied ==
    /\ com.ph = "log" => \A j \in 1 .. com.i - 1 : logd[j] = cache[lh[j]]
    /\ com.ph = "commit" => \A j \in 1 .. Len(lh) : logd[j] = cache[lh[j]]
    /\ com.ph = "install" => \A j \in com.i .. Len(lh) : logd[j] = cache[lh[j]]
    /\ com.ph \in {"install", "replay"} =>
          \A j \in 1 .. com.i - 1 : home[lh[j]] = logd[j]
    /\ com.ph \in {"erase", "clear"} =>
          \A j \in 1 .. Len(head) : home[head[j]] = logd[j]

LogInv == TypeOK /\ Control /\ SleeperWillWake /\ Headers /\ Buffers /\ Copied
-----------------------------------------------------------------------------

\* A header's entries are blocks, each has its slot in the log.
LEMMA HeaderFacts ==
    ASSUME NEW h, IsHeader(h)
    PROVE  /\ h \in Seq(Block) /\ Len(h) \in Nat /\ DOMAIN h = 1 .. Len(h)
           /\ \A j \in 1 .. Len(h) : h[j] \in Block /\ j \in Slot
           /\ \A i, j \in 1 .. Len(h) : h[i] = h[j] => i = j
           /\ (h = <<>> <=> Len(h) = 0)
<1>1. h \in Seq(Block) /\ DOMAIN h \subseteq Slot
      /\ \A i, j \in DOMAIN h : h[i] = h[j] => i = j
  BY DEF IsHeader
<1>2. Len(h) \in Nat /\ DOMAIN h = 1 .. Len(h)
  BY <1>1, LenProperties
<1>3. \A j \in 1 .. Len(h) : h[j] \in Block
  BY <1>1, ElementOfSeq
<1>4. h = <<>> <=> Len(h) = 0
  BY <1>1, EmptySeq
<1>5. QED BY <1>1, <1>2, <1>3, <1>4

LEMMA AppendFacts ==
    ASSUME NEW h \in Seq(Block), NEW b \in Block
    PROVE  /\ Append(h, b) \in Seq(Block) /\ Len(Append(h, b)) = Len(h) + 1
           /\ \A j \in 1 .. Len(h) : Append(h, b)[j] = h[j]
           /\ Append(h, b)[Len(h) + 1] = b
  OBVIOUS

\* outstanding counts the calls in progress.
LEMMA OpsCounted ==
    ASSUME TypeOK, Control
    PROVE  /\ IsFiniteSet(Ops) /\ Cardinality(Ops) \in Nat
           /\ (outstanding = 0 <=> Ops = {})
           /\ \A p \in Proc : pc[p] = "op" => outstanding > 0
<1>1. IsFiniteSet(Ops)
  BY LogAssumption, FS_Subset DEF Ops
<1>2. Cardinality(Ops) \in Nat /\ (Cardinality(Ops) = 0 <=> Ops = {})
  BY <1>1, FS_CardinalityType, FS_EmptySet
<1>3. QED BY <1>1, <1>2, SMTT(30) DEF Ops, Control

\* Every step keeps the types.
LEMMA TypeStep == LogInv /\ Next => TypeOK'
<1> SUFFICES ASSUME LogInv, Next PROVE TypeOK'
  OBVIOUS
<1> USE SMTT(30)
<1>t. TypeOK
  BY DEF LogInv
<1>h. /\ lh \in Seq(Block) /\ Len(lh) \in Nat /\ DOMAIN lh = 1 .. Len(lh)
      /\ \A j \in 1 .. Len(lh) : lh[j] \in Block /\ j \in Slot
      /\ \A i, j \in 1 .. Len(lh) : lh[i] = lh[j] => i = j
  BY <1>t, HeaderFacts DEF TypeOK
<1>i. com.ph \in {"log", "install", "replay"} => com.i \in 1 .. Len(lh)
  BY DEF LogInv, Headers
<1>b. \A b \in Block : Dirty(b) => pins[b] = 1
  BY DEF LogInv, Buffers
<1>o. \A p \in Proc : pc[p] = "op" => outstanding > 0
  BY OpsCounted DEF LogInv
<1>e. IsHeader(<<>>)
  BY EmptySeq DEF IsHeader, Slot
<1>1. ASSUME NEW p \in Proc, Call(p) PROVE TypeOK'
  BY <1>1, <1>t DEF Call, disk, TypeOK
<1>2. ASSUME NEW p \in Proc, BeginOp(p) PROVE TypeOK'
  BY <1>2, <1>t DEF BeginOp, disk, TypeOK
<1>3. ASSUME NEW p \in Proc, LogWrite(p) PROVE TypeOK'
  <2>1. CASE halted' = TRUE /\ UNCHANGED <<cache, pins, lh, wrote>>
    BY <1>3, <1>t, <2>1 DEF LogWrite, disk, TypeOK
  <2>2. ASSUME NEW b \in Block, NEW v \in Val, ~TooBig, Record(p, b, v) PROVE TypeOK'
    <3>1. IsHeader(lh')
      <4>1. CASE Logged(b)
        BY <2>2, <4>1, <1>t DEF Record, TypeOK
      <4>2. CASE ~Logged(b)
        <5>1. lh' = Append(lh, b)
          BY <2>2, <4>2 DEF Record
        <5>2. Len(lh) + 1 \in Slot
          BY <2>2, <1>h, LogAssumption DEF TooBig, Slot
        <5>3. QED BY <5>1, <5>2, <4>2, <1>h, AppendFacts DEF IsHeader, Logged,
           Slot
      <4>3. QED BY <4>1, <4>2
    <3>2. pins' \in [Block -> Nat]
      BY <2>2, <1>t DEF Record, TypeOK
    <3>3. cache' \in [Block -> Val \cup {NoBuf}] /\ wrote' \in [Proc -> SUBSET Block]
      BY <2>2, <1>t DEF Record, TypeOK
    <3>4. QED BY <1>3, <2>2, <1>t, <3>1, <3>2, <3>3 DEF LogWrite, Record, disk,
       TypeOK
  <2>3. QED BY <1>3, <2>1, <2>2, ZenonT(30) DEF LogWrite
<1>4. ASSUME NEW p \in Proc, EndOp(p) PROVE TypeOK'
  <2>1. outstanding' \in Nat
    BY <1>4, <1>t, <1>o DEF EndOp, TypeOK
  <2>2. pc' \in [Proc -> {"idle", "begin", "asleep", "op", "commit"}]
    BY <1>4, <1>t DEF EndOp, TypeOK, Wakeup
  <2>3. CASE outstanding # 1
    BY <1>4, <1>t, <2>1, <2>2, <2>3 DEF EndOp, disk, TypeOK
  <2>4. CASE outstanding = 1
    <3>1. com' = [ph |-> IF lh = <<>> THEN "done" ELSE "log", i |-> 1]
      BY <1>4, <2>4 DEF EndOp
    <3>2. com' \in [ph : Phase, i : Nat]
      BY <3>1 DEF Phase
    <3>3. QED BY <1>4, <1>t, <2>1, <2>2, <2>4, <3>2 DEF EndOp, disk, TypeOK
  <2>5. QED BY <2>3, <2>4
<1>5. ASSUME NEW p \in Proc, EndCommit(p) PROVE TypeOK'
  <2>1. pc' \in [Proc -> {"idle", "begin", "asleep", "op", "commit"}]
    BY <1>5, <1>t DEF EndCommit, TypeOK, Wakeup
  <2>2. QED BY <1>5, <1>t, <2>1, ZenonT(30) DEF EndCommit, disk, TypeOK, NotCommitting, Phase
<1>6. ASSUME NEW b \in Block, Read(b) PROVE TypeOK'
  BY <1>6, <1>t DEF Read, disk, TypeOK, Bread
<1>7. ASSUME NEW b \in Block, Evict(b) PROVE TypeOK'
  BY <1>7, <1>t DEF Evict, disk, TypeOK
<1>8. CASE WriteLog
  <2>1. lh[com.i] \in Block /\ com.i \in Slot /\ Bread(lh[com.i]) \in Val
    BY <1>8, <1>t, <1>h, <1>i DEF WriteLog, TypeOK, Bread
  <2>2. logd' \in [Slot -> Val] /\ cache' \in [Block -> Val \cup {NoBuf}]
    BY <1>8, <1>t, <2>1 DEF WriteLog, TypeOK
  <2>3. com' \in [ph : Phase, i : Nat]
    BY <1>8, <1>t DEF WriteLog, Step, TypeOK, Phase
  <2>4. QED BY <1>8, <1>t, <2>2, <2>3 DEF WriteLog, TypeOK
<1>9. CASE WriteHead
  BY <1>9, <1>t DEF WriteHead, TypeOK, Phase
<1>10. CASE InstallTrans
  <2>1. lh[com.i] \in Block /\ com.i \in Slot /\ pins[lh[com.i]] = 1
    BY <1>10, <1>t, <1>h, <1>i, <1>b DEF InstallTrans, Dirty
  <2>2. home' \in [Block -> Val] /\ cache' \in [Block -> Val \cup {NoBuf}]
    BY <1>10, <1>t, <2>1 DEF InstallTrans, TypeOK
  <2>3. pins' \in [Block -> Nat]
    BY <1>10, <1>t, <2>1 DEF InstallTrans, TypeOK
  <2>4. com' \in [ph : Phase, i : Nat]
    BY <1>10, <1>t DEF InstallTrans, Step, TypeOK, Phase
  <2>5. QED BY <1>10, <1>t, <2>2, <2>3, <2>4 DEF InstallTrans, TypeOK
<1>11. CASE EraseHead
  BY <1>11, <1>t, <1>e DEF EraseHead, TypeOK, Phase
<1>12. CASE Crash
  BY <1>12, <1>t, <1>e, ZenonT(30) DEF Crash, disk, TypeOK, Phase
<1>13. CASE ReadHead
  BY <1>13, <1>t DEF ReadHead, disk, TypeOK, Phase
<1>14. CASE Replay
  <2>1. lh[com.i] \in Block /\ com.i \in Slot
    BY <1>14, <1>t, <1>h, <1>i DEF Replay
  <2>2. home' \in [Block -> Val] /\ cache' \in [Block -> Val \cup {NoBuf}]
    BY <1>14, <1>t, <2>1 DEF Replay, TypeOK
  <2>3. com' \in [ph : Phase, i : Nat]
    BY <1>14, <1>t DEF Replay, Step, TypeOK, Phase
  <2>4. QED BY <1>14, <1>t, <2>2, <2>3 DEF Replay, TypeOK
<1>15. CASE ClearHead
  BY <1>15, <1>t, <1>e DEF ClearHead, TypeOK, Phase, NotCommitting
<1>16. QED BY <1>1, <1>2, <1>3, <1>4, <1>5, <1>6, <1>7, <1>8, <1>9, <1>10,
   <1>11, <1>12, <1>13, <1>14, <1>15 DEF Next

\* Every step leaves calls, one commit or recovery running.
LEMMA ControlStep == LogInv /\ Next => Control'
<1> SUFFICES ASSUME LogInv, Next PROVE Control'
  OBVIOUS
<1> USE SMTT(30)
<1>t. TypeOK
  BY DEF LogInv
<1>c. Control
  BY DEF LogInv
<1>o. /\ IsFiniteSet(Ops) /\ Cardinality(Ops) \in Nat
      /\ \A p \in Proc : pc[p] = "op" => outstanding > 0
  BY OpsCounted DEF LogInv
<1>1. ASSUME NEW p \in Proc, Call(p) PROVE Control'
  <2>1. Ops' = Ops
    BY <1>1, <1>t DEF Call, Ops, TypeOK
  <2>2. QED BY <1>1, <1>t, <1>c, <2>1 DEF Call, Control, Recovering, Up, TypeOK
<1>2. ASSUME NEW p \in Proc, BeginOp(p) PROVE Control'
  <2>1. CASE MustWait
    <3>1. Ops' = Ops
      BY <1>2, <1>t, <2>1 DEF BeginOp, Ops, TypeOK
    <3>2. QED BY <1>2, <1>t, <1>c, <2>1, <3>1 DEF BeginOp, Control, Recovering,
       Up, TypeOK
  <2>2. CASE ~MustWait
    <3>1. Ops' = Ops \cup {p} /\ p \notin Ops
      BY <1>2, <1>t, <2>2 DEF BeginOp, Ops, TypeOK
    <3>2. Cardinality(Ops') = outstanding'
      BY <1>2, <1>c, <1>o, <2>2, <3>1, FS_AddElement, ZenonT(30) DEF BeginOp, Control
    <3>3. ~committing /\ ~Recovering /\ pc[p] = "begin"
      BY <1>2, <2>2 DEF BeginOp, Up, MustWait
    <3>4. \A q \in Proc : pc'[q] = "commit" <=> pc[q] = "commit"
      BY <1>2, <1>t, <2>2 DEF BeginOp, TypeOK
    <3>5. QED BY <1>2, <1>c, <2>2, <3>2, <3>3, <3>4 DEF BeginOp, Control,
       Recovering
  <2>3. QED BY <2>1, <2>2
<1>3. ASSUME NEW p \in Proc, LogWrite(p) PROVE Control'
  <2>1. Ops' = Ops
    BY <1>3 DEF LogWrite, Ops
  <2>2. com.ph = "none"
    BY <1>3, <1>t, <1>c, <1>o DEF LogWrite, Control, Up, Recovering, TypeOK, Phase
  <2>3. QED BY <1>3, <1>c, <2>1, <2>2 DEF LogWrite, Control, Recovering
<1>4. ASSUME NEW p \in Proc, EndOp(p) PROVE Control'
  <2>1. Ops' = Ops \ {p} /\ p \in Ops
    BY <1>4, <1>t DEF EndOp, Ops, TypeOK, Wakeup
  <2>2. Cardinality(Ops') = outstanding'
    BY <1>4, <1>c, <1>o, <2>1, FS_RemoveElement, ZenonT(30) DEF EndOp, Control
  <2>3. ~committing /\ ~Recovering /\ com.ph = "none" /\ ~halted
    BY <1>4, <1>t, <1>c, <1>o DEF EndOp, Control, Up, Recovering, TypeOK, Phase
  <2>4. CASE outstanding # 1
    <3>1. \A q \in Proc : pc'[q] = "commit" <=> pc[q] = "commit"
      BY <1>4, <1>t, <2>4 DEF EndOp, TypeOK, Wakeup
    <3>2. com' = com /\ committing' = committing /\ halted' = halted
      BY <1>4, <2>4 DEF EndOp
    <3>3. QED BY <1>c, <2>2, <2>3, <3>1, <3>2 DEF Control, Recovering
  <2>5. CASE outstanding = 1
    <3>1. \A q \in Proc : pc'[q] = "commit" <=> q = p
      BY <1>4, <1>t, <1>c, <2>3, <2>5 DEF EndOp, TypeOK, Control
    <3>2. /\ com'.ph \in {"log", "done"} /\ committing' /\ halted' = halted
          /\ outstanding' = 0
      BY <1>4, <2>5 DEF EndOp
    <3>3. QED BY <2>2, <2>3, <3>1, <3>2 DEF Control, Recovering
  <2>6. QED BY <2>4, <2>5
<1>5. ASSUME NEW p \in Proc, EndCommit(p) PROVE Control'
  <2>1. Ops' = Ops
    BY <1>5, <1>t DEF EndCommit, Ops, TypeOK, Wakeup
  <2>2. \A q \in Proc : pc'[q] # "commit"
    BY <1>5, <1>t, <1>c DEF EndCommit, TypeOK, Wakeup, Control
  <2>3. com'.ph = "none" /\ ~committing'
    BY <1>5 DEF EndCommit, NotCommitting
  <2>4. QED BY <1>5, <1>c, <2>1, <2>2, <2>3, ZenonT(30) DEF EndCommit, Control, Recovering
<1>6. ASSUME NEW b \in Block, Read(b) PROVE Control'
  BY <1>6, <1>c DEF Read, Control, Recovering, Ops
<1>7. ASSUME NEW b \in Block, Evict(b) PROVE Control'
  BY <1>7, <1>c DEF Evict, Control, Recovering, Ops
<1>8. CASE WriteLog
  BY <1>8, <1>c DEF WriteLog, Step, Control, Recovering, Ops
<1>9. CASE WriteHead
  BY <1>9, <1>c DEF WriteHead, Control, Recovering, Ops
<1>10. CASE InstallTrans
  BY <1>10, <1>c DEF InstallTrans, Step, Control, Recovering, Ops
<1>11. CASE EraseHead
  BY <1>11, <1>c DEF EraseHead, Control, Recovering, Ops
<1>12. CASE Crash
  <2>1. Ops' = {}
    BY <1>12 DEF Crash, Ops
  <2>2. Cardinality(Ops') = 0
    BY <2>1, FS_EmptySet
  <2>3. QED BY <1>12, <2>2 DEF Crash, Control, Recovering
<1>13. CASE ReadHead
  BY <1>13, <1>c DEF ReadHead, Control, Recovering, Ops
<1>14. CASE Replay
  BY <1>14, <1>c DEF Replay, Step, Control, Recovering, Ops
<1>15. CASE ClearHead
  BY <1>15, <1>c DEF ClearHead, NotCommitting, Control, Recovering, Ops
<1>16. QED BY <1>1, <1>2, <1>3, <1>4, <1>5, <1>6, <1>7, <1>8, <1>9, <1>10,
   <1>11, <1>12, <1>13, <1>14, <1>15 DEF Next

\* A call goes to sleep only beside one that will wake it, and begin_op does
\* not sleep when the log is empty.
LEMMA SleeperStep == LogInv /\ Next => SleeperWillWake'
<1> SUFFICES ASSUME LogInv, Next PROVE SleeperWillWake'
  OBVIOUS
<1> USE SMTT(30)
<1>t. TypeOK
  BY DEF LogInv
<1>c. Control
  BY DEF LogInv
<1>s. SleeperWillWake
  BY DEF LogInv
<1>1. ASSUME NEW p \in Proc, Call(p) PROVE SleeperWillWake'
  BY <1>1, <1>s, <1>t DEF Call, SleeperWillWake, TypeOK
<1>2. ASSUME NEW p \in Proc, BeginOp(p) PROVE SleeperWillWake'
  <2>1. CASE MustWait
    <3>1. outstanding > 0 \/ committing
      <4> SUFFICES ASSUME outstanding = 0, ~committing PROVE FALSE
        BY <1>t DEF TypeOK
      <4>1. com.ph = "none"
        BY <1>2, <1>t, <1>c DEF BeginOp, Up, Recovering, Control, TypeOK, Phase
      <4>2. Len(lh) = 0
        BY <4>1, EmptySeq DEF LogInv, Headers
      <4>3. (outstanding + 1) * MAXOPBLOCKS = MAXOPBLOCKS
        BY LogAssumption
      <4>4. QED BY <2>1, <4>2, <4>3, LogAssumption DEF MustWait, NoRoom
    <3>2. QED BY <1>2, <2>1, <3>1 DEF BeginOp, SleeperWillWake
  <2>2. CASE ~MustWait
    BY <1>2, <1>t, <2>2 DEF BeginOp, SleeperWillWake, TypeOK
  <2>3. QED BY <2>1, <2>2
<1>3. ASSUME NEW p \in Proc, LogWrite(p) PROVE SleeperWillWake'
  BY <1>3, <1>s DEF LogWrite, SleeperWillWake, Record
<1>4. ASSUME NEW p \in Proc, EndOp(p) PROVE SleeperWillWake'
  <2>1. CASE outstanding # 1
    BY <1>4, <1>t, <2>1 DEF EndOp, Wakeup, SleeperWillWake, TypeOK
  <2>2. CASE outstanding = 1
    BY <1>4, <2>2 DEF EndOp, SleeperWillWake
  <2>3. QED BY <2>1, <2>2
<1>5. ASSUME NEW p \in Proc, EndCommit(p) PROVE SleeperWillWake'
  BY <1>5, <1>t DEF EndCommit, Wakeup, SleeperWillWake, TypeOK
<1>6. ASSUME NEW b \in Block, Read(b) PROVE SleeperWillWake'
  BY <1>6, <1>s DEF Read, SleeperWillWake
<1>7. ASSUME NEW b \in Block, Evict(b) PROVE SleeperWillWake'
  BY <1>7, <1>s DEF Evict, SleeperWillWake
<1>8. CASE WriteLog
  BY <1>8, <1>s DEF WriteLog, SleeperWillWake
<1>9. CASE WriteHead
  BY <1>9, <1>s DEF WriteHead, SleeperWillWake
<1>10. CASE InstallTrans
  BY <1>10, <1>s DEF InstallTrans, SleeperWillWake
<1>11. CASE EraseHead
  BY <1>11, <1>s DEF EraseHead, SleeperWillWake
<1>12. CASE Crash
  BY <1>12, <1>s DEF Crash, SleeperWillWake
<1>13. CASE ReadHead
  BY <1>13, <1>s DEF ReadHead, SleeperWillWake
<1>14. CASE Replay
  BY <1>14, <1>s DEF Replay, SleeperWillWake
<1>15. CASE ClearHead
  BY <1>15, <1>s DEF ClearHead, SleeperWillWake
<1>16. QED BY <1>1, <1>2, <1>3, <1>4, <1>5, <1>6, <1>7, <1>8, <1>9, <1>10,
   <1>11, <1>12, <1>13, <1>14, <1>15 DEF Next

\* The two headers.
LEMMA HeadersStep == LogInv /\ Next => Headers'
<1> SUFFICES ASSUME LogInv, Next PROVE Headers'
  OBVIOUS
<1> USE SMTT(30)
<1>t. TypeOK
  BY DEF LogInv
<1>c. Control
  BY DEF LogInv
<1>s. Headers
  BY DEF LogInv
<1>h. Len(lh) \in Nat /\ (lh = <<>> <=> Len(lh) = 0)
  BY <1>t, HeaderFacts DEF TypeOK
<1>1. ASSUME NEW p \in Proc, Call(p) PROVE Headers'
  BY <1>1, <1>s, <1>t DEF Call, Headers, disk
<1>2. ASSUME NEW p \in Proc, BeginOp(p) PROVE Headers'
  <2>1. CASE MustWait
    BY <1>2, <1>s, <2>1 DEF BeginOp, Headers, disk
  <2>2. CASE ~MustWait
    <3>1. com.ph # "done"
      BY <1>2, <1>c, <2>2 DEF BeginOp, Control, MustWait
    <3>2. QED BY <1>2, <1>s, <1>t, <2>2, <3>1 DEF BeginOp, Headers, disk, TypeOK
  <2>3. QED BY <2>1, <2>2
<1>3. ASSUME NEW p \in Proc, LogWrite(p) PROVE Headers'
  <2>1. com.ph = "none" /\ outstanding # 0
    BY <1>3, <1>t, <1>c, OpsCounted DEF LogWrite, Control, Up, Recovering,
       TypeOK, Phase
  <2>2. QED BY <1>3, <1>s, <2>1 DEF LogWrite, Headers, disk
<1>4. ASSUME NEW p \in Proc, EndOp(p) PROVE Headers'
  <2>1. com.ph = "none" /\ outstanding \in Nat \ {0}
    BY <1>4, <1>t, <1>c, OpsCounted DEF EndOp, Control, Up, Recovering, TypeOK,
       Phase
  <2>2. CASE outstanding # 1
    BY <1>4, <1>s, <2>1, <2>2 DEF EndOp, Headers, disk
  <2>3. CASE outstanding = 1 /\ lh = <<>>
    <3>1. com'.ph = "done" /\ lh' = <<>> /\ head' = head
      BY <1>4, <2>3 DEF EndOp, disk
    <3>2. QED BY <1>s, <2>1, <3>1 DEF Headers
  <2>4. CASE outstanding = 1 /\ lh # <<>>
    <3>1. com'.ph = "log" /\ com'.i = 1 /\ lh' = lh /\ head' = head
      BY <1>4, <2>4 DEF EndOp, disk
    <3>2. Len(lh) > 0
      BY <2>4, <1>h
    <3>3. QED BY <1>s, <1>h, <2>1, <3>1, <3>2 DEF Headers
  <2>5. QED BY <2>2, <2>3, <2>4
<1>5. ASSUME NEW p \in Proc, EndCommit(p) PROVE Headers'
  BY <1>5, <1>s, <1>t DEF EndCommit, Headers, disk, NotCommitting
<1>6. ASSUME NEW b \in Block, Read(b) PROVE Headers'
  BY <1>6, <1>s, <1>t DEF Read, Headers, disk
<1>7. ASSUME NEW b \in Block, Evict(b) PROVE Headers'
  BY <1>7, <1>s, <1>t DEF Evict, Headers, disk
<1>8. CASE WriteLog
  <2>1. CASE com.i < Len(lh)
    <3>1. com'.ph = com.ph /\ com'.i = com.i + 1
      BY <1>8, <2>1 DEF WriteLog, Step
    <3>2. QED BY <1>8, <1>s, <1>h, <1>t, <2>1, <3>1 DEF WriteLog, Headers, TypeOK
  <2>2. CASE ~(com.i < Len(lh))
    <3>1. com'.ph = "commit" /\ com'.i = 1
      BY <1>8, <2>2 DEF WriteLog, Step
    <3>2. QED BY <1>8, <1>s, <1>h, <3>1 DEF WriteLog, Headers
  <2>3. QED BY <2>1, <2>2
<1>9. CASE WriteHead
  BY <1>9, <1>s, <1>h DEF WriteHead, Headers
<1>10. CASE InstallTrans
  <2>1. CASE com.i < Len(lh)
    <3>1. com'.ph = com.ph /\ com'.i = com.i + 1
      BY <1>10, <2>1 DEF InstallTrans, Step
    <3>2. QED BY <1>10, <1>s, <1>h, <1>t, <2>1, <3>1 DEF InstallTrans, Headers,
       TypeOK
  <2>2. CASE ~(com.i < Len(lh))
    <3>1. com'.ph = "erase" /\ com'.i = 1
      BY <1>10, <2>2 DEF InstallTrans, Step
    <3>2. QED BY <1>10, <1>s, <1>h, <3>1 DEF InstallTrans, Headers
  <2>3. QED BY <2>1, <2>2
<1>11. CASE EraseHead
  BY <1>11, <1>s, <1>t DEF EraseHead, Headers, disk
<1>12. CASE Crash
  BY <1>12, <1>s, <1>t DEF Crash, Headers, disk
<1>13. CASE ReadHead
  <2>1. CASE head = <<>>
    BY <1>13, <2>1 DEF ReadHead, Headers
  <2>2. CASE head # <<>>
    <3>1. Len(head) \in Nat /\ Len(head) > 0
      BY <2>2, <1>t, HeaderFacts DEF TypeOK
    <3>2. QED BY <1>13, <2>2, <3>1 DEF ReadHead, Headers, disk
  <2>3. QED BY <2>1, <2>2
<1>14. CASE Replay
  <2>1. CASE com.i < Len(lh)
    <3>1. com'.ph = com.ph /\ com'.i = com.i + 1
      BY <1>14, <2>1 DEF Replay, Step
    <3>2. QED BY <1>14, <1>s, <1>h, <1>t, <2>1, <3>1 DEF Replay, Headers, TypeOK
  <2>2. CASE ~(com.i < Len(lh))
    <3>1. com'.ph = "clear" /\ com'.i = 1
      BY <1>14, <2>2 DEF Replay, Step
    <3>2. QED BY <1>14, <1>s, <1>h, <3>1 DEF Replay, Headers
  <2>3. QED BY <2>1, <2>2
<1>15. CASE ClearHead
  BY <1>15, <1>s DEF ClearHead, Headers, NotCommitting
<1>16. QED BY <1>1, <1>2, <1>3, <1>4, <1>5, <1>6, <1>7, <1>8, <1>9, <1>10,
   <1>11, <1>12, <1>13, <1>14, <1>15 DEF Next

\* write_log finds the blocks of the transaction in the cache.
LEMMA WriteLogReads ==
    ASSUME LogInv, WriteLog
    PROVE  cache' = cache /\ Bread(lh[com.i]) = cache[lh[com.i]]
<1>1. lh[com.i] \in Block /\ Logged(lh[com.i])
  BY HeaderFacts, SMTT(30) DEF LogInv, TypeOK, Headers, WriteLog, Logged
<1>2. cache[lh[com.i]] # NoBuf
  BY <1>1, SMTT(30) DEF LogInv, Buffers, Dirty, WriteLog
<1>3. QED BY <1>1, <1>2 DEF WriteLog, Bread, LogInv, TypeOK

\* The buffers.
LEMMA BuffersStep == LogInv /\ Next => Buffers'
<1> SUFFICES ASSUME LogInv, Next PROVE Buffers'
  OBVIOUS
<1> USE SMTT(30)
<1>t. TypeOK
  BY DEF LogInv
<1>c. Control
  BY DEF LogInv
<1>s. Headers
  BY DEF LogInv
<1>b. Buffers
  BY DEF LogInv
<1>h. /\ lh \in Seq(Block) /\ Len(lh) \in Nat /\ DOMAIN lh = 1 .. Len(lh)
      /\ \A j \in 1 .. Len(lh) : lh[j] \in Block /\ j \in Slot
      /\ \A i, j \in 1 .. Len(lh) : lh[i] = lh[j] => i = j
  BY <1>t, HeaderFacts DEF TypeOK
<1>d. \A b \in Block : Logged(b) <=> \E j \in 1 .. Len(lh) : lh[j] = b
  BY <1>h DEF Logged
<1>e. lh' = <<>> => \A b \in Block : ~Logged(b)'
  BY DEF Logged
<1>1. ASSUME NEW p \in Proc, Call(p) PROVE Buffers'
  <2>1. \A x \in Block : Dirty(x)' <=> Dirty(x)
    BY <1>1 DEF Call, Dirty, Logged
  <2>2. QED BY <1>1, <1>b, <2>1 DEF Call, Buffers, disk
<1>2. ASSUME NEW p \in Proc, BeginOp(p) PROVE Buffers'
  <2>1. \A x \in Block : Dirty(x)' <=> Dirty(x)
    BY <1>2 DEF BeginOp, Dirty, Logged
  <2>2. QED BY <1>2, <1>b, <2>1 DEF BeginOp, Buffers, disk
<1>3. ASSUME NEW p \in Proc, LogWrite(p) PROVE Buffers'
  <2>1. com.ph = "none" /\ com' = com
    BY <1>3, <1>t, <1>c, OpsCounted DEF LogWrite, Control, Up, Recovering,
       TypeOK, Phase
  <2>2. CASE UNCHANGED <<cache, pins, lh, wrote>>
    BY <1>3, <1>b, <2>1, <2>2 DEF LogWrite, disk, Buffers, Dirty, Logged
  <2>3. ASSUME NEW b \in Block, NEW v \in Val, Record(p, b, v) PROVE Buffers'
    <3>1. \A x \in Block : Dirty(x) <=> Logged(x)
      BY <2>1 DEF Dirty
    <3>2. \A x \in Block : Logged(x)' <=> Logged(x) \/ x = b
      <4>1. CASE Logged(b)
        BY <2>3, <4>1 DEF Record, Logged
      <4>2. CASE ~Logged(b)
        <5>1. lh' = Append(lh, b)
          BY <2>3, <4>2 DEF Record
        <5>2. /\ DOMAIN lh' = 1 .. Len(lh) + 1
              /\ \A j \in 1 .. Len(lh) : lh'[j] = lh[j]
              /\ lh'[Len(lh) + 1] = b
          BY <5>1, <1>h, AppendFacts, LenProperties
        <5>3. QED BY <5>2, <1>h DEF Logged
      <4>3. QED BY <4>1, <4>2
    <3>3. \A x \in Block : Dirty(x)' <=> Dirty(x) \/ x = b
      BY <2>1, <3>1, <3>2 DEF Dirty
    <3>4. ASSUME NEW x \in Block
          PROVE /\ pins'[x] = IF x = b THEN 1 ELSE pins[x]
                /\ cache'[x] = IF x = b THEN v ELSE cache[x]
      BY <1>t, <1>b, <2>3, <3>1 DEF Record, TypeOK, Buffers
    <3>5. QED BY <1>3, <1>b, <3>3, <3>4, LogAssumption DEF LogWrite, disk, Buffers
  <2>4. QED BY <1>3, <2>2, <2>3 DEF LogWrite
<1>4. ASSUME NEW p \in Proc, EndOp(p) PROVE Buffers'
  <2>1. com.ph = "none"
    BY <1>4, <1>t, <1>c, OpsCounted DEF EndOp, Control, Up, Recovering, TypeOK,
       Phase
  <2>2. com' = com \/ com'.ph = "log" \/ (com'.ph = "done" /\ lh = <<>>)
    BY <1>4 DEF EndOp
  <2>3. \A x \in Block : Logged(x)' <=> Logged(x)
    BY <1>4 DEF EndOp, Logged
  <2>4. \A x \in Block : Dirty(x)' <=> Dirty(x)
    BY <1>4, <1>e, <2>1, <2>2, <2>3 DEF EndOp, Dirty
  <2>5. QED BY <1>4, <1>b, <2>4 DEF EndOp, Buffers, disk
<1>5. ASSUME NEW p \in Proc, EndCommit(p) PROVE Buffers'
  <2>1. \A x \in Block : ~Dirty(x) /\ ~Dirty(x)'
    BY <1>5, <1>s, <1>e DEF EndCommit, Headers, NotCommitting, Dirty
  <2>2. QED BY <1>5, <1>b, <2>1 DEF EndCommit, Buffers, disk
<1>6. ASSUME NEW b \in Block, Read(b) PROVE Buffers'
  <2>1. \A x \in Block : Dirty(x)' <=> Dirty(x)
    BY <1>6 DEF Read, Dirty, Logged
  <2>2. ~Dirty(b)
    BY <1>6, <1>b DEF Read, Buffers
  <2>3. QED BY <1>6, <1>b, <1>t, <2>1, <2>2 DEF Read, Bread, Buffers, disk, TypeOK
<1>7. ASSUME NEW b \in Block, Evict(b) PROVE Buffers'
  <2>1. \A x \in Block : Dirty(x)' <=> Dirty(x)
    BY <1>7 DEF Evict, Dirty, Logged
  <2>2. ~Dirty(b)
    BY <1>7, <1>b DEF Evict, Buffers
  <2>3. QED BY <1>7, <1>b, <1>t, <2>1, <2>2 DEF Evict, Buffers, disk, TypeOK
<1>8. CASE WriteLog
  <2>1. cache' = cache
    BY WriteLogReads, <1>8
  <2>2. com'.ph \in {"log", "commit"}
    BY <1>8 DEF WriteLog, Step
  <2>3. \A x \in Block : Dirty(x)' <=> Dirty(x)
    BY <1>8, <2>2 DEF WriteLog, Dirty, Logged
  <2>4. QED BY <1>8, <1>b, <2>1, <2>3 DEF WriteLog, Buffers
<1>9. CASE WriteHead
  <2>1. \A x \in Block : Dirty(x)' <=> Dirty(x)
    BY <1>9, <1>d DEF WriteHead, Dirty
  <2>2. QED BY <1>9, <1>b, <2>1 DEF WriteHead, Buffers
<1>10. CASE InstallTrans
  <2>1. com.i \in 1 .. Len(lh) /\ lh[com.i] \in Block /\ lh' = lh
    BY <1>10, <1>s, <1>h DEF InstallTrans, Headers
  <2>2. \A x \in Block : Dirty(x) <=> \E j \in com.i .. Len(lh) : lh[j] = x
    BY <1>10 DEF InstallTrans, Dirty
  <2>3. \A x \in Block : Dirty(x)' <=> \E j \in com.i + 1 .. Len(lh) : lh[j] = x
    <3>1. CASE com.i < Len(lh)
      <4>1. com'.ph = "install" /\ com'.i = com.i + 1
        BY <1>10, <3>1 DEF InstallTrans, Step
      <4>2. QED BY <2>1, <4>1 DEF Dirty
    <3>2. CASE ~(com.i < Len(lh))
      <4>1. com'.ph = "erase"
        BY <1>10, <3>2 DEF InstallTrans, Step
      <4>2. com.i + 1 .. Len(lh) = {}
        BY <2>1, <3>2, <1>h
      <4>3. QED BY <4>1, <4>2 DEF Dirty
    <3>3. QED BY <3>1, <3>2
  <2>4. \A x \in Block : Dirty(x)' <=> Dirty(x) /\ x # lh[com.i]
    <3>1. \A j \in com.i .. Len(lh) : j = com.i \/ j \in com.i + 1 .. Len(lh)
      BY <2>1, <1>h
    <3>2. \A j \in com.i + 1 .. Len(lh) : j \in com.i .. Len(lh) /\ lh[j] # lh[com.i]
      BY <2>1, <1>h
    <3>3. QED BY <2>2, <2>3, <3>1, <3>2
  <2>5. Dirty(lh[com.i]) /\ pins[lh[com.i]] = 1
    BY <1>b, <1>h, <2>1, <2>2 DEF Buffers
  <2>6. ASSUME NEW x \in Block
        PROVE IF x = lh[com.i] THEN pins'[x] = 0 /\ cache'[x] = home'[x]
              ELSE pins'[x] = pins[x] /\ cache'[x] = cache[x] /\ home'[x] = home[x]
    BY <1>10, <1>t, <2>1, <2>5 DEF InstallTrans, TypeOK
  <2>7. QED BY <1>b, <2>4, <2>6 DEF Buffers
<1>11. CASE EraseHead
  <2>1. \A x \in Block : ~Dirty(x) /\ ~Dirty(x)'
    BY <1>11, <1>e DEF EraseHead, Dirty
  <2>2. QED BY <1>11, <1>b, <2>1 DEF EraseHead, Buffers, disk
<1>12. CASE Crash
  <2>1. \A x \in Block : ~Dirty(x)'
    BY <1>12 DEF Crash, Dirty
  <2>2. QED BY <1>12, <2>1 DEF Crash, Buffers
<1>13. CASE ReadHead
  <2>1. \A x \in Block : ~Dirty(x) /\ ~Dirty(x)'
    BY <1>13, <1>e DEF ReadHead, Dirty
  <2>2. QED BY <1>13, <1>b, <2>1 DEF ReadHead, Buffers, disk
<1>14. CASE Replay
  <2>1. com'.ph \in {"replay", "clear"} /\ com.ph = "replay"
    BY <1>14 DEF Replay, Step
  <2>2. \A x \in Block : ~Dirty(x) /\ ~Dirty(x)'
    BY <2>1 DEF Dirty
  <2>3. lh[com.i] \in Block
    BY <2>1, <1>s, <1>h DEF Headers
  <2>4. QED BY <1>14, <1>b, <1>t, <2>2, <2>3 DEF Replay, Buffers, TypeOK
<1>15. CASE ClearHead
  <2>1. \A x \in Block : ~Dirty(x) /\ ~Dirty(x)'
    BY <1>15, <1>e DEF ClearHead, Dirty, NotCommitting
  <2>2. QED BY <1>15, <1>b, <2>1 DEF ClearHead, Buffers, disk
<1>16. QED BY <1>1, <1>2, <1>3, <1>4, <1>5, <1>6, <1>7, <1>8, <1>9, <1>10,
   <1>11, <1>12, <1>13, <1>14, <1>15 DEF Next

\* How far the copying has come.
LEMMA CopiedStep == LogInv /\ Next => Copied'
<1> SUFFICES ASSUME LogInv, Next PROVE Copied'
  OBVIOUS
<1> USE SMTT(30)
<1>t. TypeOK
  BY DEF LogInv
<1>c. Control
  BY DEF LogInv
<1>s. Headers
  BY DEF LogInv
<1>b. Buffers
  BY DEF LogInv
<1>h. /\ lh \in Seq(Block) /\ Len(lh) \in Nat /\ DOMAIN lh = 1 .. Len(lh)
      /\ \A j \in 1 .. Len(lh) : lh[j] \in Block /\ j \in Slot
      /\ \A i, j \in 1 .. Len(lh) : lh[i] = lh[j] => i = j
  BY <1>t, HeaderFacts DEF TypeOK
<1>d. \A b \in Block : Logged(b) <=> \E j \in 1 .. Len(lh) : lh[j] = b
  BY <1>h DEF Logged
<1>p. Copied
  BY DEF LogInv
<1>1. ASSUME NEW p \in Proc, Call(p) PROVE Copied'
  BY <1>1, <1>p DEF Call, Copied, disk
<1>2. ASSUME NEW p \in Proc, BeginOp(p) PROVE Copied'
  BY <1>2, <1>p DEF BeginOp, Copied, disk
<1>3. ASSUME NEW p \in Proc, LogWrite(p) PROVE Copied'
  <2>1. com'.ph = "none"
    BY <1>3, <1>t, <1>c, OpsCounted DEF LogWrite, Control, Up, Recovering,
       TypeOK, Phase
  <2>2. QED BY <2>1 DEF Copied
<1>4. ASSUME NEW p \in Proc, EndOp(p) PROVE Copied'
  <2>1. com.ph = "none"
    BY <1>4, <1>t, <1>c, OpsCounted DEF EndOp, Control, Up, Recovering, TypeOK,
       Phase
  <2>2. com'.ph \in {"none", "done"} \/ (com'.ph = "log" /\ com'.i = 1)
    BY <1>4, <2>1 DEF EndOp
  <2>3. QED BY <2>2 DEF Copied
<1>5. ASSUME NEW p \in Proc, EndCommit(p) PROVE Copied'
  BY <1>5 DEF EndCommit, NotCommitting, Copied
<1>6. ASSUME NEW b \in Block, Read(b) PROVE Copied'
  <2>1. ~Dirty(b)
    BY <1>6, <1>b DEF Read, Buffers
  <2>2. \A x \in Block : Dirty(x) => cache'[x] = cache[x]
    BY <1>6, <1>t, <2>1 DEF Read, TypeOK
  <2>3. com.ph \in {"log", "commit"} => \A j \in 1 .. Len(lh) : Dirty(lh[j])
    BY <1>d, <1>h DEF Dirty
  <2>4. com.ph = "install" =>
          com.i \in 1 .. Len(lh) /\ \A j \in com.i .. Len(lh) : Dirty(lh[j])
    BY <1>s DEF Dirty, Headers
  <2>5. com.ph = "log" => com.i \in 1 .. Len(lh)
    BY <1>s DEF Headers
  <2>6. com.ph = "log" => \A j \in 1 .. com.i - 1 : logd[j] = cache'[lh[j]]
    BY <1>p, <1>h, <2>2, <2>3, <2>5 DEF Copied
  <2>7. com.ph = "commit" => \A j \in 1 .. Len(lh) : logd[j] = cache'[lh[j]]
    BY <1>p, <1>h, <2>2, <2>3 DEF Copied
  <2>8. com.ph = "install" => \A j \in com.i .. Len(lh) : logd[j] = cache'[lh[j]]
    BY <1>p, <1>h, <2>2, <2>4 DEF Copied
  <2>9. QED BY <1>6, <1>p, <2>6, <2>7, <2>8 DEF Read, Copied, disk
<1>7. ASSUME NEW b \in Block, Evict(b) PROVE Copied'
  <2>1. ~Dirty(b)
    BY <1>7, <1>b DEF Evict, Buffers
  <2>2. \A x \in Block : Dirty(x) => cache'[x] = cache[x]
    BY <1>7, <1>t, <2>1 DEF Evict, TypeOK
  <2>3. com.ph \in {"log", "commit"} => \A j \in 1 .. Len(lh) : Dirty(lh[j])
    BY <1>d, <1>h DEF Dirty
  <2>4. com.ph = "install" =>
          com.i \in 1 .. Len(lh) /\ \A j \in com.i .. Len(lh) : Dirty(lh[j])
    BY <1>s DEF Dirty, Headers
  <2>5. com.ph = "log" => com.i \in 1 .. Len(lh)
    BY <1>s DEF Headers
  <2>6. com.ph = "log" => \A j \in 1 .. com.i - 1 : logd[j] = cache'[lh[j]]
    BY <1>p, <1>h, <2>2, <2>3, <2>5 DEF Copied
  <2>7. com.ph = "commit" => \A j \in 1 .. Len(lh) : logd[j] = cache'[lh[j]]
    BY <1>p, <1>h, <2>2, <2>3 DEF Copied
  <2>8. com.ph = "install" => \A j \in com.i .. Len(lh) : logd[j] = cache'[lh[j]]
    BY <1>p, <1>h, <2>2, <2>4 DEF Copied
  <2>9. QED BY <1>7, <1>p, <2>6, <2>7, <2>8 DEF Evict, Copied, disk
<1>8. CASE WriteLog
  <2>1. com.i \in 1 .. Len(lh) /\ com.i \in Slot /\ lh' = lh
    BY <1>8, <1>s, <1>h DEF WriteLog, Headers
  <2>2. cache' = cache /\ Bread(lh[com.i]) = cache[lh[com.i]]
    BY <1>8, WriteLogReads
  <2>3. ASSUME NEW j \in 1 .. com.i PROVE logd'[j] = cache'[lh'[j]]
    <3>1. CASE j = com.i
      BY <1>8, <1>t, <2>1, <2>2, <3>1 DEF WriteLog, TypeOK
    <3>2. CASE j # com.i
      <4>1. j \in 1 .. com.i - 1 /\ j \in Slot
        BY <1>h, <2>1, <3>2
      <4>2. logd[j] = cache[lh[j]]
        BY <1>8, <1>p, <4>1 DEF WriteLog, Copied
      <4>3. QED BY <1>8, <1>t, <2>1, <2>2, <3>2, <4>1, <4>2 DEF WriteLog, TypeOK
    <3>3. QED BY <3>1, <3>2
  <2>4. CASE com.i < Len(lh)
    <3>1. com'.ph = "log" /\ com'.i = com.i + 1
      BY <1>8, <2>4 DEF WriteLog, Step
    <3>2. 1 .. com'.i - 1 = 1 .. com.i
      BY <2>1, <3>1
    <3>3. QED BY <2>3, <3>1, <3>2, ZenonT(30) DEF Copied
  <2>5. CASE ~(com.i < Len(lh))
    <3>1. com'.ph = "commit" /\ com.i = Len(lh)
      BY <1>8, <1>h, <2>1, <2>5 DEF WriteLog, Step
    <3>2. QED BY <2>1, <2>3, <3>1 DEF Copied
  <2>6. QED BY <2>4, <2>5
<1>9. CASE WriteHead
  <2>1. com'.ph = "install" /\ com'.i = 1
    BY <1>9 DEF WriteHead
  <2>2. QED BY <1>9, <1>p, <2>1 DEF WriteHead, Copied
<1>10. CASE InstallTrans
  <2>1. /\ com.i \in 1 .. Len(lh) /\ com.i \in Slot /\ lh[com.i] \in Block
        /\ lh' = lh /\ head' = lh' /\ logd' = logd
    BY <1>10, <1>s, <1>h DEF InstallTrans, Headers
  <2>2. ASSUME NEW j \in 1 .. com.i PROVE home'[lh'[j]] = logd'[j]
    <3>1. CASE j = com.i
      BY <1>10, <1>t, <2>1, <3>1 DEF InstallTrans, TypeOK
    <3>2. CASE j # com.i
      <4>1. j \in 1 .. com.i - 1 /\ lh[j] \in Block /\ lh[j] # lh[com.i]
        BY <1>h, <2>1, <3>2
      <4>2. home[lh[j]] = logd[j]
        BY <1>10, <1>p, <4>1 DEF InstallTrans, Copied
      <4>3. QED BY <1>10, <1>t, <2>1, <4>1, <4>2 DEF InstallTrans, TypeOK
    <3>3. QED BY <3>1, <3>2
  <2>3. \A j \in com.i + 1 .. Len(lh) : logd'[j] = cache'[lh'[j]]
    BY <1>10, <1>t, <1>p, <1>h, <2>1 DEF InstallTrans, Copied, TypeOK
  <2>4. CASE com.i < Len(lh)
    <3>1. com'.ph = "install" /\ com'.i = com.i + 1
      BY <1>10, <2>4 DEF InstallTrans, Step
    <3>2. 1 .. com'.i - 1 = 1 .. com.i /\ com'.i .. Len(lh') = com.i + 1 .. Len(lh)
      BY <1>h, <2>1, <3>1
    <3>3. QED BY <2>2, <2>3, <3>1, <3>2, ZenonT(30) DEF Copied
  <2>5. CASE ~(com.i < Len(lh))
    <3>1. com'.ph = "erase" /\ com.i = Len(lh)
      BY <1>10, <1>h, <2>1, <2>5 DEF InstallTrans, Step
    <3>2. QED BY <2>1, <2>2, <3>1 DEF Copied
  <2>6. QED BY <2>4, <2>5
<1>11. CASE EraseHead
  BY <1>11 DEF EraseHead, Copied
<1>12. CASE Crash
  BY <1>12 DEF Crash, Copied
<1>13. CASE ReadHead
  <2>1. CASE head = <<>>
    <3>1. com'.ph = "clear" /\ head' = <<>>
      BY <1>13, <2>1 DEF ReadHead, disk
    <3>2. QED BY <3>1 DEF Copied
  <2>2. CASE head # <<>>
    <3>1. com'.ph = "replay" /\ com'.i = 1
      BY <1>13, <2>2 DEF ReadHead
    <3>2. QED BY <3>1 DEF Copied
  <2>3. QED BY <2>1, <2>2
<1>14. CASE Replay
  <2>1. /\ com.i \in 1 .. Len(lh) /\ com.i \in Slot /\ lh[com.i] \in Block
        /\ lh' = lh /\ head' = lh' /\ logd' = logd
    BY <1>14, <1>s, <1>h DEF Replay, Headers
  <2>2. ASSUME NEW j \in 1 .. com.i PROVE home'[lh'[j]] = logd'[j]
    <3>1. CASE j = com.i
      BY <1>14, <1>t, <2>1, <3>1 DEF Replay, TypeOK
    <3>2. CASE j # com.i
      <4>1. j \in 1 .. com.i - 1 /\ lh[j] \in Block /\ lh[j] # lh[com.i]
        BY <1>h, <2>1, <3>2
      <4>2. home[lh[j]] = logd[j]
        BY <1>14, <1>p, <4>1 DEF Replay, Copied
      <4>3. QED BY <1>14, <1>t, <2>1, <4>1, <4>2 DEF Replay, TypeOK
    <3>3. QED BY <3>1, <3>2
  <2>4. CASE com.i < Len(lh)
    <3>1. com'.ph = "replay" /\ com'.i = com.i + 1
      BY <1>14, <2>4 DEF Replay, Step
    <3>2. 1 .. com'.i - 1 = 1 .. com.i
      BY <2>1, <3>1
    <3>3. QED BY <2>2, <3>1, <3>2, ZenonT(30) DEF Copied
  <2>5. CASE ~(com.i < Len(lh))
    <3>1. com'.ph = "clear" /\ com.i = Len(lh)
      BY <1>14, <1>h, <2>1, <2>5 DEF Replay, Step
    <3>2. QED BY <2>1, <2>2, <3>1 DEF Copied
  <2>6. QED BY <2>4, <2>5
<1>15. CASE ClearHead
  BY <1>15, ZenonT(30) DEF ClearHead, NotCommitting, Copied
<1>16. QED BY <1>1, <1>2, <1>3, <1>4, <1>5, <1>6, <1>7, <1>8, <1>9, <1>10,
   <1>11, <1>12, <1>13, <1>14, <1>15 DEF Next

-----------------------------------------------------------------------------

LEMMA LogInvInit == Init => LogInv
<1> SUFFICES ASSUME Init PROVE LogInv
  OBVIOUS
<1>1. Len(<<>>) = 0 /\ IsHeader(<<>>)
  BY EmptySeq DEF IsHeader, Slot
<1>2. TypeOK
  BY <1>1, LogAssumption DEF Init, TypeOK, NotCommitting, Phase
<1>3. Ops = {} /\ Cardinality(Ops) = 0
  BY FS_EmptySet DEF Init, Ops
<1>4. Control /\ SleeperWillWake
  BY <1>3 DEF Init, Control, SleeperWillWake, Recovering, NotCommitting
<1>5. Headers /\ Copied
  BY DEF Init, Headers, Copied, NotCommitting
<1>6. Buffers
  BY DEF Init, Buffers, Dirty, Logged, NotCommitting
<1>7. QED BY <1>2, <1>4, <1>5, <1>6 DEF LogInv

LEMMA LogInvStep == LogInv /\ [Next]_vars => LogInv'
<1>1. LogInv /\ Next => LogInv'
  BY TypeStep, ControlStep, SleeperStep, HeadersStep, BuffersStep, CopiedStep
     DEF LogInv
<1>2. ASSUME LogInv, UNCHANGED vars PROVE LogInv'
  <2> USE <1>2 DEF LogInv, vars
  <2>1. TypeOK' /\ SleeperWillWake'
    BY SMTT(30) DEF TypeOK, SleeperWillWake
  <2>2. Control' /\ Headers'
    BY SMTT(30) DEF Control, Ops, Recovering, Headers
  <2>3. Buffers'
    BY DEF Buffers, Dirty, Logged
  <2>4. Copied'
    BY DEF Copied
  <2>5. QED BY <2>1, <2>2, <2>3, <2>4, SMTT(30)
<1>3. QED BY <1>1, <1>2

LEMMA LogInvHolds == Spec => []LogInv
  BY LogInvInit, LogInvStep, PTL DEF Spec

\* For any number of processes: log.outstanding counts the calls in progress,
\* and the panics of end_op and log_write about it are unreachable.
THEOREM LogPanicsUnreachable == Spec => []PanicsUnreachable
<1>1. LogInv => PanicsUnreachable
  BY DEF LogInv, Control, Ops, PanicsUnreachable
<1>2. QED BY <1>1, LogInvHolds, PTL

\* Whoever sleeps in begin_op has somebody to wake it, for any log that has
\* room for one call.
THEOREM LogSleeperWillWake == Spec => []SleeperWillWake
<1>1. LogInv => SleeperWillWake
  BY DEF LogInv
<1>2. QED BY <1>1, LogInvHolds, PTL

\* When no call is in progress everything written is on disk.
THEOREM LogQuietMeansDurable == Spec => []QuietMeansDurable
<1>1. LogInv => QuietMeansDurable
  <2> SUFFICES ASSUME LogInv, Up, ~committing, outstanding = 0
               PROVE  lh = <<>> /\ head = <<>> /\ \A b \in Block : Bread(b) = home[b]
    BY DEF QuietMeansDurable
  <2>1. com.ph = "none"
    BY DEF LogInv, TypeOK, Phase, Control, Up, Recovering
  <2>2. lh = <<>> /\ head = <<>>
    BY <2>1 DEF LogInv, Headers
  <2>3. \A b \in Block : ~Dirty(b)
    BY <2>1, <2>2, SMTT(30) DEF Dirty, Logged
  <2>4. QED BY <2>2, <2>3 DEF LogInv, Buffers, Bread
<1>2. QED BY <1>1, LogInvHolds, PTL

-----------------------------------------------------------------------------

\* What a header's overlay holds.
LEMMA OverlayFacts ==
    ASSUME NEW h, IsHeader(h), NEW l, NEW d
    PROVE  /\ \A j \in 1 .. Len(h) : Overlay(h, l, d)[h[j]] = l[j]
           /\ \A b \in Block : (\A j \in 1 .. Len(h) : h[j] # b) => Overlay(h, l, d)[b] = d[b]
           /\ Overlay(h, l, d) = [b \in Block |-> Overlay(h, l, d)[b]]
<1>1. DOMAIN h = 1 .. Len(h) /\ \A j \in 1 .. Len(h) : h[j] \in Block
      /\ \A i \in 1 .. Len(h) : h[i] = h[j] => i = j
  BY HeaderFacts
<1>2. ASSUME NEW j \in 1 .. Len(h) PROVE Overlay(h, l, d)[h[j]] = l[j]
  <2>1. (CHOOSE i \in DOMAIN h : h[i] = h[j]) = j
    BY <1>1, SMTT(30)
  <2>2. QED BY <1>1, <2>1 DEF Overlay
<1>3. QED BY <1>1, <1>2 DEF Overlay

\* A home block that the overlay hides does not matter; an overlay that has
\* been installed changes nothing.
LEMMA OverlayHides ==
    ASSUME NEW h, IsHeader(h), NEW l, NEW d, NEW e, NEW j \in 1 .. Len(h),
           \A b \in Block : b # h[j] => e[b] = d[b]
    PROVE  Overlay(h, l, e) = Overlay(h, l, d)
<1>1. DOMAIN h = 1 .. Len(h)
  BY HeaderFacts
<1>2. QED BY <1>1 DEF Overlay

LEMMA OverlayInstalled ==
    ASSUME NEW h, IsHeader(h), NEW l, NEW d \in [Block -> Val],
           \A j \in 1 .. Len(h) : d[h[j]] = l[j]
    PROVE  Overlay(h, l, d) = d
<1>1. ASSUME NEW b \in Block PROVE Overlay(h, l, d)[b] = d[b]
  BY OverlayFacts
<1>2. QED BY <1>1, OverlayFacts

LEMMA EmptyOverlay ==
    ASSUME NEW l, NEW d \in [Block -> Val]
    PROVE  Overlay(<<>>, l, d) = d
<1>1. IsHeader(<<>>) /\ Len(<<>>) = 0
  BY EmptySeq DEF IsHeader, Slot
<1>2. QED BY <1>1, OverlayInstalled

\* Every step is one of the abstract disk, or changes nothing it shows.
LEMMA AtomicStep == LogInv /\ Next => (Atomic!ANext \/ UNCHANGED Atomic!avars)
<1> SUFFICES ASSUME LogInv, Next PROVE Atomic!ANext \/ UNCHANGED Atomic!avars
  OBVIOUS
<1> USE SMTT(30)
<1>t. TypeOK /\ TypeOK' /\ Control /\ Headers /\ Buffers /\ Copied
  BY TypeStep DEF LogInv
<1>h. Len(lh) \in Nat /\ \A j \in 1 .. Len(lh) : lh[j] \in Block
  BY <1>t, HeaderFacts DEF TypeOK
<1>v. ASSUME ~Recovering, ~Recovering', \A b \in Block : Bread(b)' = Bread(b)
      PROVE  View' = View
  BY <1>v DEF View
<1>s. UNCHANGED disk => Survives' = Survives
  BY DEF disk, Survives
<1>1. ASSUME NEW p \in Proc, Call(p) PROVE Atomic!ANext \/ UNCHANGED Atomic!avars
  <2>1. View' = View /\ Survives' = Survives
    BY <1>1, <1>s DEF Call, View, Recovering, Bread, disk
  <2>2. Ops' = Ops
    BY <1>1, <1>t DEF Call, Ops, TypeOK
  <2>3. QED BY <2>1, <2>2 DEF Atomic!avars
<1>2. ASSUME NEW p \in Proc, BeginOp(p) PROVE Atomic!ANext \/ UNCHANGED Atomic!avars
  <2>1. View' = View /\ Survives' = Survives
    BY <1>2, <1>s DEF BeginOp, View, Recovering, Bread, disk
  <2>2. CASE MustWait
    <3>1. Ops' = Ops
      BY <1>2, <1>t, <2>2 DEF BeginOp, Ops, TypeOK
    <3>2. QED BY <2>1, <3>1 DEF Atomic!avars
  <2>3. CASE ~MustWait
    <3>1. Ops' = Ops \cup {p} /\ p \notin Ops
      BY <1>2, <1>t, <2>3 DEF BeginOp, Ops, TypeOK
    <3>2. QED BY <2>1, <3>1 DEF Atomic!ANext, Atomic!ABegin
  <2>4. QED BY <2>2, <2>3
<1>3. ASSUME NEW p \in Proc, LogWrite(p) PROVE Atomic!ANext \/ UNCHANGED Atomic!avars
  <2>1. Survives' = Survives /\ Ops' = Ops /\ p \in Ops /\ ~Recovering /\ ~Recovering'
    BY <1>3, <1>s DEF LogWrite, Ops, Up, Recovering
  <2>2. CASE UNCHANGED <<cache, pins, lh, wrote>>
    <3>1. View' = View
      BY <1>3, <1>v, <2>1, <2>2 DEF LogWrite, Bread, disk
    <3>2. QED BY <2>1, <3>1 DEF Atomic!avars
  <2>3. ASSUME NEW b \in Block, NEW v \in Val, Record(p, b, v) PROVE Atomic!ANext
    <3>1. ASSUME NEW x \in Block PROVE Bread(x)' = IF x = b THEN v ELSE Bread(x)
      BY <1>3, <1>t, <2>3, LogAssumption DEF LogWrite, Record, Bread, disk, TypeOK
    <3>2. View' = [View EXCEPT ![b] = v]
      BY <2>1, <3>1, ZenonT(30) DEF View
    <3>3. QED BY <2>1, <3>2, ZenonT(30) DEF Atomic!ANext, Atomic!AWrite
  <2>4. PICK b \in Block, v \in Val :
          UNCHANGED <<cache, pins, lh, wrote>> \/ Record(p, b, v)
    BY <1>3, ZenonT(30) DEF LogWrite
  <2>5. QED BY <2>2, <2>3, <2>4
<1>4. ASSUME NEW p \in Proc, EndOp(p) PROVE Atomic!ANext \/ UNCHANGED Atomic!avars
  <2>1. Ops' = Ops \ {p} /\ p \in Ops
    BY <1>4, <1>t, ZenonT(30) DEF EndOp, Ops, TypeOK, Wakeup
  <2>2. Survives' = Survives /\ ~Recovering /\ ~Recovering'
    BY <1>4, <1>s DEF EndOp, Up, Recovering
  <2>3. View' = View
    BY <1>4, <1>v, <2>2 DEF EndOp, Bread, disk
  <2>4. QED BY <2>1, <2>2, <2>3 DEF Atomic!ANext, Atomic!AEnd
<1>5. ASSUME NEW p \in Proc, EndCommit(p) PROVE Atomic!ANext \/ UNCHANGED Atomic!avars
  <2>1. Ops' = Ops
    BY <1>5, <1>t DEF EndCommit, Ops, TypeOK, Wakeup
  <2>2. Survives' = Survives /\ ~Recovering /\ ~Recovering'
    BY <1>5, <1>s DEF EndCommit, Recovering, NotCommitting
  <2>3. View' = View
    BY <1>5, <1>v, <2>2 DEF EndCommit, Bread, disk
  <2>4. QED BY <2>1, <2>2, <2>3 DEF Atomic!avars
<1>6. ASSUME NEW b \in Block, Read(b) PROVE Atomic!ANext \/ UNCHANGED Atomic!avars
  <2>1. Survives' = Survives /\ Ops' = Ops /\ ~Recovering /\ ~Recovering'
    BY <1>6, <1>s DEF Read, Ops, Up, Recovering
  <2>2. cache[b] \in {NoBuf, home[b]}
    BY <1>6, <1>t DEF Read, Buffers
  <2>3. \A x \in Block : Bread(x)' = Bread(x)
    BY <1>6, <1>t, <2>2 DEF Read, Bread, disk, TypeOK
  <2>4. QED BY <1>v, <2>1, <2>3 DEF Atomic!avars
<1>7. ASSUME NEW b \in Block, Evict(b) PROVE Atomic!ANext \/ UNCHANGED Atomic!avars
  <2>1. Survives' = Survives /\ Ops' = Ops /\ ~Recovering /\ ~Recovering'
    BY <1>7, <1>s DEF Evict, Ops, Up, Recovering
  <2>2. cache[b] \in {NoBuf, home[b]}
    BY <1>7, <1>t DEF Evict, Buffers
  <2>3. \A x \in Block : Bread(x)' = Bread(x)
    BY <1>7, <1>t, <2>2 DEF Evict, Bread, disk, TypeOK
  <2>4. QED BY <1>v, <2>1, <2>3 DEF Atomic!avars
<1>8. CASE WriteLog
  <2>1. Ops' = Ops /\ ~Recovering /\ ~Recovering'
    BY <1>8 DEF WriteLog, Step, Ops, Recovering
  <2>2. View' = View
    BY <1>8, <1>v, <2>1, WriteLogReads, ZenonT(30) DEF WriteLog, Bread
  <2>3. head = <<>> /\ head' = <<>> /\ home' = home
    BY <1>8, <1>t DEF WriteLog, Headers
  <2>4. Survives' = Survives
    BY <1>t, <2>3, EmptyOverlay, ZenonT(30) DEF Survives, TypeOK
  <2>5. QED BY <2>1, <2>2, <2>4 DEF Atomic!avars
<1>9. CASE WriteHead
  <2>1. Ops' = Ops /\ ~Recovering /\ ~Recovering'
    BY <1>9 DEF WriteHead, Ops, Recovering
  <2>2. Ops = {}
    BY <1>9, <1>t, OpsCounted DEF WriteHead, Control
  <2>3. View' = View
    BY <1>9, <1>v, <2>1 DEF WriteHead, Bread
  <2>4. Survives' = Overlay(lh, logd, home)
    BY <1>9 DEF WriteHead, Survives
  <2>5. ASSUME NEW b \in Block PROVE Overlay(lh, logd, home)[b] = Bread(b)
    <3>1. CASE \E j \in 1 .. Len(lh) : lh[j] = b
      <4>1. PICK j \in 1 .. Len(lh) : lh[j] = b
        BY <3>1
      <4>2. Overlay(lh, logd, home)[b] = logd[j]
        BY <1>t, <4>1, OverlayFacts DEF TypeOK
      <4>3. logd[j] = cache[b]
        BY <1>9, <1>t, <4>1 DEF WriteHead, Copied
      <4>4. Logged(b)
        BY <1>t, <4>1, HeaderFacts DEF TypeOK, Logged
      <4>5. cache[b] # NoBuf
        BY <1>9, <1>t, <4>4 DEF WriteHead, Dirty, Buffers
      <4>6. QED BY <4>2, <4>3, <4>5 DEF Bread
    <3>2. CASE \A j \in 1 .. Len(lh) : lh[j] # b
      <4>1. Overlay(lh, logd, home)[b] = home[b]
        <5>1. IsHeader(lh)
          BY <1>t DEF TypeOK
        <5>2. QED BY <3>2, <5>1, OverlayFacts
      <4>2. ~Dirty(b)
        <5>1. ~Logged(b)
          BY <1>t, <3>2, HeaderFacts DEF TypeOK, Logged
        <5>2. QED BY <1>9, <5>1 DEF WriteHead, Dirty
      <4>3. QED BY <1>t, <4>1, <4>2 DEF Buffers, Bread
    <3>3. QED BY <3>1, <3>2
  <2>6. Survives' = View
    <3>1. Overlay(lh, logd, home) = [b \in Block |-> Bread(b)]
      BY <1>t, <2>5, OverlayFacts DEF TypeOK
    <3>2. QED BY <2>1, <2>4, <3>1 DEF View
  <2>7. QED BY <2>1, <2>2, <2>3, <2>6 DEF Atomic!ANext, Atomic!ACommit
<1>10. CASE InstallTrans
  <2>1. com.i \in 1 .. Len(lh) /\ head = lh /\ head' = head /\ logd' = logd
    BY <1>10, <1>t DEF InstallTrans, Headers
  <2>2. home' = [home EXCEPT ![head[com.i]] = logd[com.i]]
    BY <1>10, <2>1 DEF InstallTrans
  <2>3. Survives' = Survives
    <3>1. IsHeader(head) /\ home \in [Block -> Val] /\ com.i \in 1 .. Len(head)
      BY <1>t, <2>1 DEF TypeOK
    <3>2. \A b \in Block : b # head[com.i] => home'[b] = home[b]
      BY <2>2, <3>1
    <3>3. Overlay(head, logd, home') = Overlay(head, logd, home)
      BY <3>1, <3>2, OverlayHides
    <3>4. QED BY <2>1, <3>3 DEF Survives
  <2>4. Ops' = Ops /\ ~Recovering /\ ~Recovering'
    BY <1>10 DEF InstallTrans, Step, Ops, Recovering
  <2>5. lh[com.i] \in Block /\ cache[lh[com.i]] = logd[com.i] /\ cache[lh[com.i]] # NoBuf
    <3>1. com.i \in com.i .. Len(lh) /\ lh[com.i] \in Block
      BY <1>h, <2>1
    <3>2. QED BY <1>10, <1>t, <3>1 DEF InstallTrans, Copied, Buffers, Dirty
  <2>6. \A x \in Block : Bread(x)' = Bread(x)
    BY <1>10, <1>t, <2>5 DEF InstallTrans, Bread, TypeOK
  <2>7. QED BY <1>v, <2>3, <2>4, <2>6 DEF Atomic!avars
<1>11. CASE EraseHead
  <2>1. Survives = home
    BY <1>11, <1>t, OverlayInstalled DEF EraseHead, Copied, Survives, TypeOK
  <2>2. Survives' = home
    BY <1>11, <1>t, EmptyOverlay DEF EraseHead, Survives, TypeOK
  <2>3. Ops' = Ops /\ ~Recovering /\ ~Recovering'
    BY <1>11 DEF EraseHead, Ops, Recovering
  <2>4. View' = View
    BY <1>11, <1>v, <2>3 DEF EraseHead, Bread
  <2>5. QED BY <2>1, <2>2, <2>3, <2>4 DEF Atomic!avars
<1>12. CASE Crash
  <2>1. Survives' = Survives /\ Ops' = {} /\ Recovering'
    BY <1>12, <1>s DEF Crash, Ops, Recovering
  <2>2. View' = Survives
    BY <2>1 DEF View
  <2>3. QED BY <2>1, <2>2 DEF Atomic!ANext, Atomic!ACrash
<1>13. CASE ReadHead
  <2>1. Survives' = Survives /\ Ops' = Ops /\ Recovering /\ Recovering'
    BY <1>13, <1>s DEF ReadHead, Ops, Recovering
  <2>2. QED BY <2>1 DEF View, Atomic!avars
<1>14. CASE Replay
  <2>1. com.i \in 1 .. Len(lh) /\ head = lh /\ head' = head /\ logd' = logd
    BY <1>14, <1>t DEF Replay, Headers
  <2>2. home' = [home EXCEPT ![head[com.i]] = logd[com.i]]
    BY <1>14, <2>1 DEF Replay
  <2>3. Survives' = Survives
    <3>1. IsHeader(head) /\ home \in [Block -> Val] /\ com.i \in 1 .. Len(head)
      BY <1>t, <2>1 DEF TypeOK
    <3>2. \A b \in Block : b # head[com.i] => home'[b] = home[b]
      BY <2>2, <3>1
    <3>3. Overlay(head, logd, home') = Overlay(head, logd, home)
      BY <3>1, <3>2, OverlayHides
    <3>4. QED BY <2>1, <3>3 DEF Survives
  <2>4. Ops' = Ops /\ Recovering /\ Recovering'
    BY <1>14 DEF Replay, Step, Ops, Recovering
  <2>5. QED BY <2>3, <2>4 DEF View, Atomic!avars
<1>15. CASE ClearHead
  <2>1. Survives = home
    BY <1>15, <1>t, OverlayInstalled DEF ClearHead, Copied, Survives, TypeOK
  <2>2. Survives' = home
    BY <1>15, <1>t, EmptyOverlay DEF ClearHead, Survives, TypeOK
  <2>3. Ops' = Ops /\ Recovering /\ ~Recovering'
    BY <1>15 DEF ClearHead, Ops, Recovering, NotCommitting
  <2>4. \A b \in Block : cache[b] \in {NoBuf, home[b]}
    BY <1>15, <1>t DEF ClearHead, Buffers, Dirty
  <2>5. View' = home
    <3>1. \A b \in Block : Bread(b)' = home[b]
      BY <1>15, <2>4 DEF ClearHead, Bread
    <3>2. QED BY <1>t, <2>3, <3>1 DEF View, TypeOK
  <2>6. View = home
    BY <2>1, <2>3 DEF View
  <2>7. QED BY <2>1, <2>2, <2>3, <2>5, <2>6 DEF Atomic!avars
<1>16. QED BY <1>1, <1>2, <1>3, <1>4, <1>5, <1>6, <1>7, <1>8, <1>9, <1>10,
   <1>11, <1>12, <1>13, <1>14, <1>15 DEF Next

\* Crash safety, for any processes, blocks and log size, crashes falling
\* anywhere: the log implements a disk whose transactions are atomic.
THEOREM LogIsAtomic == Spec => CrashAtomic
<1>1. Init => Atomic!AInit
  <2> SUFFICES ASSUME Init PROVE Atomic!AInit
    OBVIOUS
  <2>1. home \in [Block -> Val] /\ Ops = {} /\ ~Recovering
    BY LogAssumption DEF Init, Ops, Recovering, NotCommitting
  <2>2. Survives = [b \in Block |-> Zero]
    BY <2>1, EmptyOverlay DEF Init, Survives
  <2>3. View = [b \in Block |-> Zero]
    BY <2>1 DEF Init, View, Bread
  <2>4. QED BY <2>1, <2>2, <2>3 DEF Atomic!AInit
<1>2. LogInv /\ [Next]_vars => [Atomic!ANext]_Atomic!avars
  <2>1. LogInv /\ Next => (Atomic!ANext \/ UNCHANGED Atomic!avars)
    BY AtomicStep, SMTT(30)
  <2>2. UNCHANGED vars => UNCHANGED Atomic!avars
    BY DEF vars, Atomic!avars, View, Survives, Ops, Recovering, Bread
  <2>3. QED BY <2>1, <2>2
<1>3. QED BY <1>1, <1>2, LogInvHolds, PTL DEF Spec, CrashAtomic, Atomic!ASpec
=============================================================================
