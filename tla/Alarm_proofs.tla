---------------------------- MODULE Alarm_proofs ---------------------------
(***************************************************************************)
(* Proof that the alarm is invisible to the program it interrupts, for any *)
(* number of pages and any intervals.                                      *)
(***************************************************************************)
EXTENDS Alarm, TLAPS

Frames == [in : {"main", "handler"}, at : Nat]

AlarmTypes ==
    /\ p_ticks \in Nat /\ current_ticks \in Nat /\ sigalarm \in Pages \cup {NoSave}
    /\ frame \in Frames /\ work \in Nat
    /\ owner \in [Pages -> {"free", "alarm", "other"}]
    /\ saved \in [Pages -> Frames]

\* While the handler runs the next tick cannot call it again, which would
\* overwrite p->sigalarm.
NotDueInHandler ==
    frame.in = "handler" => p_ticks = 0 \/ current_ticks > p_ticks + 1

AlarmInv == AlarmTypes /\ NotDueInHandler /\ AlarmResumes

LEMMA FrameTypes == Handler \in Frames /\ \A n \in Nat : Main(n) \in Frames
  BY DEF Handler, Main, Frames

\* Every action keeps the invariant.
LEMMA AlarmStep == AlarmInv /\ AlarmNext => AlarmInv'
<1> SUFFICES ASSUME AlarmInv, AlarmNext PROVE AlarmInv'
  OBVIOUS
<1> USE AlarmAssumption DEF AlarmInv, alarm
<1>f. Handler \in Frames /\ Handler.in = "handler"
      /\ \A n \in Nat : Main(n) \in Frames /\ Main(n).in = "main" /\ Main(n).at = n
  BY FrameTypes DEF Handler, Main
<1>n. NoSave \notin Pages
  BY DEF NoSave, Pages
<1>1. CASE Work
  <2>1. frame = Main(work) /\ frame' = Main(work + 1) /\ work' = work + 1
    BY <1>1, <1>f DEF Work, AlarmTypes, AlarmResumes
  <2>2. QED BY <1>1, <1>f, <2>1 DEF Work, AlarmTypes, NotDueInHandler, AlarmResumes
<1>2. CASE TimerTick
  <2>1. CASE ~Due
    BY <1>2, <2>1 DEF TimerTick, Due, AlarmTypes, NotDueInHandler, AlarmResumes
  <2>2. CASE Due
    <3>1. frame.in = "main" /\ frame = Main(work)
      BY <1>2, <2>2 DEF TimerTick, Due, AlarmTypes, Frames, NotDueInHandler, AlarmResumes
    <3>2. CASE \A x \in Pages : owner[x] # "free"
      BY <1>2, <2>2, <3>1, <3>2 DEF TimerTick, AlarmTypes, NotDueInHandler, AlarmResumes
    <3>3. ASSUME NEW x \in Pages, sigalarm' = x, frame' = Handler,
                 owner' = [owner EXCEPT ![x] = "alarm"],
                 saved' = [saved EXCEPT ![x] = frame]
          PROVE  AlarmInv'
      BY <1>2, <1>f, <1>n, <2>2, <3>1, <3>3
         DEF TimerTick, Due, AlarmTypes, NotDueInHandler, AlarmResumes
    <3>4. QED BY <1>2, <2>2, <3>2, <3>3 DEF TimerTick
  <2>3. QED BY <2>1, <2>2
<1>3. CASE Sigreturn
  <2>1. sigalarm \in Pages /\ frame' = Main(work)
    BY <1>3, <1>n, <1>f DEF Sigreturn, AlarmTypes, AlarmResumes
  <2>2. QED BY <1>3, <1>f, <2>1 DEF Sigreturn, AlarmTypes, NotDueInHandler, AlarmResumes
<1>4. CASE AlarmExit
  BY <1>4, <1>f DEF AlarmExit, AlarmTypes, NotDueInHandler, AlarmResumes
<1>5. ASSUME NEW n \in Intervals, Sigalarm(n) PROVE AlarmInv'
  BY <1>5 DEF Sigalarm, AlarmTypes, NotDueInHandler, AlarmResumes
<1>6. ASSUME NEW x \in Pages, OtherTakes(x) PROVE AlarmInv'
  BY <1>6, <1>f DEF OtherTakes, AlarmTypes, NotDueInHandler, AlarmResumes
<1>7. ASSUME NEW x \in Pages, OtherFrees(x) PROVE AlarmInv'
  BY <1>7 DEF OtherFrees, AlarmTypes, NotDueInHandler, AlarmResumes
<1>8. QED BY <1>1, <1>2, <1>3, <1>4, <1>5, <1>6, <1>7 DEF AlarmNext

\* However ticks, sigalarm, sigreturn and the other users of memory
\* interleave, the program goes on where it was interrupted.
THEOREM AlarmIsInvisible == AlarmSpec => []AlarmResumes
<1>1. AlarmInit => AlarmInv
  <2>1. Main(0).in = "main" /\ Handler \in Frames /\ Main(0) \in Frames
    BY FrameTypes DEF Main
  <2>2. QED BY <2>1 DEF AlarmInit, AlarmInv, AlarmTypes, NotDueInHandler, AlarmResumes
<1>2. AlarmInv /\ UNCHANGED alarmVars => AlarmInv'
  BY DEF AlarmInv, alarmVars, alarm, AlarmTypes, NotDueInHandler, AlarmResumes
<1>3. AlarmInv => AlarmResumes
  BY DEF AlarmInv
<1>4. QED BY <1>1, <1>2, <1>3, AlarmStep, PTL DEF AlarmSpec
=============================================================================
