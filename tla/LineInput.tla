----------------------------- MODULE LineInput -----------------------------
(***************************************************************************)
(* What the console promises to readers and typists: a line under edit and *)
(* a queue of input that is committed.  Editing changes the line only;     *)
(* a line is committed whole, by newline, end of file, or when there is no *)
(* room for more; bytes are read from the queue in order, each once.       *)
(***************************************************************************)
EXTENDS Integers, Sequences, SequencesExt

CONSTANTS LineKeys,  \* what can be typed
          Room       \* the input the console keeps, line and queue

VARIABLES line, queue

LineInit == line = <<>> /\ queue = <<>>

Ends(k) == k \in {"newline", "eof"}

Insert(k) ==
    /\ Len(line) + Len(queue) < Room
    /\ IF Ends(k) \/ Len(line) + Len(queue) + 1 = Room
       THEN queue' = queue \o line \o <<k>> /\ line' = <<>>
       ELSE line' = Append(line, k) /\ UNCHANGED queue

Erase == line # <<>> /\ line' = Front(line) /\ UNCHANGED queue
EraseLine == line' = <<>> /\ UNCHANGED queue
Take == queue # <<>> /\ queue' = Tail(queue) /\ UNCHANGED line

LineNext == Erase \/ EraseLine \/ Take \/ \E k \in LineKeys : Insert(k)

LineSpec == LineInit /\ [][LineNext]_<<line, queue>>
=============================================================================
