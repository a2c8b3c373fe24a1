------------------------------ MODULE Console ------------------------------
(***************************************************************************)
(* Console input (console.c): consoleintr edits a ring buffer that         *)
(* consoleread empties.  cons.lock is held by a reader over its loop and   *)
(* given up in sleep.  Characters are classes: an ordinary one, newline,   *)
(* end of file (^D), erase (^H) and kill (^U).  The echo is left out.  The *)
(* indices wrap at ConsCount, a multiple of INPUT_BUF_SIZE as 2^32 is.     *)
(*                                                                         *)
(* An operator that no action uses and that stands just before one of the  *)
(* same parameters is a deliberate fault, used to test the properties.     *)
(***************************************************************************)
EXTENDS Integers, Sequences, FiniteSets

CONSTANTS ConsReaders,     \* processes that read the console
          Ordinary,        \* ordinary characters
          INPUT_BUF_SIZE,
          ConsCount,       \* r, w and e wrap here (2^32)
          ReadSizes        \* bytes a read() asks for

VARIABLES
    cbuf,              \* cons.buf
    cr, cw, ce,        \* cons.r, cons.w, cons.e
    clock,             \* the reader that holds cons.lock, or 0
    cpc,               \* where a reader is
    cleft, ctarget,    \* its n and target
    ckilled            \* p->killed

consVars == <<cbuf, cr, cw, ce, clock, cpc, cleft, ctarget, ckilled>>
input == <<cbuf, cr, cw, ce>>

Stored == Ordinary \cup {"newline", "eof"}

ConsInit ==
    /\ cbuf = [i \in 0 .. INPUT_BUF_SIZE - 1 |-> "newline"]
    /\ cr = 0 /\ cw = 0 /\ ce = 0
    /\ clock = 0
    /\ cpc = [p \in ConsReaders |-> "user"]
    /\ cleft = [p \in ConsReaders |-> 0]
    /\ ctarget = [p \in ConsReaders |-> 0]
    /\ ckilled = [p \in ConsReaders |-> FALSE]

Up(i) == (i + 1) % ConsCount
Down(i) == (i + ConsCount - 1) % ConsCount
Distance(i, j) == (j - i + ConsCount) % ConsCount  \* j - i, unsigned
Cell(i) == cbuf[i % INPUT_BUF_SIZE]

WakeNoReader == UNCHANGED cpc

\* wakeup(&cons.r)
WakeReaders == cpc' = [p \in ConsReaders |-> IF cpc[p] = "sleep" THEN "woken" ELSE cpc[p]]

\* A line, an end of file, or a full buffer makes the input readable.
Commits(k, e) == k \in {"newline", "eof"} \/ Distance(cr, e) = INPUT_BUF_SIZE

\* consoleintr, default case.
TypeChar(k) ==
    /\ clock = 0 /\ Distance(cr, ce) < INPUT_BUF_SIZE
    /\ cbuf' = [cbuf EXCEPT ![ce % INPUT_BUF_SIZE] = k]
    /\ ce' = Up(ce)
    /\ IF Commits(k, Up(ce)) THEN cw' = Up(ce) /\ WakeReaders ELSE UNCHANGED <<cw, cpc>>
    /\ UNCHANGED <<cr, clock, cleft, ctarget, ckilled>>

EraseLimitAtRead == ce # cr
EraseLimit == ce # cw

\* consoleintr, ^H.
TypeErase ==
    /\ clock = 0 /\ EraseLimit
    /\ ce' = Down(ce)
    /\ UNCHANGED <<cbuf, cr, cw, clock, cpc, cleft, ctarget, ckilled>>

\* consoleintr, ^U: back to cons.w or to the last newline, whichever is nearer.
TypeKill ==
    LET kept == {n \in 0 .. Distance(cw, ce) :
                    \A i \in 1 .. Distance(cw, ce) :
                        i > n => Cell((cw + i - 1) % ConsCount) # "newline"}
        stop == CHOOSE n \in kept : \A m \in kept : n <= m
    IN  /\ clock = 0 /\ ce # cw
        /\ ce' = (cw + stop) % ConsCount
        /\ UNCHANGED <<cbuf, cr, cw, clock, cpc, cleft, ctarget, ckilled>>

---------------------------------------------------------------------------

ReadBegin(p, n) ==
    /\ cpc[p] = "user" /\ clock = 0 /\ ~ckilled[p]
    /\ clock' = p /\ cpc' = [cpc EXCEPT ![p] = "loop"]
    /\ cleft' = [cleft EXCEPT ![p] = n] /\ ctarget' = [ctarget EXCEPT ![p] = n]
    /\ UNCHANGED <<input, ckilled>>

\* The call returns; what it still wanted is forgotten.
ReadReturn(p) ==
    /\ clock' = 0 /\ cpc' = [cpc EXCEPT ![p] = "user"]
    /\ cleft' = [cleft EXCEPT ![p] = 0] /\ ctarget' = [ctarget EXCEPT ![p] = 0]

\* The test of killed(), and the sleep; kill() may come in between.
ReadTestKilled(p) ==
    /\ cpc[p] = "loop" /\ clock = p /\ cleft[p] > 0 /\ cr = cw
    /\ \/ ckilled[p] /\ ReadReturn(p)
       \/ /\ ~ckilled[p] /\ cpc' = [cpc EXCEPT ![p] = "tested"]
          /\ UNCHANGED <<clock, cleft, ctarget>>
    /\ UNCHANGED <<input, ckilled>>
ReadSleep(p) ==
    /\ cpc[p] = "tested" /\ clock' = 0 /\ cpc' = [cpc EXCEPT ![p] = "sleep"]
    /\ UNCHANGED <<input, cleft, ctarget, ckilled>>

ReadWoken(p) ==
    /\ cpc[p] = "woken" /\ clock = 0
    /\ clock' = p /\ cpc' = [cpc EXCEPT ![p] = "loop"]
    /\ UNCHANGED <<input, cleft, ctarget, ckilled>>

\* An end of file behind other bytes stays for the next call (cons.r--).
EofRead(p) == IF cleft[p] < ctarget[p] THEN cr ELSE Up(cr)

\* One turn of the loop.  copyout may fail, and then the byte is lost.
ReadByteCons(p) ==
    LET c == Cell(cr)
    IN  /\ cpc[p] = "loop" /\ clock = p /\ cleft[p] > 0 /\ cr # cw
        /\ \/ c = "eof" /\ cr' = EofRead(p) /\ ReadReturn(p)
           \/ c # "eof" /\ cr' = Up(cr) /\ ReadReturn(p)  \* the last byte, or copyout fails
           \/ /\ c \notin {"eof", "newline"} /\ cleft[p] > 1 /\ cr' = Up(cr)
              /\ cleft' = [cleft EXCEPT ![p] = @ - 1]
              /\ UNCHANGED <<clock, cpc, ctarget>>
        /\ UNCHANGED <<cbuf, cw, ce, ckilled>>

KillReader(p) ==
    /\ ~ckilled[p] /\ ckilled' = [ckilled EXCEPT ![p] = TRUE]
    /\ cpc' = [cpc EXCEPT ![p] = IF @ = "sleep" THEN "woken" ELSE @]
    /\ UNCHANGED <<input, clock, cleft, ctarget>>

\* A killed reader is gone; another process takes its place.
NewReader(p) ==
    /\ ckilled[p] /\ cpc[p] = "user" /\ ckilled' = [ckilled EXCEPT ![p] = FALSE]
    /\ UNCHANGED <<input, clock, cpc, cleft, ctarget>>

ConsNext ==
    \/ TypeErase \/ TypeKill \/ \E k \in Stored : TypeChar(k)
    \/ \E p \in ConsReaders :
          \/ ReadTestKilled(p) \/ ReadSleep(p) \/ ReadWoken(p) \/ ReadByteCons(p)
          \/ KillReader(p) \/ NewReader(p)
          \/ \E n \in ReadSizes : ReadBegin(p, n)

---------------------------------------------------------------------------

\* The ring buffer and its three wrapping indices are a queue of committed
\* input and a line under edit: typing, erasing and reading by several
\* processes do exactly what LineInput says.
Between(i, n) == [j \in 1 .. n |-> Cell((i + j - 1) % ConsCount)]
Lines == INSTANCE LineInput
            WITH LineKeys <- Stored, Room <- INPUT_BUF_SIZE,
                 line <- Between(cw, Distance(cw, ce)),
                 queue <- Between(cr, Distance(cr, cw))
ConsoleIsLineInput == Lines!LineSpec

\* No reader sleeps while there is committed input for it.
ReaderAsleepMeansNoInput ==
    clock = 0 => \A p \in ConsReaders : cpc[p] = "sleep" => cr = cw
=============================================================================
