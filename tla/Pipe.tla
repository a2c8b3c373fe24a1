------------------------------- MODULE Pipe --------------------------------
(***************************************************************************)
(* A pipe of pipe.c between several writers and readers: pipealloc,        *)
(* pipewrite, piperead, pipeclose, with kill() falling anywhere, between   *)
(* the test of killed() and what follows it too: pi->lock is held over     *)
(* several steps because kill does not need it.  A byte is its place in    *)
(* the stream, counted modulo Labels.  The counters nread and nwrite wrap  *)
(* at CountSize, a multiple of PIPESIZE as 2^32 is.                        *)
(*                                                                         *)
(* An operator that no action uses and that stands just before one of the  *)
(* same parameters is a deliberate fault, used to test the properties.     *)
(***************************************************************************)
EXTENDS Integers, FiniteSets

CONSTANTS Writers, Readers,  \* the processes with the write and the read end
          PIPESIZE,
          CountSize,         \* nread and nwrite wrap here (2^32)
          Labels,            \* labels of bytes, more than PIPESIZE
          Chunks             \* how many bytes one read() or write() asks for

ASSUME PipeAssumption ==
    /\ Writers \cap Readers = {} /\ 0 \notin Writers \cup Readers
    /\ PIPESIZE \in Nat \ {0} /\ CountSize \in Nat /\ PIPESIZE < CountSize
    /\ CountSize % PIPESIZE = 0 /\ Labels \in Nat /\ PIPESIZE < Labels
    /\ Chunks \subseteq Nat

PipeProcs == Writers \cup Readers

VARIABLES
    pdata,               \* pi->data
    nread, nwrite,
    readopen, writeopen,
    plock,               \* who holds pi->lock, or 0
    ppc,                 \* where a process is
    pleft,               \* n - i, the bytes its call still has to move
    pkilled,             \* p->killed
    ins, outs            \* history: bytes put in and taken out, modulo Labels

pipeVars == <<pdata, nread, nwrite, readopen, writeopen, plock, ppc, pleft,
              pkilled, ins, outs>>
ends == <<readopen, writeopen>>

\* pipealloc; fork has handed the ends out.
PipeInit ==
    /\ pdata = [i \in 0 .. PIPESIZE - 1 |-> 0]
    /\ nread = 0 /\ nwrite = 0
    /\ readopen = TRUE /\ writeopen = TRUE
    /\ plock = 0
    /\ ppc = [p \in PipeProcs |-> "idle"]
    /\ pleft = [p \in PipeProcs |-> 0]
    /\ pkilled = [p \in PipeProcs |-> FALSE]
    /\ ins = 0 /\ outs = 0

FullNoWrap == nwrite = nread + PIPESIZE

\* pi->nwrite == pi->nread + PIPESIZE, in unsigned arithmetic
Full == nwrite = (nread + PIPESIZE) % CountSize
Empty == nread = nwrite

\* The process goes to pc and wakes those that sleep at chan.
WakeAll(p, pc, chan) ==
    ppc' = [q \in PipeProcs |-> IF q = p THEN pc
                                ELSE IF ppc[q] = chan THEN "woken"
                                ELSE ppc[q]]

\* Enter pipewrite or piperead, or come back from sleep: acquire pi->lock.
PipeBegin(p, n) ==
    /\ ppc[p] = "idle" /\ plock = 0 /\ ~pkilled[p]
    /\ plock' = p
    /\ ppc' = [ppc EXCEPT ![p] = IF p \in Writers THEN "write" ELSE "wait"]
    /\ pleft' = [pleft EXCEPT ![p] = n]
    /\ UNCHANGED <<pdata, nread, nwrite, ends, pkilled, ins, outs>>

Woken(p) ==
    /\ ppc[p] = "woken" /\ plock = 0 /\ plock' = p
    /\ ppc' = [ppc EXCEPT ![p] = IF p \in Writers THEN "write" ELSE "wait"]
    /\ UNCHANGED <<pdata, nread, nwrite, ends, pleft, pkilled, ins, outs>>

At2(p, pc) == ppc[p] = pc /\ plock = p
Returned(p) == pleft' = [pleft EXCEPT ![p] = 0]

\* return -1: no reader, or killed.  Nobody is woken.
WriteFails(p) ==
    /\ At2(p, "write") /\ pleft[p] > 0 /\ (~readopen \/ pkilled[p])
    /\ ppc' = [ppc EXCEPT ![p] = "idle"]
    /\ plock' = 0
    /\ Returned(p)
    /\ UNCHANGED <<pdata, nread, nwrite, ends, pkilled, ins, outs>>

\* Neither: whoever kills the writer from here on comes too late for this turn.
WriteTest(p) ==
    /\ At2(p, "write") /\ pleft[p] > 0 /\ readopen /\ ~pkilled[p]
    /\ ppc' = [ppc EXCEPT ![p] = "tested"]
    /\ UNCHANGED <<pdata, nread, nwrite, ends, plock, pleft, pkilled, ins, outs>>

WriteSleepsQuietly(p) == ppc' = [ppc EXCEPT ![p] = "nwrite"]

\* wakeup(&pi->nread); sleep(&pi->nwrite)
WriteSleeps(p) == WakeAll(p, "nwrite", "nread")

WriteFull(p) ==
    /\ At2(p, "tested") /\ Full
    /\ WriteSleeps(p)
    /\ plock' = 0
    /\ UNCHANGED <<pdata, nread, nwrite, ends, pleft, pkilled, ins, outs>>

WriteByte(p) ==
    /\ At2(p, "tested") /\ ~Full
    /\ ppc' = [ppc EXCEPT ![p] = "write"]
    /\ pdata' = [pdata EXCEPT ![nwrite % PIPESIZE] = ins]
    /\ nwrite' = (nwrite + 1) % CountSize
    /\ ins' = (ins + 1) % Labels
    /\ pleft' = [pleft EXCEPT ![p] = @ - 1]
    /\ UNCHANGED <<nread, ends, plock, pkilled, outs>>

\* The loop ends, or copyin fails and breaks it off.
WriteDone(p) ==
    /\ (At2(p, "write") /\ pleft[p] = 0) \/ (At2(p, "tested") /\ ~Full)
    /\ WakeAll(p, "idle", "nread")
    /\ plock' = 0
    /\ Returned(p)
    /\ UNCHANGED <<pdata, nread, nwrite, ends, pkilled, ins, outs>>

\* The first loop of piperead: return -1, or go on to sleep.
ReadTest(p) ==
    /\ At2(p, "wait") /\ Empty /\ writeopen
    /\ \/ /\ pkilled[p] /\ ppc' = [ppc EXCEPT ![p] = "idle"]
          /\ plock' = 0 /\ Returned(p)
       \/ /\ ~pkilled[p] /\ ppc' = [ppc EXCEPT ![p] = "tested"]
          /\ UNCHANGED <<plock, pleft>>
    /\ UNCHANGED <<pdata, nread, nwrite, ends, pkilled, ins, outs>>

\* sleep(&pi->nread)
ReadWait(p) ==
    /\ At2(p, "tested")
    /\ ppc' = [ppc EXCEPT ![p] = "nread"] /\ plock' = 0
    /\ UNCHANGED <<pdata, nread, nwrite, ends, pleft, pkilled, ins, outs>>

\* The second loop: take one byte.  When copyout fails the byte is gone too.
ReadByte(p) ==
    /\ ppc[p] \in {"wait", "read"} /\ plock = p /\ ~Empty /\ pleft[p] > 0
    /\ nread' = (nread + 1) % CountSize
    /\ outs' = (outs + 1) % Labels
    /\ \E copied \in BOOLEAN :
          pleft' = [pleft EXCEPT ![p] = IF copied THEN @ - 1 ELSE 0]
    /\ ppc' = [ppc EXCEPT ![p] = "read"]
    /\ UNCHANGED <<pdata, nwrite, ends, plock, pkilled, ins>>

ReadDone(p) ==
    /\ ppc[p] \in {"wait", "read"} /\ plock = p
    /\ pleft[p] = 0 \/ (Empty /\ (ppc[p] = "wait" => ~writeopen))
    /\ WakeAll(p, "idle", "nwrite")
    /\ plock' = 0
    /\ Returned(p)
    /\ UNCHANGED <<pdata, nread, nwrite, ends, pkilled, ins, outs>>

\* pipeclose wakes the other side.
CloseWakes(p) ==
    WakeAll(p, "idle", IF p \in Writers THEN "nread" ELSE "nwrite")

\* The last process of a side closes its end.
PipeClose(p) ==
    /\ plock = 0
    /\ \A q \in (IF p \in Writers THEN Writers ELSE Readers) : ppc[q] = "idle"
    /\ \/ p \in Writers /\ writeopen /\ writeopen' = FALSE /\ UNCHANGED readopen
       \/ p \in Readers /\ readopen /\ readopen' = FALSE /\ UNCHANGED writeopen
    /\ CloseWakes(p)
    /\ UNCHANGED <<pdata, nread, nwrite, plock, pleft, pkilled, ins, outs>>

Kill(p) ==
    /\ ~pkilled[p] /\ pkilled' = [pkilled EXCEPT ![p] = TRUE]
    /\ ppc' = [ppc EXCEPT ![p] = IF @ \in {"nread", "nwrite"} THEN "woken" ELSE @]
    /\ UNCHANGED <<pdata, nread, nwrite, ends, plock, pleft, ins, outs>>

\* Both ends are closed and the page freed; another pipe is made.
NewPipe ==
    /\ ~readopen /\ ~writeopen
    /\ nread' = 0 /\ nwrite' = 0 /\ readopen' = TRUE /\ writeopen' = TRUE
    /\ pdata' = [i \in 0 .. PIPESIZE - 1 |-> 0]
    /\ pleft' = [p \in PipeProcs |-> 0]
    /\ pkilled' = [p \in PipeProcs |-> FALSE]
    /\ ins' = 0 /\ outs' = 0
    /\ UNCHANGED <<plock, ppc>>

MayCall(p) == IF p \in Writers THEN writeopen ELSE readopen

PipeNext ==
    \/ NewPipe
    \/ \E p \in Writers : \/ WriteFails(p) \/ WriteTest(p) \/ WriteFull(p)
                         \/ WriteByte(p) \/ WriteDone(p)
    \/ \E p \in Readers : ReadTest(p) \/ ReadWait(p) \/ ReadByte(p) \/ ReadDone(p)
    \/ \E p \in PipeProcs : Woken(p) \/ Kill(p) \/ PipeClose(p)
    \/ \E p \in PipeProcs, n \in Chunks : MayCall(p) /\ PipeBegin(p, n)

PipeSpec == PipeInit /\ [][PipeNext]_pipeVars

---------------------------------------------------------------------------

Held == (nwrite - nread + CountSize) % CountSize

\* The pipe holds the bytes put in and not yet taken out, in order, never more
\* than PIPESIZE, also when nwrite has wrapped and nread has not.
BytesInOrder ==
    /\ Held <= PIPESIZE
    /\ Held % Labels = (ins - outs + Labels) % Labels
    /\ \A k \in 0 .. Held - 1 :
          pdata[(nread + k) % PIPESIZE] = (outs + k) % Labels

\* Whoever sleeps has a reason to: a reader when the pipe is empty and can
\* still be written, a writer when it is full and can still be read.  The one
\* way to sleep beside bytes: a writer killed inside its loop returns -1
\* without the wakeup for the bytes it has already put in.
SleepersHaveReason ==
    plock = 0 =>
        /\ \A p \in Readers : ppc[p] = "nread" =>
              writeopen /\ (Empty \/ \E q \in Writers : pkilled[q])
        /\ \A p \in Writers : ppc[p] = "nwrite" => readopen /\ Full
=============================================================================
