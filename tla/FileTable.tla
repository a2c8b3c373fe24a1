----------------------------- MODULE FileTable -----------------------------
(***************************************************************************)
(* Open files: the table of file.c, the descriptors of the processes, and  *)
(* the calls of sysfile.c and proc.c that move references between them:    *)
(* dup, close, pipe, open, fork and exit.  An open file is a pipe          *)
(* end or an inode.  Holding ftable.lock is one step; fileclose goes on    *)
(* after it has released the lock.                                         *)
(*                                                                         *)
(* An operator that no action uses and that stands just before one of the  *)
(* same parameters is a deliberate fault, used to test the properties.     *)
(***************************************************************************)
EXTENDS Integers, FiniteSets, FiniteSetsExt, Functions

CONSTANTS FileProcs,  \* processes
          NFILE,      \* slots of ftable
          NOFILE,     \* descriptors of a process
          NPipe       \* pages for pipes

File == 1 .. NFILE
Fd == 0 .. NOFILE - 1
PipePage == 1 .. NPipe
NoFile == 0

VARIABLES
    fref,     \* f->ref
    ftype,    \* what f is: NONE, INODE, or the read or write end of a pipe
    fpipe,    \* f->pipe
    ofile,    \* p->ofile
    alive,    \* the process exists
    fpc,      \* where a process is
    rf, wf,   \* its rf and wf in sys_pipe; rf is also f elsewhere
    nxt,      \* the descriptor its fork or exit is at
    child,    \* the process its fork makes
    ropen, wopen,  \* pi->readopen, pi->writeopen
    inuse     \* pipe pages that are allocated

fileVars == <<fref, ftype, fpipe, ofile, alive, fpc, rf, wf, nxt, child, ropen,
              wopen, inuse>>

\* init has its console open.
FileInit ==
    /\ fref = [f \in File |-> IF f = 1 THEN 1 ELSE 0]
    /\ ftype = [f \in File |-> IF f = 1 THEN "INODE" ELSE "NONE"]
    /\ fpipe = [f \in File |-> NoFile]
    /\ alive = {Min(FileProcs)}
    /\ ofile = [p \in FileProcs |->
                  [d \in Fd |-> IF p \in alive /\ d = 0 THEN 1 ELSE NoFile]]
    /\ fpc = [p \in FileProcs |-> "user"]
    /\ rf = [p \in FileProcs |-> NoFile] /\ wf = [p \in FileProcs |-> NoFile]
    /\ nxt = [p \in FileProcs |-> 0]
    /\ child = [p \in FileProcs |-> NoFile]
    /\ ropen = [g \in PipePage |-> FALSE] /\ wopen = [g \in PipePage |-> FALSE]
    /\ inuse = {}

In(p, pc) == p \in alive /\ fpc[p] = pc
To(p, pc) == fpc' = [fpc EXCEPT ![p] = pc]
FreeFiles == {f \in File : fref[f] = 0}
FreeFds(p) == {d \in Fd : ofile[p][d] = NoFile}
pipes == <<ropen, wopen, inuse>>
locals == <<rf, wf, nxt, child>>

---------------------------------------------------------------------------
(* dup, open, close.                                                       *)

\* sys_dup: fdalloc, then filedup.
Dup(p, d) ==
    LET f == ofile[p][d]
    IN  /\ In(p, "user") /\ f # NoFile /\ FreeFds(p) # {}
        /\ ofile' = [ofile EXCEPT ![p][Min(FreeFds(p))] = f]
        /\ fref' = [fref EXCEPT ![f] = @ + 1]
        /\ UNCHANGED <<ftype, fpipe, alive, fpc, locals, pipes>>

\* sys_open: filealloc and fdalloc; without a descriptor the file is closed.
Open(p) ==
    /\ In(p, "user") /\ FreeFiles # {}
    /\ LET f == Min(FreeFiles)
       IN  /\ fref' = [fref EXCEPT ![f] = 1]
           /\ \/ /\ FreeFds(p) # {}
                 /\ ofile' = [ofile EXCEPT ![p][Min(FreeFds(p))] = f]
                 /\ ftype' = [ftype EXCEPT ![f] = "INODE"]
                 /\ UNCHANGED <<fpc, rf>>
              \/ /\ FreeFds(p) = {} /\ UNCHANGED <<ofile, ftype>>
                 /\ To(p, "close") /\ rf' = [rf EXCEPT ![p] = f]
    /\ UNCHANGED <<fpipe, alive, wf, nxt, child, pipes>>

\* sys_close: clear the descriptor, then fileclose.
SysClose(p, d) ==
    /\ In(p, "user") /\ ofile[p][d] # NoFile
    /\ ofile' = [ofile EXCEPT ![p][d] = NoFile]
    /\ rf' = [rf EXCEPT ![p] = ofile[p][d]]
    /\ To(p, "close")
    /\ UNCHANGED <<fref, ftype, fpipe, alive, wf, nxt, child, pipes>>

\* What comes after fileclose(rf): fileclose(wf) in sys_pipe's error path, the
\* next descriptor in exit, or the end of the call.
AfterClose(p) ==
    CASE wf[p] # NoFile -> "close"
      [] wf[p] = NoFile /\ nxt[p] > 0 -> "exit"
      [] OTHER -> "user"

Closed(p) ==
    /\ To(p, AfterClose(p))
    /\ rf' = [rf EXCEPT ![p] = wf[p]]
    /\ wf' = [wf EXCEPT ![p] = NoFile]

\* fileclose under ftable.lock: not the last reference, or the last one of an
\* inode or of a file that was never set up; ftype then names what is left.
Fileclose(p) ==
    LET f == rf[p]
    IN  /\ In(p, "close")
        /\ fref' = [fref EXCEPT ![f] = @ - 1]
        /\ \/ fref[f] > 1 /\ Closed(p) /\ UNCHANGED <<ftype, fpipe>>
           \/ /\ fref[f] = 1 /\ ftype[f] \in {"NONE", "INODE"} /\ Closed(p)
              /\ ftype' = [ftype EXCEPT ![f] = "NONE"] /\ UNCHANGED fpipe
           \/ /\ fref[f] = 1 /\ ftype[f] \in {"READ", "WRITE"}
              /\ ftype' = [ftype EXCEPT ![f] = "NONE"]
              /\ fpipe' = [fpipe EXCEPT ![f] = NoFile]
              /\ To(p, IF ftype[f] = "READ" THEN "rclose" ELSE "wclose")
              /\ rf' = [rf EXCEPT ![p] = fpipe[f]]  \* ff.pipe
              /\ UNCHANGED wf
        /\ UNCHANGED <<ofile, alive, nxt, child, pipes>>

FreePipeEither(g) == ~ropen'[g] \/ ~wopen'[g]

\* pipeclose frees the page when both ends are closed.
FreePipe(g) == ~ropen'[g] /\ ~wopen'[g]

Pipeclose(p) ==
    LET g == rf[p]
    IN  /\ \/ In(p, "rclose") /\ ropen' = [ropen EXCEPT ![g] = FALSE] /\ UNCHANGED wopen
           \/ In(p, "wclose") /\ wopen' = [wopen EXCEPT ![g] = FALSE] /\ UNCHANGED ropen
        /\ inuse' = IF FreePipe(g) THEN inuse \ {g} ELSE inuse
        /\ Closed(p)
        /\ UNCHANGED <<fref, ftype, fpipe, ofile, alive, nxt, child>>

---------------------------------------------------------------------------
(* pipe.                                                                   *)

\* pipealloc: two files, then a page.  filealloc of the second one is a step
\* of its own.
PipeFile1(p) ==
    /\ In(p, "user") /\ FreeFiles # {}
    /\ rf' = [rf EXCEPT ![p] = Min(FreeFiles)]
    /\ fref' = [fref EXCEPT ![Min(FreeFiles)] = 1]
    /\ To(p, "pipe2")
    /\ UNCHANGED <<ftype, fpipe, ofile, alive, wf, nxt, child, pipes>>

\* No second file: the first one is closed again.
PipeFile2(p) ==
    /\ In(p, "pipe2")
    /\ \/ /\ FreeFiles # {}
          /\ wf' = [wf EXCEPT ![p] = Min(FreeFiles)]
          /\ fref' = [fref EXCEPT ![Min(FreeFiles)] = 1]
          /\ To(p, "pipe3")
       \/ FreeFiles = {} /\ To(p, "close") /\ UNCHANGED <<fref, wf>>
    /\ UNCHANGED <<ftype, fpipe, ofile, alive, rf, nxt, child, pipes>>

\* kalloc, and the two ends; or both files are closed again.
PipePages(p) ==
    LET free == PipePage \ inuse
    IN  /\ In(p, "pipe3")
        /\ \/ /\ free # {}
              /\ LET g == Min(free)
                 IN  /\ inuse' = inuse \cup {g}
                     /\ ropen' = [ropen EXCEPT ![g] = TRUE]
                     /\ wopen' = [wopen EXCEPT ![g] = TRUE]
                     /\ ftype' = [ftype EXCEPT ![rf[p]] = "READ", ![wf[p]] = "WRITE"]
                     /\ fpipe' = [fpipe EXCEPT ![rf[p]] = g, ![wf[p]] = g]
              /\ To(p, "pipe4")
           \/ free = {} /\ To(p, "close") /\ UNCHANGED <<ftype, fpipe, pipes>>
        /\ UNCHANGED <<fref, ofile, alive, locals>>

PipeFdsLeak(p, ok) ==
    IF Cardinality(FreeFds(p)) = 1
    THEN [ofile EXCEPT ![p][Min(FreeFds(p))] = rf[p]]
    ELSE IF ok
    THEN LET a == Min(FreeFds(p)) b == Min(FreeFds(p) \ {a})
         IN  [ofile EXCEPT ![p][a] = rf[p], ![p][b] = wf[p]]
    ELSE ofile

\* The descriptors after the rest of sys_pipe: with only one free, fd0 is set
\* and cleared; with two, both are cleared again when copyout fails.
PipeFds(p, ok) ==
    IF ok
    THEN LET a == Min(FreeFds(p)) b == Min(FreeFds(p) \ {a})
         IN  [ofile EXCEPT ![p][a] = rf[p], ![p][b] = wf[p]]
    ELSE ofile

\* fdalloc twice and copyout of the two descriptors.
SysPipe(p, copyout) ==
    LET ok == copyout /\ Cardinality(FreeFds(p)) >= 2
    IN  /\ In(p, "pipe4")
        /\ ofile' = PipeFds(p, ok)
        /\ To(p, IF ok THEN "user" ELSE "close")
        /\ rf' = [rf EXCEPT ![p] = IF ok THEN NoFile ELSE @]
        /\ wf' = [wf EXCEPT ![p] = IF ok THEN NoFile ELSE @]
        /\ UNCHANGED <<fref, ftype, fpipe, alive, nxt, child, pipes>>

---------------------------------------------------------------------------
(* fork and exit.                                                          *)

\* allocproc has found a slot for the child.
ForkSlot(p) ==
    LET free == (FileProcs \ alive) \ {child[q] : q \in FileProcs}
    IN  /\ In(p, "user") /\ free # {}
        /\ child' = [child EXCEPT ![p] = Min(free)]
        /\ To(p, "fork")
        /\ UNCHANGED <<fref, ftype, fpipe, ofile, alive, rf, wf, nxt, pipes>>

\* filedup of one descriptor.
ForkFdDup(p) ==
    LET f == ofile[p][nxt[p]]
    IN  IF f = NoFile THEN fref ELSE [fref EXCEPT ![f] = @ + 1]

\* One turn of fork's loop over the descriptors.
ForkFd(p) ==
    /\ In(p, "fork") /\ nxt[p] \in Fd
    /\ fref' = ForkFdDup(p)
    /\ ofile' = [ofile EXCEPT ![child[p]][nxt[p]] = ofile[p][nxt[p]]]
    /\ nxt' = [nxt EXCEPT ![p] = @ + 1]
    /\ UNCHANGED <<ftype, fpipe, alive, fpc, rf, wf, child, pipes>>

ForkDone(p) ==
    /\ In(p, "fork") /\ nxt[p] = NOFILE
    /\ alive' = alive \cup {child[p]}
    /\ child' = [child EXCEPT ![p] = NoFile]
    /\ nxt' = [nxt EXCEPT ![p] = 0]
    /\ To(p, "user")
    /\ UNCHANGED <<fref, ftype, fpipe, ofile, rf, wf, pipes>>

\* exit, one descriptor at a time; its fileclose is a step of its own (it
\* clears the descriptor after that, which nobody else sees).  init does not
\* exit.
ExitFd(p) ==
    LET d == nxt[p]
    IN  /\ In(p, "exit") \/ (In(p, "user") /\ p # Min(FileProcs))
        /\ \/ /\ d \in Fd /\ nxt' = [nxt EXCEPT ![p] = d + 1]
              /\ ofile' = [ofile EXCEPT ![p][d] = NoFile]
              /\ rf' = [rf EXCEPT ![p] = ofile[p][d]]
              /\ To(p, IF ofile[p][d] = NoFile THEN "exit" ELSE "close")
              /\ UNCHANGED alive
           \/ /\ d = NOFILE /\ alive' = alive \ {p}
              /\ nxt' = [nxt EXCEPT ![p] = 0] /\ To(p, "user")
              /\ UNCHANGED <<ofile, rf>>
        /\ UNCHANGED <<fref, ftype, fpipe, wf, child, pipes>>

FileNext ==
    \E p \in FileProcs :
        \/ \E d \in Fd : Dup(p, d) \/ SysClose(p, d)
        \/ Open(p) \/ Fileclose(p) \/ Pipeclose(p)
        \/ PipeFile1(p) \/ PipeFile2(p) \/ PipePages(p)
        \/ \E ok \in BOOLEAN : SysPipe(p, ok)
        \/ ForkSlot(p) \/ ForkFd(p) \/ ForkDone(p) \/ ExitFd(p)

---------------------------------------------------------------------------

\* The references to f outside the table: descriptors, the child's included,
\* and the calls that hold f in rf or wf.
Holders(f) ==
    Cardinality({<<p, d>> \in FileProcs \X Fd : ofile[p][d] = f})
    + Cardinality({p \in FileProcs :
                      fpc[p] \in {"close", "pipe2", "pipe3", "pipe4"} /\ rf[p] = f})
    + Cardinality({p \in FileProcs : wf[p] = f})

\* f->ref is the number of references to f, while dup, fork, pipe with its
\* error paths, close and exit of several processes are under way.
FileRefsExact == \A f \in File : fref[f] = Holders(f)

\* A pipe's page is allocated exactly as long as a file or a close under way
\* still leads to it, and an end is open as long as some file is that end.
PipePagesExact ==
    \A g \in PipePage :
        LET to(t, pc) == \/ \E f \in File : ftype[f] = t /\ fpipe[f] = g
                         \/ \E p \in FileProcs : fpc[p] = pc /\ rf[p] = g
        IN  /\ ropen[g] = to("READ", "rclose")
            /\ wopen[g] = to("WRITE", "wclose")
            /\ (g \in inuse) = (ropen[g] \/ wopen[g])

\* Both: no file or pipe page is leaked, or freed while it is reachable, by
\* dup, fork, pipe, close and exit, with the error paths of sys_pipe.
FilesAccounted == FileRefsExact /\ PipePagesExact
=============================================================================
