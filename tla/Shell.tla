------------------------------- MODULE Shell -------------------------------
(***************************************************************************)
(* How sh.c runs a parsed command, and init.c the shell: main and runcmd   *)
(* as sequences of system calls, processes with their descriptors, and the *)
(* programs a command names.  A process whose call is to come next is one  *)
(* step; close, dup, pipe, fork, wait and exit do what sysfile.c and proc.c *)
(* do as far as a program can tell.                                        *)
(*                                                                         *)
(* An operator that no action uses and that stands just before one of the  *)
(* same parameters is a deliberate fault, used to test the properties.     *)
(***************************************************************************)
EXTENDS Integers, Sequences, FiniteSets, FiniteSetsExt

CONSTANTS ShProcs,      \* process slots; 1 is init
          CmdLines,     \* command trees a user may type
          MaxTyped,     \* bound: lines typed
          MaxForkFails  \* bound: calls of fork that fail

VARIABLES
    prog,    \* what a process still has to do, a sequence of calls
    fds,     \* its open files
    dad,     \* its parent
    life,    \* "unused", "live" or "zombie"
    back,    \* history: it was started in the background
    inpipe,  \* bytes in each pipe
    shell,   \* init's pid: the shell it waits for
    typed, forkfails

shVars == <<prog, fds, dad, life, back, inpipe, shell, typed, forkfails>>

init == 1
ShFd == 0 .. 6
ShPipes == 1 .. 2       \* more are never open at a time
None == [k |-> "none", n |-> 0]
Tty == [k |-> "console", n |-> 0]
Outfile == [k |-> "file", n |-> 0]
NoFiles == <<>>         \* of a process that is not live
End(k, n) == [k |-> k, n |-> n]

---------------------------------------------------------------------------
\* The calls and the programs made of them.

Call(c) == [call |-> c]
Close(d) == [call |-> "close", fd |-> d]
DupCall(d) == [call |-> "dup", fd |-> d]
RunCall(c) == [call |-> "run", cmd |-> c]
Fork1(s) == [call |-> "fork", child |-> s, bg |-> FALSE]
Fork1Back(s) == [Fork1(s) EXCEPT !.bg = TRUE]

\* runcmd's case for c, from the return of pipe(p) on: p is <<a, b>>.
RuncmdKeepsPipe(c, a, b) ==
    CASE c.type = "exec" -> <<Call(c.argv), Call("exit")>>
      [] c.type = "redir" -> <<Close(c.fd), Call("open"), RunCall(c.cmd)>>
      [] c.type = "list" -> <<Fork1(<<RunCall(c.left)>>), Call("wait"), RunCall(c.right)>>
      [] c.type = "back" -> <<Fork1Back(<<RunCall(c.cmd)>>), Call("exit")>>
      [] c.type = "pipe" ->
            <<Fork1(<<Close(1), DupCall(b), Close(a), Close(b), RunCall(c.left)>>),
              Fork1(<<Close(0), DupCall(a), Close(a), RunCall(c.right)>>),
              Close(a), Close(b), Call("wait"), Call("wait"), Call("exit")>>

Runcmd(c, a, b) ==
    CASE c.type = "exec" -> <<Call(c.argv), Call("exit")>>
      [] c.type = "redir" -> <<Close(c.fd), Call("open"), RunCall(c.cmd)>>
      [] c.type = "list" -> <<Fork1(<<RunCall(c.left)>>), Call("wait"), RunCall(c.right)>>
      [] c.type = "back" -> <<Fork1Back(<<RunCall(c.cmd)>>), Call("exit")>>
      [] c.type = "pipe" ->
            <<Fork1(<<Close(1), DupCall(b), Close(a), Close(b), RunCall(c.left)>>),
              Fork1(<<Close(0), DupCall(a), Close(a), Close(b), RunCall(c.right)>>),
              Close(a), Close(b), Call("wait"), Call("wait"), Call("exit")>>

\* echo of one word, which writes twice, and cat without arguments.
EchoMain == <<Call("write"), Call("write"), Call("exit")>>
CatMain == <<Call("read"), Call("exit")>>
Program(argv) == CASE argv = "echo" -> EchoMain [] argv = "cat" -> CatMain
                   [] argv = "sh" -> <<Call("getcmd")>>

\* init's main: start the shell, and wait until it has exited.
InitMain == <<Fork1(<<Call("sh"), Call("exit")>>), Call("initwait")>>

ShInit ==
    /\ prog = [p \in ShProcs |-> IF p = init THEN InitMain ELSE <<>>]
    /\ fds = [p \in ShProcs |-> IF p # init THEN NoFiles
                                ELSE [d \in ShFd |-> IF d < 3 THEN Tty ELSE None]]
    /\ dad = [p \in ShProcs |-> 0]
    /\ life = [p \in ShProcs |-> IF p = init THEN "live" ELSE "unused"]
    /\ back = [p \in ShProcs |-> FALSE]
    /\ inpipe = [n \in ShPipes |-> 0]
    /\ shell = 0 /\ typed = 0 /\ forkfails = 0

---------------------------------------------------------------------------

At(p, c) == life[p] = "live" /\ prog[p] # <<>> /\ Head(prog[p]).call = c
Becomes(p, s) == prog' = [prog EXCEPT ![p] = s]
Next1(p) == Becomes(p, Tail(prog[p]))
Quit(p) == Becomes(p, <<Call("exit")>>)
Lowest(p) == Min({d \in ShFd : fds[p][d] = None})
SetFd(p, d, o) == fds' = [fds EXCEPT ![p][d] = o]
Holds(o) == {p \in ShProcs : life[p] = "live" /\ \E d \in ShFd : fds[p][d] = o}
rest == <<dad, life, back, shell, typed, forkfails>>

ShClose(p) ==
    /\ At(p, "close") /\ Next1(p) /\ SetFd(p, Head(prog[p]).fd, None)
    /\ UNCHANGED <<rest, inpipe>>

ShDup(p) ==
    /\ At(p, "dup") /\ Next1(p) /\ SetFd(p, Lowest(p), fds[p][Head(prog[p]).fd])
    /\ UNCHANGED <<rest, inpipe>>

\* open of a redirection; if it fails, exit(1).
ShOpen(p) ==
    /\ At(p, "open")
    /\ \/ Next1(p) /\ SetFd(p, Lowest(p), Outfile)
       \/ Quit(p) /\ UNCHANGED fds
    /\ UNCHANGED <<rest, inpipe>>

\* runcmd.  An empty command exits; a pipe command calls pipe first, and
\* panics if that fails.
ShRuncmd(p) ==
    LET c == Head(prog[p]).cmd
        a == Lowest(p)
        b == Min({d \in ShFd \ {a} : fds[p][d] = None})
        n == Min({m \in ShPipes : Holds(End("r", m)) \cup Holds(End("w", m)) = {}})
    IN  /\ At(p, "run")
        /\ IF c.type = "pipe"
           THEN /\ Becomes(p, Runcmd(c, a, b))
                /\ fds' = [fds EXCEPT ![p] = [@ EXCEPT ![a] = End("r", n), ![b] = End("w", n)]]
                /\ inpipe' = [inpipe EXCEPT ![n] = 0]
           ELSE Becomes(p, Runcmd(c, 0, 0)) /\ UNCHANGED <<fds, inpipe>>
        /\ UNCHANGED rest

ShPipeFails(p) ==
    /\ At(p, "run") /\ Head(prog[p]).cmd.type = "pipe" /\ Quit(p)
    /\ UNCHANGED <<rest, fds, inpipe>>

\* exec: it replaces the program, or fails and the caller goes on to exit.
ShExec(p) ==
    /\ life[p] = "live" /\ prog[p] # <<>>
    /\ LET argv == Head(prog[p]).call
       IN  /\ argv \in {"", "echo", "cat", "sh"}
           /\ \/ argv # "" /\ Becomes(p, Program(argv))
              \/ Quit(p)
    /\ UNCHANGED <<rest, fds, inpipe>>

\* fork1: the child runs its part, the parent goes on; if fork fails, panic.
\* init's fork is taken not to fail: the kernel would not survive its exit.
ShFork(p) ==
    LET free == {q \in ShProcs : life[q] = "unused"}
        c == Min(free)
    IN  /\ At(p, "fork")
        /\ \/ /\ free # {}
              /\ prog' = [prog EXCEPT ![p] = Tail(@), ![c] = Head(prog[p]).child]
              /\ fds' = [fds EXCEPT ![c] = fds[p]]
              /\ dad' = [dad EXCEPT ![c] = p]
              /\ life' = [life EXCEPT ![c] = "live"]
              /\ back' = [back EXCEPT ![c] = back[p] \/ Head(prog[p]).bg]
              /\ shell' = IF p = init THEN c ELSE shell
              /\ UNCHANGED forkfails
           \/ /\ p # init /\ (free = {} \/ forkfails < MaxForkFails)
              /\ Quit(p) /\ forkfails' = forkfails + 1
              /\ UNCHANGED <<fds, dad, life, back, shell>>
        /\ UNCHANGED <<typed, inpipe>>

HeirParent(p) == dad[p]
Heir(p) == init

\* exit: close everything, give the children to init.
ShExit(p) ==
    /\ At(p, "exit")
    /\ prog' = [prog EXCEPT ![p] = <<>>]
    /\ fds' = [fds EXCEPT ![p] = NoFiles]
    /\ dad' = [q \in ShProcs |-> IF dad[q] = p THEN Heir(p) ELSE dad[q]]
    /\ life' = [life EXCEPT ![p] = "zombie"]
    /\ UNCHANGED <<back, shell, typed, forkfails, inpipe>>

\* wait(0): -1 without children, else the first that is dead.  init starts a
\* new shell when it was the shell.
ShWait(p) ==
    LET kids == {q \in ShProcs : dad[q] = p /\ life[q] # "unused"}
    IN  /\ At(p, "wait") \/ At(p, "initwait")
        /\ \/ kids = {} /\ Next1(p) /\ UNCHANGED <<dad, life>>
           \/ \E q \in kids :
                 /\ life[q] = "zombie" /\ life' = [life EXCEPT ![q] = "unused"]
                 /\ dad' = [dad EXCEPT ![q] = 0]
                 /\ IF At(p, "wait") THEN Next1(p)
                    ELSE Becomes(p, IF q = shell THEN InitMain ELSE prog[p])
        /\ UNCHANGED <<back, shell, typed, forkfails, fds, inpipe>>

\* The shell's main: a line is typed, or the end of input ends the shell.
ShGetcmd(p) ==
    /\ At(p, "getcmd")
    /\ \/ /\ typed < MaxTyped /\ typed' = typed + 1
          /\ \E c \in CmdLines :
                Becomes(p, <<Fork1(<<RunCall(c)>>), Call("wait"), Call("getcmd")>>)
       \/ Quit(p) /\ UNCHANGED typed
    /\ UNCHANGED <<fds, dad, life, back, shell, inpipe, forkfails>>

\* read, and cat's loop around it.  A pipe gives 0 when it is empty and no one
\* can write to it; on the console the user ends the input at once.
ShRead(p) ==
    LET o == fds[p][0]
    IN  /\ At(p, "read")
        /\ \/ o.k # "r" /\ Next1(p) /\ UNCHANGED inpipe
           \/ /\ o.k = "r" /\ inpipe[o.n] > 0
              /\ inpipe' = [inpipe EXCEPT ![o.n] = @ - 1]
              /\ Becomes(p, <<Call("copy")>> \o prog[p])
           \/ /\ o.k = "r" /\ inpipe[o.n] = 0 /\ Holds(End("w", o.n)) = {}
              /\ Next1(p) /\ UNCHANGED inpipe
        /\ UNCHANGED <<rest, fds>>

\* write; a pipe (of one byte here) gives -1 when no one can read from it,
\* and then cat exits.
ShWrite(p) ==
    LET o == fds[p][1]
    IN  /\ At(p, "write") \/ At(p, "copy")
        /\ \/ o.k # "w" /\ Next1(p) /\ UNCHANGED inpipe
           \/ /\ o.k = "w" /\ Holds(End("r", o.n)) = {} /\ UNCHANGED inpipe
              /\ IF At(p, "copy") THEN Quit(p) ELSE Next1(p)
           \/ /\ o.k = "w" /\ Holds(End("r", o.n)) # {} /\ inpipe[o.n] = 0
              /\ inpipe' = [inpipe EXCEPT ![o.n] = 1] /\ Next1(p)
        /\ UNCHANGED <<rest, fds>>

ShStep(p) ==
    \/ ShClose(p) \/ ShDup(p) \/ ShOpen(p) \/ ShRuncmd(p) \/ ShPipeFails(p)
    \/ ShExec(p) \/ ShFork(p) \/ ShExit(p) \/ ShWait(p) \/ ShGetcmd(p)
    \/ ShRead(p) \/ ShWrite(p)

ShNext == \E p \in ShProcs : ShStep(p)

---------------------------------------------------------------------------

Waits == shell # 0 /\ At(shell, "wait")
Foreground == {p \in ShProcs \ {init} : life[p] # "unused" /\ ~back[p]}

\* The shell asks for the next line only when every process of the last one
\* that was not put in the background is gone, however commands are nested:
\* no wait(0) of sh.c takes the wrong child.  (A failed fork may leave some.)
PromptAfterForeground ==
    forkfails = 0 /\ shell # 0 /\ At(shell, "getcmd") => Foreground = {shell}

\* A command line comes to its end: while the shell waits for it, some process
\* that the shell has started can go on, and each has a finite course.  A pipe
\* end left open in sh.c would make a reader wait for what nobody can write.
CommandGoesOn == Waits => ENABLED (\E p \in ShProcs \ {init} : ShStep(p))
=============================================================================
