----------------------------- MODULE MCSystem ------------------------------
(***************************************************************************)
(* Components of the kernel and its programs, each on its own: a behaviour *)
(* is one of the component "unit" names, and the variables of the others   *)
(* keep their initial values.  Sched is the unit when build has a CPU.     *)
(***************************************************************************)
EXTENDS Sched, BufCache, Pipe, FileTable, Console, Uart, FileSys, InodeData,
        Spinlock, Exec, Alarm, UserCopy, Strings, Mkfs,
        Shell, ShellParse, Heap, Grep

VARIABLE unit

Kernel(sched, cpus, slots, bound, prios) ==
    [sched |-> sched, cpus |-> cpus, slots |-> slots, ticks |-> bound, prios |-> prios]

\* FCFS and MLFQ are measured on one CPU; PBS also keeps its word on two.
MCBuilds == {Kernel("FCFS", 1, 2, 3, {}), Kernel("FCFS", 1, 3, 1, {}),
             Kernel("MLFQ", 1, 2, 4, {}), Kernel("MLFQ", 1, 3, 1, {}),
             Kernel("PBS", 1, 3, 0, {20, 50}), Kernel("PBS", 1, 2, 2, {50}), Kernel("PBS", 2, 2, 0, {20}),
             Kernel("FCFS", 0, 1, 0, {})}
MCticklim == <<1, 2>>

MCBlocksOf == <<{1, 2, 3}, {1, 4}>>

Abs(s) == [abs |-> TRUE, elems |-> s]
Rel(s) == [abs |-> FALSE, elems |-> s]
MCLinks == {<<2, Abs(<<"a">>), Rel(<<"b">>)>>}
MCCalls == {<<1, "mkdir", Abs(<<"a">>)>>, <<1, "unlink", Abs(<<"a">>)>>,
            <<1, "chdir", Abs(<<"a">>)>>, <<1, "mknod", Rel(<<"b">>)>>,
            <<2, "create", Abs(<<"a">>)>>, <<2, "unlink", Abs(<<"a">>)>>,
            <<2, "open", Abs(<<"a">>)>>, <<2, "unlink", Abs(<<"a", "b">>)>>}

\* Two segments with a hole, one below the first, one out of line, one whose end
\* wraps, an empty one.
Segment(load, vaddr, memsz, filesz) ==
    [load |-> load, vaddr |-> vaddr, memsz |-> memsz, filesz |-> filesz]
MCPrograms == {<<Segment(TRUE, 0, 5, 3), Segment(TRUE, 8, 3, 3)>>,
               <<Segment(FALSE, 0, 0, 0), Segment(TRUE, 4, 1, 1), Segment(TRUE, 0, 2, 1)>>,
               <<Segment(TRUE, 3, 1, 1)>>, <<Segment(TRUE, 0, 2, 1), Segment(TRUE, 28, 6, 1)>>,
               <<Segment(TRUE, 0, 0, 0)>>, <<>>}

\* cat & ; echo | cat > f      echo | cat | cat > f      and a missing program
Command(argv) == [type |-> "exec", argv |-> argv]
Two(type, l, r) == [type |-> type, left |-> l, right |-> r]
ToFile(c) == [type |-> "redir", cmd |-> c, fd |-> 1]
MCCmdLines ==
    LET echo == Command("echo")
        cat == Command("cat")
    IN  {Two("list", [type |-> "back", cmd |-> cat], Two("pipe", echo, ToFile(cat))),
         Two("pipe", echo, Two("pipe", cat, ToFile(cat))), Command("")}

Units == {"sched", "buf", "pipe", "files", "console", "uart", "fs", "data",
          "spin", "exec", "alarm", "copy", "strings", "mkfs",
          "sh", "parse", "heap", "grep"}

SystemInit ==
    /\ SchedInit /\ BufInit /\ PipeInit /\ FileInit /\ ConsInit /\ UartInit
    /\ FsInit /\ DataInit /\ SpinInit /\ ExecInit /\ AlarmInit /\ CopyInit
    /\ StringInit /\ MkfsInit /\ ShInit /\ ParseInit /\ HeapInit /\ GrepInit
    /\ unit \in Units /\ (unit = "sched" <=> build.cpus > 0)

ioVars == <<schedVars, bufVars, pipeVars, fileVars, consVars, uartVars>>
kernelVars == <<fsVars, dataVars, mkfsVars, spinVars, execVars, alarmVars>>
userVars == <<copyVars, stringVars, shVars, toks, heapVars, grepVars>>
allVars == <<unit, ioVars, kernelVars, userVars>>

SystemNext ==
    \/ /\ unit = "sched" /\ SchedNext
       /\ UNCHANGED <<unit, bufVars, pipeVars, fileVars, consVars, uartVars, kernelVars, userVars>>
    \/ /\ unit = "buf" /\ BufNext
       /\ UNCHANGED <<unit, schedVars, pipeVars, fileVars, consVars, uartVars, kernelVars, userVars>>
    \/ /\ unit = "pipe" /\ PipeNext
       /\ UNCHANGED <<unit, schedVars, bufVars, fileVars, consVars, uartVars, kernelVars, userVars>>
    \/ /\ unit = "files" /\ FileNext
       /\ UNCHANGED <<unit, schedVars, bufVars, pipeVars, consVars, uartVars, kernelVars, userVars>>
    \/ /\ unit = "console" /\ ConsNext
       /\ UNCHANGED <<unit, schedVars, bufVars, pipeVars, fileVars, uartVars, kernelVars, userVars>>
    \/ /\ unit = "uart" /\ UartNext
       /\ UNCHANGED <<unit, schedVars, bufVars, pipeVars, fileVars, consVars, kernelVars, userVars>>
    \/ /\ unit = "fs" /\ FsNext
       /\ UNCHANGED <<unit, dataVars, mkfsVars, spinVars, execVars, alarmVars, ioVars, userVars>>
    \/ /\ unit = "data" /\ DataNext
       /\ UNCHANGED <<unit, fsVars, mkfsVars, spinVars, execVars, alarmVars, ioVars, userVars>>
    \/ /\ unit = "mkfs" /\ MkfsNext
       /\ UNCHANGED <<unit, fsVars, dataVars, spinVars, execVars, alarmVars, ioVars, userVars>>
    \/ /\ unit = "spin" /\ SpinNext
       /\ UNCHANGED <<unit, fsVars, dataVars, mkfsVars, execVars, alarmVars, ioVars, userVars>>
    \/ /\ unit = "exec" /\ ExecNext
       /\ UNCHANGED <<unit, fsVars, dataVars, mkfsVars, spinVars, alarmVars, ioVars, userVars>>
    \/ /\ unit = "alarm" /\ AlarmNext
       /\ UNCHANGED <<unit, fsVars, dataVars, mkfsVars, spinVars, execVars, ioVars, userVars>>
    \/ /\ unit = "copy" /\ CopyNext
       /\ UNCHANGED <<unit, stringVars, shVars, toks, heapVars, grepVars, ioVars, kernelVars>>
    \/ /\ unit = "strings" /\ StringNext
       /\ UNCHANGED <<unit, copyVars, shVars, toks, heapVars, grepVars, ioVars, kernelVars>>
    \/ /\ unit = "sh" /\ ShNext
       /\ UNCHANGED <<unit, copyVars, stringVars, toks, heapVars, grepVars, ioVars, kernelVars>>
    \/ /\ unit = "parse" /\ ParseNext
       /\ UNCHANGED <<unit, copyVars, stringVars, shVars, heapVars, grepVars, ioVars, kernelVars>>
    \/ /\ unit = "heap" /\ HeapNext
       /\ UNCHANGED <<unit, copyVars, stringVars, shVars, toks, grepVars, ioVars, kernelVars>>
    \/ /\ unit = "grep" /\ GrepNext
       /\ UNCHANGED <<unit, copyVars, stringVars, shVars, toks, heapVars, ioVars, kernelVars>>

SystemSpec == SystemInit /\ [][SystemNext]_allVars

---------------------------------------------------------------------------

\* A block is seen as it was last stored, wherever its buffer has been since.
CacheCoherent == unit = "buf" => HoldersSeeLatest

\* exec (exec.c, sys_exec) replaces the whole image or leaves it alone.
ExecAllOrNothing == unit = "exec" => ImageOldOrNew

\* Nobody sleeps on what has already happened: in bio.c, pipe.c, console.c and
\* uart.c every sleeper has a reason to, or a wakeup is on its way.
NoLostWakeup ==
    /\ unit = "buf" => NoSleeperOnFreeBuffer
    /\ unit = "pipe" => SleepersHaveReason
    /\ unit = "console" => ReaderAsleepMeansNoInput
    /\ unit = "uart" => OutputGoesOn

\* Rings whose indices wrap keep their bytes: pipe.c hands on what was written
\* and uart.c sends what was put, in order, none lost and none twice.
FirstInFirstOut ==
    /\ unit = "pipe" => BytesInOrder
    /\ unit = "uart" => OutputInOrder

\* Reference counts are exact between any two steps: buffers by the threads
\* that use them and the pins of the log (bio.c, log.c).
BufferRefsExact == unit = "buf" => RefcntsExact

\* Reference counts are exact between any two steps: struct files and pipes
\* by the descriptors of file.c and sysfile.c, in-memory inodes by the calls
\* of fs.c under way, working directories and open files.
ReferencesExact ==
    /\ unit = "files" => FilesAccounted
    /\ unit = "fs" => InodeRefsExact

\* What a path name leads to is there: links cover names, and an inode in
\* memory agrees with the one on disk (fs.c, and the calls of sysfile.c).
NamesAreCounted == unit = "fs" => LinksCoverNames
CachedInodeIsDiskInode == unit = "fs" => ValidMeansCurrent

\* Every disk block has one use: as bmap, balloc and itrunc of fs.c leave it
\* after any writes and truncations, and in the image mkfs makes.
DiskBlocksExact ==
    /\ unit = "data" => BlocksAccounted
    /\ unit = "mkfs" => ImageConsistent

\* The library agrees with what its callers take it to do: the kernel's and
\* the user's memory and string functions, the copies to and from user
\* memory, path names, numbers, and the blocks of malloc and free.
LibraryAgrees ==
    /\ unit = "strings" => CopiesAgree /\ PathsAgree /\ NumbersAgree
    /\ unit = "copy" => UserCopiesExact
    /\ unit = "heap" => HeapExact

\* The shell parses by its grammar, gives its prompt when the command in the
\* foreground has ended, and leaves no process of a pipeline waiting for a
\* pipe that nobody will write or read; grep prints the lines that match.
ProgramsAgree ==
    /\ unit = "parse" => ParsesByGrammar
    /\ unit = "sh" => PromptAfterForeground /\ CommandGoesOn
    /\ unit = "grep" => GrepPrintsMatches
=============================================================================
