------------------------------ MODULE FileSys ------------------------------
(***************************************************************************)
(* Inodes, directories and the system calls on names (fs.c, sysfile.c).    *)
(* Processes walk paths and change directories at the same time; inodes    *)
(* are cached in itable, counted there under itable.lock, and read and     *)
(* written under a sleep-lock each.  What a call does between taking and   *)
(* releasing locks is one step; iput, which frees an inode on disk after   *)
(* giving up itable.lock, is four.                                         *)
(*                                                                         *)
(* The table is indexed by inode number: iget, under itable.lock, never    *)
(* makes a second entry for one number.  Its size is not reached.  File    *)
(* content is in InodeData, transactions are in Log.  A process has one    *)
(* descriptor.  Paths have no "." or ".."; the entry ".." shows only in    *)
(* the parent's link count.                                                *)
(*                                                                         *)
(* An operator that no action uses and that stands just before one of the  *)
(* same parameters is a deliberate fault, used to test the properties.     *)
(***************************************************************************)
EXTENDS Integers, Sequences, FiniteSets, FiniteSetsExt, SequencesExt

CONSTANTS FsProcs,
          Inums,      \* inode numbers, 1 .. sb.ninodes - 1
          Names,      \* names in directories
          FsCalls,    \* <<process, call, path>>: open, create (O_CREATE), mkdir,
                      \* mknod, unlink or chdir with that path
          LinkPaths,  \* <<process, old path, new path>>: link
          MaxLink     \* bound: no link() when a file has so many links

VARIABLES
    dinode,    \* on disk: type ("free", "file", "dir", "dev") and nlink
    dents,     \* content of directories: name -> inum, 0 for none
    inode,     \* in itable: valid, type, nlink
    iref,      \* ip->ref
    ilk,       \* holder of ip->lock, or 0
    th,        \* the call each process is in
    cwd, fl,   \* p->cwd; the inode of p's open file, 0 if none
    ipanic     \* a panic of ilock or sys_unlink, or of sched in iput, was reached

fsVars == <<dinode, dents, inode, iref, ilk, th, cwd, fl, ipanic>>

ROOTINO == 1
NoDents == [n \in Names |-> 0]

\* A process outside the kernel.
User == [at |-> "user", call |-> "none", path |-> <<>>, new |-> 0,
         arg |-> [abs |-> TRUE, elems |-> <<>>],
         cur |-> 0, ip |-> 0, dp |-> 0, puts |-> <<>>, then |-> "user"]

FsInit ==
    /\ dinode = [i \in Inums |-> [type |-> IF i = ROOTINO THEN "dir" ELSE "free",
                                  nlink |-> IF i = ROOTINO THEN 1 ELSE 0]]
    /\ dents = [i \in Inums |-> NoDents]
    /\ inode = [i \in Inums |-> [valid |-> FALSE, type |-> "free", nlink |-> 0]]
    /\ iref = [i \in Inums |-> IF i = ROOTINO THEN Cardinality(FsProcs) ELSE 0]
    /\ ilk = [i \in Inums |-> 0]
    /\ th = [p \in FsProcs |-> User]
    /\ cwd = [p \in FsProcs |-> ROOTINO]
    /\ fl = [p \in FsProcs |-> 0]
    /\ ipanic = FALSE

---------------------------------------------------------------------------
\* Inodes.

\* The inode as ilock leaves it: read from disk unless valid.
Ilock(i) == IF inode[i].valid THEN inode[i]
            ELSE [valid |-> TRUE, type |-> dinode[i].type, nlink |-> dinode[i].nlink]
IlockPanics(i) == Ilock(i).type = "free" /\ ~inode[i].valid

\* itable as iget leaves it, given its inodes: a recycled entry is not valid.
IgetIn(table, i) == IF iref[i] = 0 THEN [table EXCEPT ![i].valid = FALSE] ELSE table
Iget(i) == inode' = IgetIn(inode, i) /\ iref' = [iref EXCEPT ![i] = @ + 1]

\* iupdate: m is the inode in memory.
Iupdate(m) == [type |-> m.type, nlink |-> m.nlink]

IputFreesIgnoringRefs(i) == inode[i].valid /\ inode[i].nlink = 0
IputFrees(i) == iref[i] = 1 /\ inode[i].valid /\ inode[i].nlink = 0

\* iput Head(puts); when all are put, the call goes on at "then".  Its
\* acquiresleep is called with itable.lock held and must not sleep.
Dropped(t) == [t EXCEPT !.puts = Tail(@), !.at = IF Len(t.puts) = 1 THEN t.then ELSE "put",
                        !.then = IF Len(t.puts) = 1 THEN "user" ELSE @]

Iput(p) ==
    LET t == th[p]
        i == Head(t.puts)
    IN  /\ t.at = "put"
        /\ \/ /\ ~IputFrees(i)
              /\ iref' = [iref EXCEPT ![i] = @ - 1]
              /\ th' = [th EXCEPT ![p] = Dropped(t)] /\ UNCHANGED <<ilk, ipanic>>
           \/ /\ IputFrees(i)
              /\ ipanic' = (ipanic \/ ilk[i] # 0)
              /\ ilk' = [ilk EXCEPT ![i] = p]
              /\ th' = [th EXCEPT ![p].at = "free"] /\ UNCHANGED iref
        /\ UNCHANGED <<dinode, dents, inode, cwd, fl>>

\* itrunc; ip->type = 0; iupdate
IputFree(p) ==
    LET i == Head(th[p].puts)
        m == [inode[i] EXCEPT !.type = "free"]
    IN  /\ th[p].at = "free"
        /\ dents' = [dents EXCEPT ![i] = NoDents]
        /\ inode' = [inode EXCEPT ![i] = m] /\ dinode' = [dinode EXCEPT ![i] = Iupdate(m)]
        /\ th' = [th EXCEPT ![p].at = "invalid"]
        /\ UNCHANGED <<iref, ilk, cwd, fl, ipanic>>

StaysValid(i) == inode
Invalidated(i) == [inode EXCEPT ![i].valid = FALSE]

\* ip->valid = 0; releasesleep.  ialloc may have given the inode away already.
IputRelease(p) ==
    LET i == Head(th[p].puts)
    IN  /\ th[p].at = "invalid"
        /\ inode' = Invalidated(i) /\ ilk' = [ilk EXCEPT ![i] = 0]
        /\ th' = [th EXCEPT ![p].at = "drop"]
        /\ UNCHANGED <<dinode, dents, iref, cwd, fl, ipanic>>

IputDrop(p) ==
    /\ th[p].at = "drop"
    /\ iref' = [iref EXCEPT ![Head(th[p].puts)] = @ - 1]
    /\ th' = [th EXCEPT ![p] = Dropped(th[p])]
    /\ UNCHANGED <<dinode, dents, inode, ilk, cwd, fl, ipanic>>

---------------------------------------------------------------------------
\* Path names.

WantsParent(t) == t.call \in {"create", "mkdir", "mknod", "unlink", "linknew"}
StartOf(p, path) == IF path.abs THEN ROOTINO ELSE cwd[p]

\* A system call begins, and namex with it: iget of the root or idup of cwd.
FsBegin(p, call, path, new) ==
    LET i == StartOf(p, path)
    IN  /\ th[p].at = "user"
        /\ call \in {"open", "create"} => fl[p] = 0
        /\ th' = [th EXCEPT ![p] = [User EXCEPT !.at = "walk", !.call = call, !.cur = i,
                                                !.path = path.elems, !.arg = new]]
        /\ Iget(i)
        /\ UNCHANGED <<dinode, dents, ilk, cwd, fl, ipanic>>

\* Put the inodes and go on; a call that returns then needs nothing else.
PutThen(t, puts, then) == [IF then = "user" THEN User ELSE t
                           EXCEPT !.at = "put", !.puts = puts, !.then = then]
NamexFailsKeeping(t) == IF t.call = "linknew" THEN [t EXCEPT !.at = "bad", !.cur = 0] ELSE User
NamexFails(t) == PutThen([t EXCEPT !.cur = 0], <<t.cur>>,
                         IF t.call = "linknew" THEN "bad" ELSE "user")

\* The end of the path.
NamexEnd(p) ==
    LET t == th[p]
    IN  /\ t.at = "walk" /\ t.path = <<>>
        /\ th' = [th EXCEPT ![p] = IF WantsParent(t) THEN NamexFails(t)
                                   ELSE [t EXCEPT !.at = t.call, !.ip = t.cur, !.cur = 0]]
        /\ UNCHANGED <<dinode, dents, inode, iref, ilk, cwd, fl, ipanic>>

\* One element: ilock, look it up, iunlockput.
NamexStep(p) ==
    LET t == th[p]
        i == t.cur
        m == Ilock(i)
        table == [inode EXCEPT ![i] = m]
        next == dents[i][Head(t.path)]
        last == WantsParent(t) /\ Len(t.path) = 1
    IN  /\ t.at = "walk" /\ t.path # <<>> /\ ilk[i] = 0
        /\ ipanic' = (ipanic \/ IlockPanics(i))
        /\ \/ /\ m.type # "dir" \/ (~last /\ next = 0)
              /\ th' = [th EXCEPT ![p] = NamexFails(t)]
              /\ inode' = table /\ UNCHANGED iref
           \/ /\ m.type = "dir" /\ last
              /\ th' = [th EXCEPT ![p] = [t EXCEPT !.at = t.call, !.dp = i, !.cur = 0]]
              /\ inode' = table /\ UNCHANGED iref
           \/ /\ m.type = "dir" /\ ~last /\ next # 0
              /\ inode' = IgetIn(table, next) /\ iref' = [iref EXCEPT ![next] = @ + 1]
              /\ th' = [th EXCEPT ![p] = PutThen([t EXCEPT !.cur = next, !.path = Tail(@)],
                                                 <<i>>, "walk")]
        /\ UNCHANGED <<dinode, dents, ilk, cwd, fl>>

---------------------------------------------------------------------------
\* System calls.  The inode a name led to is ip, the parent directory dp.

\* A step that locks and unlocks one inode i and changes nothing else on disk.
Looks(i) ==
    /\ ilk[i] = 0 /\ ipanic' = (ipanic \/ IlockPanics(i))
    /\ inode' = [inode EXCEPT ![i] = Ilock(i)]
    /\ UNCHANGED <<dinode, dents, iref, ilk>>

\* sys_open without O_CREATE: a directory opened to write, or no file or
\* descriptor left, gives the inode back.
OpenExisting(p) ==
    LET t == th[p]
    IN  /\ t.at = "open" /\ Looks(t.ip)
        /\ \/ /\ fl' = [fl EXCEPT ![p] = t.ip] /\ th' = [th EXCEPT ![p] = User]
           \/ /\ th' = [th EXCEPT ![p] = PutThen([t EXCEPT !.ip = 0], <<t.ip>>, "user")]
              /\ UNCHANGED fl
        /\ UNCHANGED cwd

Chdir(p) ==
    LET t == th[p]
        puts(i) == th' = [th EXCEPT ![p] = PutThen([t EXCEPT !.ip = 0], <<i>>, "user")]
    IN  /\ t.at = "chdir" /\ Looks(t.ip)
        /\ IF Ilock(t.ip).type = "dir"
           THEN puts(cwd[p]) /\ cwd' = [cwd EXCEPT ![p] = t.ip]
           ELSE puts(t.ip) /\ UNCHANGED cwd
        /\ UNCHANGED fl

FsClose(p) ==
    /\ th[p].at = "user" /\ fl[p] # 0
    /\ th' = [th EXCEPT ![p] = PutThen(User, <<fl[p]>>, "user")]
    /\ fl' = [fl EXCEPT ![p] = 0]
    /\ UNCHANGED <<dinode, dents, inode, iref, ilk, cwd, ipanic>>

\* create: the directory stays locked unless the name exists or no inode is
\* free; ialloc marks the first free inode on disk before iget counts it.
TypeOf(call) == CASE call = "create" -> "file" [] call = "mkdir" -> "dir" [] OTHER -> "dev"
Free == {i \in Inums : dinode[i].type = "free"}

CreateLookup(p) ==
    LET t == th[p]
        table == [inode EXCEPT ![t.dp] = Ilock(t.dp)]
        e == dents[t.dp][Head(t.path)]
    IN  /\ t.at \in {"create", "mkdir", "mknod"} /\ ilk[t.dp] = 0
        /\ ipanic' = (ipanic \/ IlockPanics(t.dp))
        /\ \/ /\ e # 0
              /\ inode' = IgetIn(table, e) /\ iref' = [iref EXCEPT ![e] = @ + 1]
              /\ th' = [th EXCEPT ![p] = PutThen([t EXCEPT !.ip = e, !.dp = 0], <<t.dp>>, "exists")]
              /\ UNCHANGED <<dinode, ilk>>
           \/ /\ e = 0 /\ Free = {}
              /\ th' = [th EXCEPT ![p] = PutThen([t EXCEPT !.dp = 0], <<t.dp>>, "user")]
              /\ inode' = table /\ UNCHANGED <<dinode, ilk, iref>>
           \/ /\ e = 0 /\ Free # {}
              /\ dinode' = [dinode EXCEPT ![Min(Free)] = [type |-> TypeOf(t.call), nlink |-> 0]]
              /\ ilk' = [ilk EXCEPT ![t.dp] = p]
              /\ th' = [th EXCEPT ![p] = [t EXCEPT !.at = "alloc", !.new = Min(Free)]]
              /\ inode' = table /\ UNCHANGED iref
        /\ UNCHANGED <<dents, cwd, fl>>

IallocIget(p) ==
    LET t == th[p]
    IN  /\ t.at = "alloc" /\ Iget(t.new)
        /\ th' = [th EXCEPT ![p] = [t EXCEPT !.at = "init", !.ip = t.new, !.new = 0]]
        /\ UNCHANGED <<dinode, dents, ilk, cwd, fl, ipanic>>

\* The new inode is locked and linked; writing an entry may run out of space.
CreateInit(p) ==
    LET t == th[p]
        m == [Ilock(t.ip) EXCEPT !.nlink = 1]
        d == [inode[t.dp] EXCEPT !.nlink = IF t.call = "mkdir" THEN @ + 1 ELSE @]
        gone == [m EXCEPT !.nlink = 0]
    IN  /\ t.at = "init" /\ ilk[t.ip] = 0
        /\ ipanic' = (ipanic \/ IlockPanics(t.ip))
        /\ \/ /\ inode' = [inode EXCEPT ![t.ip] = m, ![t.dp] = d]
              /\ dinode' = [dinode EXCEPT ![t.ip] = Iupdate(m), ![t.dp] = Iupdate(d)]
              /\ dents' = [dents EXCEPT ![t.dp][Head(t.path)] = t.ip]
              /\ ilk' = [ilk EXCEPT ![t.ip] = p, ![t.dp] = 0]
              /\ th' = [th EXCEPT ![p] = PutThen([t EXCEPT !.dp = 0], <<t.dp>>, "made")]
           \/ /\ inode' = [inode EXCEPT ![t.ip] = gone]
              /\ dinode' = [dinode EXCEPT ![t.ip] = Iupdate(gone)]
              /\ th' = [th EXCEPT ![p] = PutThen([t EXCEPT !.ip = 0], <<t.ip>>, "undo")]
              /\ UNCHANGED <<dents, ilk>>
        /\ UNCHANGED <<iref, cwd, fl>>

\* The name exists: only a file or device will do, and only for open.
CreateExists(p) ==
    LET t == th[p]
        m == Ilock(t.ip)
    IN  /\ t.at = "exists" /\ ilk[t.ip] = 0
        /\ ipanic' = (ipanic \/ IlockPanics(t.ip))
        /\ inode' = [inode EXCEPT ![t.ip] = m]
        /\ IF t.call = "create" /\ m.type # "dir"
           THEN ilk' = [ilk EXCEPT ![t.ip] = p] /\ th' = [th EXCEPT ![p].at = "made"]
           ELSE /\ th' = [th EXCEPT ![p] = PutThen([t EXCEPT !.ip = 0], <<t.ip>>, "user")]
                /\ UNCHANGED ilk
        /\ UNCHANGED <<dinode, dents, iref, cwd, fl>>

\* create returned ip locked: sys_open keeps it if it can, the others put it.
CreateMade(p) ==
    LET t == th[p]
    IN  /\ t.at = "made" /\ ilk' = [ilk EXCEPT ![t.ip] = 0]
        /\ \/ /\ t.call = "create" /\ fl' = [fl EXCEPT ![p] = t.ip]
              /\ th' = [th EXCEPT ![p] = User]
           \/ /\ th' = [th EXCEPT ![p] = PutThen([t EXCEPT !.ip = 0], <<t.ip>>, "user")]
              /\ UNCHANGED fl
        /\ UNCHANGED <<dinode, dents, inode, iref, cwd, ipanic>>

\* A failed create or unlink lets go of the directory.
Undo(p) ==
    LET t == th[p]
    IN  /\ t.at = "undo" /\ ilk' = [ilk EXCEPT ![t.dp] = 0]
        /\ th' = [th EXCEPT ![p] = PutThen([t EXCEPT !.dp = 0], <<t.dp>>, "user")]
        /\ UNCHANGED <<dinode, dents, inode, iref, cwd, fl, ipanic>>

\* sys_unlink: the directory is locked over all but the last part.
UnlinkLookup(p) ==
    LET t == th[p]
        table == [inode EXCEPT ![t.dp] = Ilock(t.dp)]
        e == dents[t.dp][Head(t.path)]
    IN  /\ t.at = "unlink" /\ ilk[t.dp] = 0
        /\ ipanic' = (ipanic \/ IlockPanics(t.dp))
        /\ \/ /\ e = 0
              /\ th' = [th EXCEPT ![p] = PutThen([t EXCEPT !.dp = 0], <<t.dp>>, "user")]
              /\ inode' = table /\ UNCHANGED <<ilk, iref>>
           \/ /\ e # 0
              /\ inode' = IgetIn(table, e) /\ iref' = [iref EXCEPT ![e] = @ + 1]
              /\ ilk' = [ilk EXCEPT ![t.dp] = p]
              /\ th' = [th EXCEPT ![p] = [t EXCEPT !.at = "remove", !.ip = e]]
        /\ UNCHANGED <<dinode, dents, cwd, fl>>

IsDirEmpty(i) == dents[i] = NoDents

UnlinkRemove(p) ==
    LET t == th[p]
        m == Ilock(t.ip)
        d == [inode[t.dp] EXCEPT !.nlink = IF m.type = "dir" THEN @ - 1 ELSE @]
        refused == m.type = "dir" /\ ~IsDirEmpty(t.ip)
    IN  /\ t.at = "remove" /\ ilk[t.ip] = 0
        /\ ipanic' = (ipanic \/ IlockPanics(t.ip) \/ m.nlink < 1)
        /\ \/ /\ refused
              /\ inode' = [inode EXCEPT ![t.ip] = m]
              /\ th' = [th EXCEPT ![p] = PutThen([t EXCEPT !.ip = 0], <<t.ip>>, "undo")]
              /\ UNCHANGED <<dinode, dents, ilk>>
           \/ /\ ~refused
              /\ dents' = [dents EXCEPT ![t.dp][Head(t.path)] = 0]
              /\ inode' = [inode EXCEPT ![t.ip] = m, ![t.dp] = d]
              /\ dinode' = [dinode EXCEPT ![t.dp] = Iupdate(d)]
              /\ ilk' = [ilk EXCEPT ![t.ip] = p, ![t.dp] = 0]
              /\ th' = [th EXCEPT ![p] = PutThen([t EXCEPT !.dp = 0], <<t.dp>>, "unlinked")]
        /\ UNCHANGED <<iref, cwd, fl>>

\* Change the link count of t.ip, held or just locked, and let it go.
Relink(p, by) ==
    LET i == th[p].ip
        m == [Ilock(i) EXCEPT !.nlink = @ + by]
    IN  /\ ipanic' = (ipanic \/ IlockPanics(i))
        /\ inode' = [inode EXCEPT ![i] = m] /\ dinode' = [dinode EXCEPT ![i] = Iupdate(m)]
        /\ ilk' = [ilk EXCEPT ![i] = 0]

UnlinkDone(p) ==
    LET t == th[p]
    IN  /\ t.at = "unlinked" /\ Relink(p, -1)
        /\ th' = [th EXCEPT ![p] = PutThen([t EXCEPT !.ip = 0], <<t.ip>>, "user")]
        /\ UNCHANGED <<dents, iref, cwd, fl>>

\* sys_link: the count goes up first, then the new name is looked up.
LinkOldDir(p) ==
    LET t == th[p]
    IN  /\ t.at = "link" /\ Ilock(t.ip).type = "dir" /\ Looks(t.ip)
        /\ th' = [th EXCEPT ![p] = PutThen([t EXCEPT !.ip = 0], <<t.ip>>, "user")]
        /\ UNCHANGED <<cwd, fl>>

LinkOldCountsLater(p) == Looks(th[p].ip)
LinkOldCounts(p) == Relink(p, 1) /\ UNCHANGED <<dents, iref>>

LinkOld(p) ==
    LET t == th[p]
    IN  /\ t.at = "link" /\ ilk[t.ip] = 0 /\ Ilock(t.ip).type # "dir"
        /\ LinkOldCounts(p) /\ th' = [th EXCEPT ![p] = [t EXCEPT !.at = "linkwalk"]]
        /\ UNCHANGED <<cwd, fl>>

LinkWalk(p) ==
    LET t == th[p]
        i == StartOf(p, t.arg)
    IN  /\ t.at = "linkwalk" /\ Iget(i)
        /\ th' = [th EXCEPT ![p] = [t EXCEPT !.at = "walk", !.call = "linknew", !.cur = i,
                                             !.path = t.arg.elems]]
        /\ UNCHANGED <<dinode, dents, ilk, cwd, fl, ipanic>>

\* dirlink fails if the name is there, or the disk is full.
LinkNew(p) ==
    LET t == th[p]
    IN  /\ t.at = "linknew" /\ ilk[t.dp] = 0
        /\ ipanic' = (ipanic \/ IlockPanics(t.dp))
        /\ inode' = [inode EXCEPT ![t.dp] = Ilock(t.dp)]
        /\ \/ /\ dents[t.dp][Head(t.path)] = 0
              /\ dents' = [dents EXCEPT ![t.dp][Head(t.path)] = t.ip]
              /\ th' = [th EXCEPT ![p] = PutThen([t EXCEPT !.ip = 0, !.dp = 0],
                                                 <<t.dp, t.ip>>, "user")]
           \/ /\ th' = [th EXCEPT ![p] = PutThen([t EXCEPT !.dp = 0], <<t.dp>>, "bad")]
              /\ UNCHANGED dents
        /\ UNCHANGED <<dinode, iref, ilk, cwd, fl>>

LinkBad(p) ==
    LET t == th[p]
    IN  /\ t.at = "bad" /\ ilk[t.ip] = 0 /\ Relink(p, -1)
        /\ th' = [th EXCEPT ![p] = PutThen([t EXCEPT !.ip = 0], <<t.ip>>, "user")]
        /\ UNCHANGED <<dents, iref, cwd, fl>>

FsStep(p) ==
    \/ Iput(p) \/ IputFree(p) \/ IputRelease(p) \/ IputDrop(p)
    \/ NamexEnd(p) \/ NamexStep(p)
    \/ OpenExisting(p) \/ Chdir(p) \/ FsClose(p)
    \/ CreateLookup(p) \/ IallocIget(p) \/ CreateInit(p) \/ CreateExists(p) \/ CreateMade(p)
    \/ Undo(p) \/ UnlinkLookup(p) \/ UnlinkRemove(p) \/ UnlinkDone(p)
    \/ LinkOldDir(p) \/ LinkOld(p) \/ LinkWalk(p) \/ LinkNew(p) \/ LinkBad(p)

FsNext ==
    \/ \E p \in FsProcs : FsStep(p)
    \/ \E c \in FsCalls : FsBegin(c[1], c[2], c[3], User.arg)
    \/ /\ \A i \in Inums \ {ROOTINO} : dinode[i].nlink < MaxLink
       /\ \E l \in LinkPaths : FsBegin(l[1], "link", l[2], l[3])

---------------------------------------------------------------------------

Has(t, i) == Cardinality({f \in {"cur", "ip", "dp"} : t[f] = i})
             + Len(SelectSeq(t.puts, LAMBDA j : j = i))
Entries(i) == {e \in Inums \X Names : dinode[e[1]].type = "dir" /\ dents[e[1]][e[2]] = i}
Subdirs(i) == {n \in Names : dents[i][n] # 0 /\ dinode[dents[i][n]].type = "dir"}

\* ip->ref counts exactly the pointers to the entry: working directories, open
\* files and the calls in progress, failed ones included.
InodeRefsExact ==
    \A i \in Inums :
        iref[i] = Cardinality({p \in FsProcs : cwd[p] = i})
                  + Cardinality({p \in FsProcs : fl[p] = i})
                  + MapThenSumSet(LAMBDA p : Has(th[p], i), FsProcs)

\* A name never leads to a free inode, nor to one with fewer links than names:
\* in a directory, an entry's inode is allocated and its link count covers all
\* its names and, for a directory, the ".." of its children.
LinksCoverNames ==
    /\ ~ipanic
    /\ \A i \in Inums : Cardinality(Entries(i)) + Cardinality(Subdirs(i)) <= dinode[i].nlink

\* An inode nobody holds locked is, if valid, what is on disk; and one that is
\* open, or a working directory, is allocated whoever unlinks it.
ValidMeansCurrent ==
    \A i \in Inums :
        /\ ilk[i] = 0 /\ iref[i] > 0 /\ inode[i].valid => Iupdate(inode[i]) = dinode[i]
        /\ (\E p \in FsProcs : i \in {cwd[p], fl[p]}) => dinode[i].type # "free"
=============================================================================
