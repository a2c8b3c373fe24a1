-------------------------------- MODULE Exec -------------------------------
(***************************************************************************)
(* sys_exec and exec.c for one process: the copies of the arguments, the   *)
(* new page table with the program's segments and stack, the commitment to *)
(* it, and every way out.  kalloc, namei, readi and the copies from user   *)
(* memory may fail whenever they are called.                               *)
(*                                                                         *)
(* An operator that no action uses and that stands just before one of the  *)
(* same parameters is a deliberate fault, used to test the properties.     *)
(***************************************************************************)
EXTENDS Integers, Sequences, FiniteSets, FiniteSetsExt

CONSTANTS Programs,  \* program headers of a file: [load, vaddr, memsz, filesz]
          AddrSpace, \* addresses and sizes wrap here (2^64)
          PGSIZE,
          MAXARG,
          ArgLengths \* strlen + 1 of an argument

VARIABLES
    image,   \* the process's page table: pages mapped, sz, table pages
    table,   \* the one under construction; "on" when pagetable # 0
    xpc,     \* where the call is
    argl,    \* lengths of the arguments copied to pages of the kernel
    phs,     \* program headers still to load
    file,    \* holding the inode's lock, inside a transaction
    sp,      \* the stack pointer
    argc,
    pages,   \* pages taken from kalloc and not given back
    before,  \* history: image when the call began
    xpanic   \* a panic was reached

execVars == <<image, table, xpc, argl, phs, file, sp, argc, pages, before, xpanic>>

PageOf(a) == (a + PGSIZE - 1) \div PGSIZE          \* PGROUNDUP in pages
Upto(sz) == 0 .. PageOf(sz) - 1
Size(t) == Cardinality(t.mapped) + t.tabs
NoTable == [on |-> FALSE, mapped |-> {}, sz |-> 0, tabs |-> 0]

\* The process has one page of code, as userinit makes it.
ExecInit ==
    /\ image = [on |-> TRUE, mapped |-> {0}, sz |-> PGSIZE, tabs |-> 5]
    /\ table = NoTable /\ xpc = "user" /\ argl = <<>> /\ phs = <<>>
    /\ file = FALSE /\ sp = 0 /\ argc = 0 /\ before = image
    /\ pages = Size(image) /\ xpanic = FALSE

At3(from, to) == xpc = from /\ xpc' = to

\* argstr of the path; the call may end here.
SysExec ==
    /\ At3("user", "args") /\ before' = image
    /\ UNCHANGED <<image, table, argl, phs, file, sp, argc, pages, xpanic>>

\* One turn of sys_exec's loop: fetchaddr, kalloc, fetchstr.
ArgNone == At3("args", "open") /\ UNCHANGED <<argl, pages>>
ArgCopied(n) ==
    /\ At3("args", "args") /\ Len(argl) < MAXARG
    /\ argl' = Append(argl, n) /\ pages' = pages + 1
ArgFails ==
    /\ At3("args", "badargs")
    /\ \/ UNCHANGED <<argl, pages>>
       \/ \* kalloc has succeeded, fetchstr not
          /\ Len(argl) < MAXARG /\ argl' = Append(argl, 0) /\ pages' = pages + 1

\* The loop refuses MAXARG arguments without a null after them.
SysExecArg ==
    /\ \/ Len(argl) < MAXARG /\ ArgNone
       \/ ArgFails
       \/ \E n \in ArgLengths : ArgCopied(n)
    /\ UNCHANGED <<image, table, phs, file, sp, argc, before, xpanic>>

\* begin_op; namei; ilock; the ELF header.
ExecOpen ==
    /\ xpc = "open"
    /\ \/ xpc' = "badargs" /\ UNCHANGED <<phs, file>>
       \/ xpc' = "bad" /\ file' = TRUE /\ UNCHANGED phs
       \/ xpc' = "table" /\ file' = TRUE /\ phs' \in Programs
    /\ UNCHANGED <<image, table, argl, sp, argc, pages, before, xpanic>>

\* proc_pagetable: the root and two tables above the trampoline, or nothing.
ProcPagetable ==
    /\ xpc = "table"
    /\ \/ xpc' = "bad" /\ UNCHANGED <<table, pages>>
       \/ /\ xpc' = "load" /\ pages' = pages + 3
          /\ table' = [NoTable EXCEPT !.on = TRUE, !.tabs = 3]
    /\ UNCHANGED <<image, argl, phs, file, sp, argc, before, xpanic>>

\* The table after uvmalloc(sz, newsz) has succeeded: the pages from
\* PGROUNDUP(sz) on, and the two tables over the lowest addresses.
Uvmalloc(t, sz, newsz) ==
    IF newsz < sz THEN [t EXCEPT !.sz = sz]
    ELSE [t EXCEPT !.mapped = @ \cup (Upto(newsz) \ Upto(sz)), !.sz = newsz,
                   !.tabs = IF Upto(newsz) \ Upto(sz) = {} THEN @ ELSE 5]

UvmdeallocDown(t, sz) == [t EXCEPT !.mapped = {p \in @ : p < sz \div PGSIZE}]
Uvmdealloc(t, sz) == [t EXCEPT !.mapped = @ \cap Upto(sz)]

\* uvmalloc fails at page k and takes back the pages before it; the table
\* pages that walk has added stay.
UvmallocFails(t, newsz) ==
    \E k \in Upto(newsz) \ Upto(t.sz), n \in t.tabs .. 5 :
        LET reached == [t EXCEPT !.mapped = @ \cup (0 .. k - 1), !.tabs = n]
        IN  /\ table' = Uvmdealloc(reached, t.sz)
            /\ pages' = pages + Size(table') - Size(t) /\ xpc' = "bad"

\* One program header.  A bad one ends the call.
SegmentEnd(h) == (h.vaddr + h.memsz) % AddrSpace
Refused(h) == \/ h.memsz < h.filesz \/ SegmentEnd(h) < h.vaddr
              \/ h.vaddr % PGSIZE # 0
ExecSegment ==
    LET h == Head(phs)
        t == Uvmalloc(table, table.sz, SegmentEnd(h))
    IN  /\ xpc = "load" /\ phs # <<>> /\ phs' = Tail(phs)
        /\ \/ xpc' = "bad" /\ UNCHANGED <<table, pages, xpanic>>  \* readi fails
           \/ ~h.load /\ xpc' = "load" /\ UNCHANGED <<table, pages, xpanic>>
           \/ h.load /\ Refused(h) /\ xpc' = "bad" /\ UNCHANGED <<table, pages, xpanic>>
           \/ /\ h.load /\ ~Refused(h)
              /\ UvmallocFails(table, SegmentEnd(h)) /\ UNCHANGED xpanic
           \/ /\ h.load /\ ~Refused(h) /\ t.sz = 0 /\ xpc' = "bad"
              /\ UNCHANGED <<table, pages, xpanic>>
           \/ \* loadseg: its pages must be there, and readi may fail
              /\ h.load /\ ~Refused(h) /\ t.sz > 0
              /\ table' = t /\ pages' = pages + Size(t) - Size(table)
              /\ LET p == h.vaddr \div PGSIZE
                 IN  xpanic' = (xpanic \/ ~(p .. p + PageOf(h.filesz) - 1 \subseteq t.mapped))
              /\ xpc' \in {"load", "bad"}
        /\ UNCHANGED <<image, argl, file, sp, argc, before>>

\* iunlockput, end_op.
ExecLoaded ==
    /\ xpc = "load" /\ phs = <<>> /\ xpc' = "stack" /\ file' = FALSE
    /\ UNCHANGED <<image, table, argl, phs, sp, argc, pages, before, xpanic>>

\* A guard page and a stack page at the next page boundary.
ExecStack ==
    LET sz == PageOf(table.sz) * PGSIZE
        t == Uvmalloc(table, sz, sz + 2 * PGSIZE)
    IN  /\ xpc = "stack"
        /\ \/ /\ UvmallocFails([table EXCEPT !.sz = sz], sz + 2 * PGSIZE) /\ UNCHANGED sp
           \/ /\ xpc' = "push" /\ table' = t /\ sp' = t.sz
              /\ pages' = pages + Size(t) - Size(table)
        /\ UNCHANGED <<image, argl, phs, file, argc, before, xpanic>>

\* sp after n bytes have been pushed; it stays a multiple of 2 (16).
Pushed(n) == (sp - n) - ((sp - n) % 2)
StackBase == table.sz - PGSIZE

\* The next string, and at last the argc + 1 pointers of 1 byte.  copyout
\* does not fail: what it writes to is between stackbase and sz.
ExecPush ==
    LET n == IF argc < Len(argl) THEN argl[argc + 1] ELSE argc + 1
    IN  /\ xpc = "push" /\ sp' = Pushed(n)
        /\ xpc' = IF Pushed(n) < StackBase THEN "bad"
                  ELSE IF argc < Len(argl) THEN "push" ELSE "commit"
        /\ argc' = IF argc < Len(argl) THEN argc + 1 ELSE argc
        /\ xpanic' = (xpanic \/ (Pushed(n) >= StackBase
                                 /\ ~(Pushed(n) \div PGSIZE \in table.mapped)))
        /\ UNCHANGED <<image, table, argl, phs, file, pages, before>>

\* proc_freepagetable: uvmunmap finds every page below sz, freewalk no other.
FreePanics(t) == t.mapped # Upto(t.sz)

ExecCommit ==
    /\ At3("commit", "done") /\ image' = table /\ table' = NoTable
    /\ pages' = pages - Size(image) /\ xpanic' = (xpanic \/ FreePanics(image))
    /\ UNCHANGED <<argl, phs, file, sp, argc, before>>

\* bad:
ExecBad ==
    /\ At3("bad", "badargs") /\ table' = NoTable /\ file' = FALSE
    /\ pages' = pages - Size(table)
    /\ xpanic' = (xpanic \/ (table.on /\ FreePanics(table)))
    /\ UNCHANGED <<image, argl, phs, sp, argc, before>>

\* The pages of the arguments are freed, whether exec failed or not.
SysExecEnd ==
    /\ xpc \in {"badargs", "done"} /\ xpc' = "user"
    /\ pages' = pages - Len(argl) /\ argl' = <<>> /\ argc' = 0 /\ sp' = 0 /\ phs' = <<>>
    /\ before' = IF xpc = "done" THEN image ELSE before
    /\ UNCHANGED <<image, table, file, xpanic>>

ExecNext ==
    \/ SysExec \/ SysExecArg \/ ExecOpen \/ ProcPagetable \/ ExecSegment \/ ExecLoaded
    \/ ExecStack \/ ExecPush \/ ExecCommit \/ ExecBad \/ SysExecEnd

---------------------------------------------------------------------------

\* exec happens or does not: after it the process has its old image or the
\* complete new one, no page is lost, no lock or transaction is left, and no
\* way through sys_exec and exec reaches a panic over pages half set up.
ImageOldOrNew ==
    /\ ~xpanic
    /\ xpc = "user" => /\ ~file /\ ~table.on /\ image = before
                       /\ pages = Size(image) /\ image.mapped = Upto(image.sz)
=============================================================================
