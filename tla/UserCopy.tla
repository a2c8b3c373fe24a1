------------------------------- MODULE UserCopy ----------------------------
(***************************************************************************)
(* The copies between the kernel and a process's memory: walkaddr, copyin, *)
(* copyinstr and copyout of vm.c, page by page, and fetchaddr of           *)
(* syscall.c, next to what they should compute byte by byte.  The state is *)
(* a page table and the pages.  Copy-on-write is CowMemory's.              *)
(*                                                                         *)
(* An operator that no action uses and that stands just before one of the  *)
(* same parameters is a deliberate fault, used to test the properties.     *)
(***************************************************************************)
EXTENDS Integers, Sequences

CONSTANTS NVPages,    \* virtual pages, from 0, up to MAXVA
          AddrEnd,    \* a sum of addresses wraps here (2^64), beyond MAXVA
          Frames,     \* 1, 2, ...
          PageBytes,  \* PGSIZE
          CopyChars,  \* 0 ends a string
          PtrBytes    \* sizeof(uint64)

VARIABLES vtable,  \* the frame of each virtual page, 0 when not PTE_V
          hidden,  \* pages without PTE_U, as exec's guard page
          ram      \* the bytes of each frame

copyVars == <<vtable, hidden, ram>>

VPages == 0 .. NVPages - 1
MAXVA == NVPages * PageBytes

CopyInit ==
    /\ vtable = [v \in VPages |-> 0] /\ hidden = {}
    /\ ram = [f \in Frames |-> [i \in 0 .. PageBytes - 1 |-> 0]]

MapPage(v, f) ==
    /\ vtable[v] = 0 /\ \A w \in VPages : vtable[w] # f
    /\ vtable' = [vtable EXCEPT ![v] = f] /\ UNCHANGED <<hidden, ram>>
UnmapPage(v) ==
    /\ vtable[v] # 0 /\ vtable' = [vtable EXCEPT ![v] = 0]
    /\ hidden' = hidden \ {v} /\ UNCHANGED ram
Uvmclear(v) ==
    /\ vtable[v] # 0 /\ hidden' = hidden \cup {v} /\ UNCHANGED <<vtable, ram>>
StoreByte(f, i, b) ==
    /\ ram[f][i] # b /\ ram' = [ram EXCEPT ![f][i] = b]
    /\ UNCHANGED <<vtable, hidden>>

CopyNext ==
    \/ \E v \in VPages : UnmapPage(v) \/ Uvmclear(v) \/ \E f \in Frames : MapPage(v, f)
    \/ \E f \in Frames, i \in 0 .. PageBytes - 1, b \in CopyChars : StoreByte(f, i, b)

---------------------------------------------------------------------------

Walkaddr(va) ==
    LET v == va \div PageBytes
    IN  IF va >= MAXVA \/ v \in hidden THEN 0 ELSE vtable[v]

\* The bytes of this page that are left to copy.
ChunkWhole(va, len) == IF len < PageBytes THEN len ELSE PageBytes
Chunk(va, len) ==
    IF PageBytes - (va % PageBytes) > len THEN len ELSE PageBytes - (va % PageBytes)
PageEnd(va) == (va \div PageBytes + 1) * PageBytes

RECURSIVE Copyin(_, _)
Copyin(va, len) ==
    LET f == Walkaddr(va)
        n == Chunk(va, len)
        rest == Copyin(PageEnd(va), len - n)
    IN  IF len = 0 THEN [ok |-> TRUE, bytes |-> <<>>]
        ELSE IF f = 0 THEN [ok |-> FALSE, bytes |-> <<>>]
        ELSE [rest EXCEPT !.bytes = [i \in 1 .. n |-> ram[f][(va + i - 1) % PageBytes]] \o @]

RECURSIVE Copyout(_, _, _)
Copyout(r, va, src) ==
    LET f == Walkaddr(va)
        n == Chunk(va, Len(src))
        o == va % PageBytes
    IN  IF src = <<>> THEN [ok |-> TRUE, ram |-> r]
        ELSE IF f = 0 THEN [ok |-> FALSE, ram |-> r]
        ELSE Copyout([r EXCEPT ![f] = [i \in DOMAIN @ |->
                                          IF i \in o .. o + n - 1 THEN src[i - o + 1] ELSE @[i]]],
                     PageEnd(va), SubSeq(src, n + 1, Len(src)))

\* The inner loop of copyinstr copies the chunk up to its first NUL.
RECURSIVE Copyinstr(_, _)
Copyinstr(va, max) ==
    LET f == Walkaddr(va)
        n == Chunk(va, max)
        chunk == [i \in 1 .. n |-> ram[f][(va + i - 1) % PageBytes]]
        nuls == {i \in 1 .. n : chunk[i] = 0}
        rest == Copyinstr(PageEnd(va), max - n)
    IN  IF max = 0 \/ f = 0 THEN [ok |-> FALSE, bytes |-> <<>>]
        ELSE IF nuls = {} THEN [rest EXCEPT !.bytes = chunk \o @]
        ELSE [ok |-> TRUE,
              bytes |-> SubSeq(chunk, 1, (CHOOSE i \in nuls : \A j \in nuls : i <= j) - 1)]

Fetchaddr(addr, sz) ==
    IF addr >= sz \/ (addr + PtrBytes) % AddrEnd > sz THEN [ok |-> FALSE, bytes |-> <<>>]
    ELSE Copyin(addr, PtrBytes)

---------------------------------------------------------------------------

UserByte(va) == ram[vtable[va \div PageBytes]][va % PageBytes]
IsUser(va) == va < MAXVA /\ va \div PageBytes \notin hidden /\ vtable[va \div PageBytes] # 0

\* For every address and length, page boundaries and addresses so high that
\* the sum with a length wraps included, copyin and
\* fetchaddr return exactly the user's bytes when all of them are mapped and
\* an error when not, copyinstr the string when its end comes before the
\* limit and before a page that is missing, and copyout changes exactly the
\* bytes asked for, or on an error those before the missing page.
UserCopiesExact ==
    \A va \in 0 .. AddrEnd - 1 : \A n \in 0 .. 2 * PageBytes :
        LET range == va .. va + n - 1
            got == Copyin(va, n)
            str == Copyinstr(va, n)
            src == [i \in 1 .. n |-> 7]
            put == Copyout(ram, va, src)
            fetched == Fetchaddr(va, n)
            upto == {a \in range : \A b \in va .. a : IsUser(b)}
        IN  /\ got.ok <=> \A a \in range : IsUser(a)
            /\ got.ok => got.bytes = [i \in 1 .. n |-> UserByte(va + i - 1)]
            /\ fetched.ok <=> /\ va + PtrBytes <= n
                              /\ \A a \in va .. va + PtrBytes - 1 : IsUser(a)
            /\ str.ok <=> \E a \in upto : UserByte(a) = 0
            /\ str.ok => /\ \A i \in 1 .. Len(str.bytes) :
                               str.bytes[i] = UserByte(va + i - 1) /\ str.bytes[i] # 0
                         /\ UserByte(va + Len(str.bytes)) = 0
            /\ put.ok = got.ok
            /\ \A v \in VPages : vtable[v] # 0 => \A i \in 0 .. PageBytes - 1 :
                 put.ram[vtable[v]][i] =
                    IF v * PageBytes + i \in upto THEN 7 ELSE ram[vtable[v]][i]
=============================================================================
