-------------------------------- MODULE Mkfs -------------------------------
(***************************************************************************)
(* mkfs.c: the image the kernel boots from.  Blocks and inodes are handed  *)
(* out by two counters; iappend fills blocks through the inode's direct    *)
(* addresses and its indirect block; at the end the root's size is rounded *)
(* and the bitmap written.  A directory entry is one byte long here.       *)
(*                                                                         *)
(* An operator that no action uses and that stands just before one of the  *)
(* same parameters is a deliberate fault, used to test the properties.     *)
(***************************************************************************)
EXTENDS Integers, Sequences, FiniteSets, TLC

CONSTANTS NMeta,       \* nmeta: boot, super, log, inode and bitmap blocks
          FBSIZE,      \* BSIZE
          FNDIRECT, FNINDIRECT,
          MaxFiles, MaxChunks  \* bounds on the files and the reads of one

VARIABLES
    mphase,     \* "root", "next" file, "file", "done", or "abort" by an assertion
    mdinode,     \* type, size, addrs; addrs[FNDIRECT] is the indirect block
    sectors,    \* what was written to each data block: bytes or addresses
    freeinode, freeblock,
    bitmap,     \* the blocks marked as used
    chunks,     \* reads of the current file
    appended    \* history: the bytes appended to each inode

mkfsVars == <<mphase, mdinode, sectors, freeinode, freeblock, bitmap, chunks, appended>>

RootInum == 1
MInums == 1 .. MaxFiles + 1
FMAXFILE == FNDIRECT + FNINDIRECT
NewInode == [size |-> 0, addrs |-> [i \in 0 .. FNDIRECT |-> 0]]
Zeroes == [i \in 0 .. FBSIZE + FNINDIRECT |-> 0]

MkfsInit ==
    /\ mphase = "root" /\ mdinode = [i \in MInums |-> NewInode]
    /\ sectors = <<>>
    /\ freeinode = 1 /\ freeblock = NMeta /\ bitmap = {} /\ chunks = 0
    /\ appended = [i \in MInums |-> <<>>]

\* The disk d is [ino, sec, free].  freeblock++: a block, still zeroes.
NextBlock(d) == [d EXCEPT !.sec = (d.free :> Zeroes) @@ @, !.free = @ + 1]

BlockOf(d, ino, fbn) ==
    IF fbn < FNDIRECT THEN d.ino[ino].addrs[fbn]
    ELSE d.sec[d.ino[ino].addrs[FNDIRECT]][fbn - FNDIRECT]

WithIndirectAnew(d, ino) == [NextBlock(d) EXCEPT !.ino[ino].addrs[FNDIRECT] = d.free]
WithIndirect(d, ino) ==
    IF d.ino[ino].addrs[FNDIRECT] # 0 THEN d
    ELSE [NextBlock(d) EXCEPT !.ino[ino].addrs[FNDIRECT] = d.free]

Allocated(d, ino, fbn) ==
    LET x == IF fbn < FNDIRECT THEN d ELSE WithIndirect(d, ino)
    IN  IF BlockOf(x, ino, fbn) # 0 THEN x
        ELSE IF fbn < FNDIRECT THEN [NextBlock(x) EXCEPT !.ino[ino].addrs[fbn] = x.free]
        ELSE [NextBlock(x) EXCEPT !.sec[x.ino[ino].addrs[FNDIRECT]][fbn - FNDIRECT] = x.free]

\* One byte after the other; iappend's loop copies those of a block at once.
RECURSIVE Iappend(_, _, _)
Iappend(d, ino, bytes) ==
    LET off == d.ino[ino].size
        x == Allocated(d, ino, off \div FBSIZE)
        y == [x EXCEPT !.sec[BlockOf(x, ino, off \div FBSIZE)][off % FBSIZE] = Head(bytes),
                       !.ino[ino].size = off + 1]
    IN  IF bytes = <<>> THEN d ELSE Iappend(y, ino, Tail(bytes))
Disk == [ino |-> mdinode, sec |-> sectors, free |-> freeblock]
Fits(ino, n) == mdinode[ino].size + n <= FMAXFILE * FBSIZE

Appends(ino, bytes) ==
    LET d == Iappend(Disk, ino, bytes)
    IN  /\ Fits(ino, Len(bytes))
        /\ mdinode' = d.ino /\ sectors' = d.sec /\ freeblock' = d.free
        /\ appended' = [appended EXCEPT ![ino] = @ \o bytes]

\* "." and ".." of the root, with its inode.
MakeRoot ==
    /\ mphase = "root" /\ mphase' = "next" /\ freeinode' = freeinode + 1
    /\ Appends(RootInum, <<RootInum, RootInum>>)
    /\ UNCHANGED <<bitmap, chunks>>

\* ialloc and the entry of the next file named on the command line.
AddFile ==
    /\ mphase = "next" /\ freeinode <= MaxFiles + 1
    /\ mphase' = "file" /\ chunks' = 0 /\ freeinode' = freeinode + 1
    /\ Appends(RootInum, <<freeinode>>) /\ UNCHANGED bitmap

\* read returns up to a block's length.
AppendChunk(n) ==
    /\ mphase = "file" /\ chunks < MaxChunks /\ chunks' = chunks + 1
    /\ \/ /\ Appends(freeinode - 1, [i \in 1 .. n |-> chunks + 1]) /\ UNCHANGED mphase
       \/ \* assert(fbn < FMAXFILE)
          /\ ~Fits(freeinode - 1, n) /\ mphase' = "abort"
          /\ UNCHANGED <<mdinode, sectors, freeblock, appended>>
    /\ UNCHANGED <<freeinode, bitmap>>

CloseFile ==
    /\ mphase = "file" /\ mphase' = "next"
    /\ UNCHANGED <<mdinode, sectors, freeinode, freeblock, bitmap, chunks, appended>>

\* The root's size becomes a multiple of BSIZE, and balloc marks the blocks,
\* which must fit one bitmap block.
BallocAll == 0 .. freeblock - 1
MkfsEnd ==
    /\ mphase = "next" /\ mphase' = IF freeblock < FBSIZE * 8 THEN "done" ELSE "abort"
    /\ mdinode' = [mdinode EXCEPT ![RootInum].size = (@ \div FBSIZE + 1) * FBSIZE]
    /\ bitmap' = BallocAll
    /\ UNCHANGED <<sectors, freeinode, freeblock, chunks, appended>>

\* The image is made anew.
MkfsAgain ==
    /\ mphase \in {"done", "abort"} /\ mphase' = "root" /\ mdinode' = [i \in MInums |-> NewInode]
    /\ sectors' = <<>>
    /\ freeinode' = 1 /\ freeblock' = NMeta /\ bitmap' = {} /\ chunks' = 0
    /\ appended' = [i \in MInums |-> <<>>]

MkfsNext ==
    \/ MakeRoot \/ AddFile \/ CloseFile \/ MkfsEnd \/ MkfsAgain
    \/ \E n \in 1 .. FBSIZE : AppendChunk(n)

---------------------------------------------------------------------------

\* The blocks an inode uses, with its indirect block, by their place in it.
Places == (0 .. FNDIRECT) \cup {-k : k \in 1 .. FNINDIRECT}
UsedAt(ino, p) ==
    IF p >= 0 THEN mdinode[ino].addrs[p]
    ELSE IF mdinode[ino].addrs[FNDIRECT] = 0 THEN 0
    ELSE sectors[mdinode[ino].addrs[FNDIRECT]][-p - 1]

\* The image is one the kernel's bmap and balloc can take over: no block
\* belongs to two places, those in use are exactly the ones from nmeta to the
\* last one marked, and every file reads back as what was appended to it.
ImageConsistent ==
    /\ \A i, j \in MInums : \A p, q \in Places :
         UsedAt(i, p) # 0 /\ UsedAt(i, p) = UsedAt(j, q) => i = j /\ p = q
    /\ {UsedAt(i, p) : i \in MInums, p \in Places} \ {0} = NMeta .. freeblock - 1
    /\ \A i \in MInums : \A k \in 1 .. Len(appended[i]) :
         sectors[BlockOf(Disk, i, (k - 1) \div FBSIZE)][(k - 1) % FBSIZE] = appended[i][k]
    /\ mphase = "done" => bitmap = 0 .. freeblock - 1
=============================================================================
