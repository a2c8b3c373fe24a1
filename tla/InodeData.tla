----------------------------- MODULE InodeData -----------------------------
(***************************************************************************)
(* File content: balloc, bfree, bmap, itrunc, readi and writei (fs.c), as  *)
(* fileread, filewrite and an open with O_TRUNC use them (file.c,          *)
(* sysfile.c).  A call holds the inode's lock throughout; calls on         *)
(* different inodes share the free map.  A block is BSIZE cells, a cell a  *)
(* byte of data or, in an indirect block, a block number: nothing in the   *)
(* block says which.  BSIZE is also NINDIRECT.  A write may run out of     *)
(* blocks, and its source may be unreadable from some byte on; the bytes   *)
(* of a block that were copied before that are in the cached block but are *)
(* not logged, so what a reader finds there is Unknown.                    *)
(*                                                                         *)
(* An operator that no action uses and that stands just before one of the  *)
(* same parameters is a deliberate fault, used to test the properties.     *)
(***************************************************************************)
EXTENDS Integers, Sequences, FiniteSets, FiniteSetsExt

CONSTANTS Files,      \* inodes of type T_FILE
          OpenFiles,  \* the ones with a file whose offset is kept; others are reopened
          DataBlocks, \* blocks balloc may give out, positive
          NDIRECT,
          BSIZE,
          Lengths,    \* bytes a call asks for
          Bytes,      \* what is written
          Unknown     \* not in Bytes, not a block

VARIABLES
    used,      \* the free map: blocks marked in use
    blk,       \* block -> cells
    addrs,     \* ip->addrs
    isize,     \* ip->size
    foff,      \* f->off of one open file of the inode
    wr,        \* the writei in progress: on, off, n, byte, seek
    content,   \* history: what the file should hold
    freed      \* bfree was called on a free block

dataVars == <<used, blk, addrs, isize, foff, wr, content, freed>>

MAXFILE == NDIRECT + BSIZE
Cells == 0 .. BSIZE - 1
ZeroBlock == [c \in Cells |-> 0]
NoWrite == [on |-> FALSE, off |-> 0, n |-> 0, byte |-> 0, seek |-> FALSE]

DataInit ==
    /\ used = {} /\ blk = [b \in DataBlocks |-> ZeroBlock]
    /\ addrs = [i \in Files |-> [k \in 0 .. NDIRECT |-> 0]]
    /\ isize = [i \in Files |-> 0] /\ foff = [i \in Files |-> 0]
    /\ wr = [i \in Files |-> NoWrite]
    /\ content = [i \in Files |-> <<>>] /\ freed = FALSE

---------------------------------------------------------------------------
\* bmap works on s: the block found (a), the free map, the blocks, the inode.

BallocUnzeroed(s) ==
    LET b == Min(DataBlocks \ s.used)
    IN  IF DataBlocks = s.used THEN [s EXCEPT !.a = 0]
        ELSE [s EXCEPT !.a = b, !.used = @ \cup {b}]

\* The first free block, zeroed; 0 if there is none.
Balloc(s) ==
    LET b == Min(DataBlocks \ s.used)
    IN  IF DataBlocks = s.used THEN [s EXCEPT !.a = 0]
        ELSE [s EXCEPT !.a = b, !.used = @ \cup {b}, !.blk[b] = ZeroBlock]

\* addrs[k], allocated if need be.
BmapDirect(s, k) ==
    LET new == Balloc(s)
    IN  IF s.addrs[k] # 0 THEN [s EXCEPT !.a = s.addrs[k]]
        ELSE [new EXCEPT !.addrs[k] = new.a]

BmapIndirect(s, j) ==
    LET ind == BmapDirect(s, NDIRECT)
        new == Balloc(ind)
    IN  IF ind.a = 0 THEN ind
        ELSE IF ind.blk[ind.a][j] # 0 THEN [ind EXCEPT !.a = ind.blk[ind.a][j]]
        ELSE IF new.a = 0 THEN new
        ELSE [new EXCEPT !.blk[ind.a][j] = new.a]

Bmap(i, bn) ==
    LET s == [a |-> 0, used |-> used, blk |-> blk, addrs |-> addrs[i]]
    IN  IF bn < NDIRECT THEN BmapDirect(s, bn) ELSE BmapIndirect(s, bn - NDIRECT)

---------------------------------------------------------------------------

\* filewrite's call of writei, at the file's offset, or at 0 for a file just
\* opened.  A write past the end, or of more than a file holds, does nothing.
WriteBegin(i, n, byte, seek) ==
    LET off == IF seek THEN foff[i] ELSE 0
    IN  /\ ~wr[i].on /\ off <= isize[i] /\ off + n <= MAXFILE * BSIZE
        /\ wr' = [wr EXCEPT ![i] = [on |-> TRUE, off |-> off, n |-> n, byte |-> byte, seek |-> seek]]
        /\ UNCHANGED <<used, blk, addrs, isize, foff, content, freed>>

\* The bytes of the current turn of writei's loop.
Piece(w) == Min({w.n, BSIZE - (w.off % BSIZE)})
Filled(cells, w, m, v) ==
    LET first == w.off % BSIZE
    IN  [c \in Cells |-> IF c \in first .. first + m - 1 THEN v ELSE cells[c]]
Overwritten(s, from, m, v) ==
    [k \in 1 .. Max({Len(s), from + m}) |-> IF k \in from + 1 .. from + m THEN v ELSE s[k]]

\* The end of writei and of filewrite's turn: the size, and f->off.
SizeUpdateAlways(i, off) == isize' = [isize EXCEPT ![i] = off]
SizeUpdate(i, off) == isize' = [isize EXCEPT ![i] = Max({@, off})]

WriteEnd(i) ==
    /\ wr[i].on /\ wr[i].n = 0
    /\ SizeUpdate(i, wr[i].off)
    /\ foff' = [foff EXCEPT ![i] = IF wr[i].seek THEN wr[i].off ELSE @]
    /\ wr' = [wr EXCEPT ![i] = NoWrite]
    /\ UNCHANGED <<used, blk, addrs, content, freed>>

\* One turn: map the block, copy, log.  The loop is left when no block is
\* found or the copy fails.
WriteBlock(i) ==
    LET w == wr[i]
        m == Piece(w)
        s == Bmap(i, w.off \div BSIZE)
        copies(k, v) == blk' = [s.blk EXCEPT ![s.a] = Filled(@, w, k, v)]
    IN  /\ w.on /\ w.n > 0
        /\ used' = s.used /\ addrs' = [addrs EXCEPT ![i] = s.addrs]
        /\ \/ /\ s.a = 0 /\ blk' = s.blk
              /\ wr' = [wr EXCEPT ![i].n = 0] /\ UNCHANGED content
           \/ /\ s.a # 0 /\ copies(m, w.byte)
              /\ content' = [content EXCEPT ![i] = Overwritten(@, w.off, m, w.byte)]
              /\ wr' = [wr EXCEPT ![i].n = @ - m, ![i].off = @ + m]
           \/ /\ s.a # 0 /\ wr' = [wr EXCEPT ![i].n = 0]
              /\ \E k \in 0 .. m - 1 :
                    /\ copies(k, Unknown)
                    /\ content' = [content EXCEPT ![i] =
                          [j \in DOMAIN @ |-> IF j \in w.off + 1 .. w.off + k THEN Unknown ELSE @[j]]]
        /\ UNCHANGED <<isize, foff, freed>>

\* fileread: readi clips to the size; a failed copyout reads nothing.
FileRead(i, n) ==
    /\ ~wr[i].on /\ i \in OpenFiles /\ foff[i] < isize[i]
    /\ foff' = [foff EXCEPT ![i] = Min({@ + n, isize[i]})]
    /\ UNCHANGED <<used, blk, addrs, isize, wr, content, freed>>

IndirectOf(i) == IF addrs[i][NDIRECT] = 0 THEN {}
                 ELSE {blk[addrs[i][NDIRECT]][c] : c \in Cells} \ {0}

\* What itrunc gives to bfree.
Truncated(i) == ({addrs[i][k] : k \in 0 .. NDIRECT} \ {0}) \cup IndirectOf(i)

Itrunc(i) ==
    /\ ~wr[i].on
    /\ freed' = (freed \/ ~(Truncated(i) \subseteq used))
    /\ used' = used \ Truncated(i)
    /\ addrs' = [addrs EXCEPT ![i] = [k \in 0 .. NDIRECT |-> 0]]
    /\ isize' = [isize EXCEPT ![i] = 0]
    /\ content' = [content EXCEPT ![i] = <<>>]
    /\ UNCHANGED <<blk, foff, wr>>

DataNext ==
    \E i \in Files :
        \/ WriteBlock(i) \/ WriteEnd(i) \/ Itrunc(i)
        \/ \E n \in Lengths :
              \/ FileRead(i, n)
              \/ \E byte \in Bytes, seek \in {FALSE, (i \in OpenFiles)} : WriteBegin(i, n, byte, seek)

---------------------------------------------------------------------------

Roots(i) == {k \in 0 .. NDIRECT : addrs[i][k] # 0}
Leaves(i) == IF addrs[i][NDIRECT] = 0 THEN {} ELSE {c \in Cells : blk[addrs[i][NDIRECT]][c] # 0}

\* The free map and the inodes agree: a block is in use exactly when one inode
\* points to it, from one place, whichever writes ran out of space or failed.
BlocksAccounted ==
    /\ ~freed
    /\ used = UNION {Truncated(i) : i \in Files}
    /\ Cardinality(used) = MapThenSumSet(LAMBDA i : Cardinality(Roots(i)) + Cardinality(Leaves(i)), Files)

\* A reader finds what was written: between calls every byte below the size is
\* in a block, so that readi never allocates, and it is the one last written.
ReadsWhatWasWritten ==
    \A i \in Files : ~wr[i].on =>
        /\ isize[i] = Len(content[i])
        /\ \A off \in 0 .. isize[i] - 1 :
              LET s == Bmap(i, off \div BSIZE)
              IN  s.a # 0 /\ s.used = used /\ blk[s.a][off % BSIZE] = content[i][off + 1]
=============================================================================
