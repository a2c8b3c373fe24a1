------------------------------- MODULE Strings -----------------------------
(***************************************************************************)
(* The memory and string functions of kernel/string.c and user/ulib.c,     *)
(* skipelem of fs.c, and the printing and reading of numbers, as operators *)
(* on a small memory, next to definitions of what they should compute.     *)
(* The state is the input: a memory filled byte by byte, and a word.       *)
(*                                                                         *)
(* An operator that no action uses and that stands just before one of the  *)
(* same parameters is a deliberate fault, used to test the properties.     *)
(***************************************************************************)
EXTENDS Integers, Sequences, SequencesExt

CONSTANTS MemSize, Chars,  \* 0 ends a string
          Slash,           \* the byte that is '/'
          DIRSIZ,
          WordBits         \* the width of an int

VARIABLES mem, word

stringVars == <<mem, word>>

MemCells == 0 .. MemSize - 1

StringInit == mem = [a \in MemCells |-> 0] /\ word = 0
SetByte(a, b) == mem' = [mem EXCEPT ![a] = b] /\ word = 0 /\ UNCHANGED word
SetWord ==
    /\ word' = (word + 1) % 2^WordBits
    /\ mem = [a \in MemCells |-> 0] /\ UNCHANGED mem
StringNext == SetWord \/ \E a \in MemCells, b \in Chars : SetByte(a, b)

---------------------------------------------------------------------------
\* The functions.  A memory m is read and a memory returned.

CopyUp(m, d, s, n) ==
    FoldLeft(LAMBDA x, i : [x EXCEPT ![d + i - 1] = x[s + i - 1]], m, [i \in 1 .. n |-> i])
CopyDown(m, d, s, n) ==
    FoldLeft(LAMBDA x, i : [x EXCEPT ![d + n - i] = x[s + n - i]], m, [i \in 1 .. n |-> i])

MemmoveUp(m, d, s, n) == CopyUp(m, d, s, n)
Memmove(m, d, s, n) == IF s < d /\ s + n > d THEN CopyDown(m, d, s, n) ELSE CopyUp(m, d, s, n)
UserMemmove(m, d, s, n) == IF s > d THEN CopyUp(m, d, s, n) ELSE CopyDown(m, d, s, n)

Memset(m, d, c, n) == [a \in MemCells |-> IF a \in d .. d + n - 1 THEN c ELSE m[a]]

RECURSIVE Memcmp(_, _, _, _)
Memcmp(m, p, q, n) ==
    IF n = 0 THEN 0
    ELSE IF m[p] # m[q] THEN m[p] - m[q] ELSE Memcmp(m, p + 1, q + 1, n - 1)

RECURSIVE Strncmp(_, _, _, _)
Strncmp(m, p, q, n) ==
    IF n = 0 THEN 0
    ELSE IF m[p] # 0 /\ m[p] = m[q] THEN Strncmp(m, p + 1, q + 1, n - 1) ELSE m[p] - m[q]

RECURSIVE Strcmp(_, _, _)
Strcmp(m, p, q) == IF m[p] # 0 /\ m[p] = m[q] THEN Strcmp(m, p + 1, q + 1) ELSE m[p] - m[q]

RECURSIVE Strncpy(_, _, _, _)
Strncpy(m, s, t, n) ==
    LET x == [m EXCEPT ![s] = m[t]]
    IN  IF n <= 0 THEN m
        ELSE IF x[s] = 0 THEN Memset(x, s + 1, 0, n - 1) ELSE Strncpy(x, s + 1, t + 1, n - 1)

\* After a short string it writes a second NUL.
RECURSIVE Safestrcpy(_, _, _, _)
Safestrcpy(m, s, t, n) ==
    LET x == [m EXCEPT ![s] = m[t]]
    IN  IF n <= 0 THEN m
        ELSE IF n = 1 THEN [m EXCEPT ![s] = 0]
        ELSE IF x[s] = 0 THEN [x EXCEPT ![s + 1] = 0] ELSE Safestrcpy(x, s + 1, t + 1, n - 1)

RECURSIVE Strcpy(_, _, _)
Strcpy(m, s, t) ==
    LET x == [m EXCEPT ![s] = m[t]] IN IF x[s] = 0 THEN x ELSE Strcpy(x, s + 1, t + 1)

RECURSIVE Strlen(_, _)
Strlen(m, s) == IF m[s] = 0 THEN 0 ELSE 1 + Strlen(m, s + 1)

\* The address of c, or -1.
RECURSIVE Strchr(_, _, _)
Strchr(m, s, c) == IF m[s] = 0 THEN -1 ELSE IF m[s] = c THEN s ELSE Strchr(m, s + 1, c)

\* skipelem: the name, not always ended, and where the next element starts.
RECURSIVE Skip(_, _, _)
Skip(m, p, over) == IF m[p] # 0 /\ over[m[p]] THEN Skip(m, p + 1, over) ELSE p
Slashes == [b \in Chars |-> b = Slash]
Others == [b \in Chars |-> b # Slash]
Skipelem(m, path) ==
    LET s == Skip(m, path, Slashes)
        e == Skip(m, s, Others)
        n == IF e - s >= DIRSIZ THEN DIRSIZ ELSE e - s
    IN  [found |-> m[s] # 0, name |-> [i \in 1 .. n |-> m[s + i - 1]],
         path |-> Skip(m, e, Slashes)]
RECURSIVE Elements(_, _)
Elements(m, path) ==
    LET r == Skipelem(m, path)
    IN  IF r.found THEN <<r.name>> \o Elements(m, r.path) ELSE <<>>

\* The digits of an unsigned word, and what printint writes of a signed one.
RECURSIVE Digits(_, _)
Digits(x, base) == (IF x < base THEN <<>> ELSE Digits(x \div base, base)) \o <<x % base>>
Signed(w) == IF w >= 2^(WordBits - 1) THEN w - 2^WordBits ELSE w
Printint(w, base, sgn) ==
    IF sgn /\ Signed(w) < 0
    THEN [neg |-> TRUE, digits |-> Digits((-Signed(w)) % 2^WordBits, base)]
    ELSE [neg |-> FALSE, digits |-> Digits(w, base)]
Atoi(digits) == FoldLeft(LAMBDA n, d : (n * 10 + d) % 2^WordBits, 0, digits)

---------------------------------------------------------------------------
\* What they should compute.

Ended(a) == \E b \in MemCells : b >= a /\ mem[b] = 0
CString(m, a) ==
    LET e == CHOOSE b \in MemCells : b >= a /\ m[b] = 0 /\ \A c \in a .. b - 1 : m[c] # 0
    IN  [i \in 1 .. e - a |-> m[a + i - 1]]
BytesAt(m, a, n) == [i \in 1 .. n |-> m[a + i - 1]]
Cut(s, n) == SubSeq(s, 1, IF Len(s) < n THEN Len(s) ELSE n)
Padded(s, n) == [i \in 1 .. n |-> IF i <= Len(s) THEN s[i] ELSE 0]
SameOutside(m, x, a, n) == \A c \in MemCells \ (a .. a + n - 1) : m[c] = x[c]
Precedes(s, t) ==
    \E k \in 0 .. Len(t) - 1 :
        /\ k <= Len(s) /\ SubSeq(s, 1, k) = SubSeq(t, 1, k)
        /\ k = Len(s) \/ s[k + 1] < t[k + 1]
Before(r, s, t) == (r < 0 <=> Precedes(s, t)) /\ (r = 0 <=> s = t)

\* The runs of other bytes between slashes.
PathNames(s) ==
    LET starts == {i \in 1 .. Len(s) : s[i] # Slash /\ (i = 1 \/ s[i - 1] = Slash)}
        run(i) == {j \in i .. Len(s) : \A k \in i .. j : s[k] # Slash}
    IN  [k \in 1 .. Len(SetToSortSeq(starts, <)) |->
            LET i == SetToSortSeq(starts, <)[k]
            IN  Cut(SubSeq(s, i, CHOOSE j \in run(i) : j + 1 \notin run(i)), DIRSIZ)]

RECURSIVE Value(_, _)
Value(digits, base) ==
    IF digits = <<>> THEN 0 ELSE Value(Front(digits), base) * base + Last(digits)

\* The library functions do what they are used for: moving bytes between
\* overlapping ranges, in the kernel's version and in the user's, copying
\* and comparing strings with a limit, writing nothing outside it.
CopiesAgree ==
    \A a, b \in MemCells : \A n \in 0 .. MemSize - (IF a > b THEN a ELSE b) :
        LET moved == [c \in MemCells |-> IF c \in a .. a + n - 1 THEN mem[b + c - a] ELSE mem[c]]
            apart == a + n <= b \/ (Ended(b) /\ b + Len(CString(mem, b)) < a)
        IN  /\ Memmove(mem, a, b, n) = moved /\ UserMemmove(mem, a, b, n) = moved
            /\ Memcmp(mem, a, b, n) = 0 <=> BytesAt(mem, a, n) = BytesAt(mem, b, n)
            /\ (Ended(b) /\ apart) =>
                 LET s == CString(mem, b)
                     x == Strncpy(mem, a, b, n)
                     y == Safestrcpy(mem, a, b, n)
                 IN  /\ BytesAt(x, a, n) = Padded(s, n) /\ SameOutside(mem, x, a, n)
                     /\ SameOutside(mem, y, a, n)
                     /\ n > 0 => CString(y, a) = Cut(s, n - 1)
                     /\ n = Len(s) + 1 => Strcpy(mem, a, b) = x
            /\ (Ended(a) /\ Ended(b)) =>
                 /\ Before(Strncmp(mem, a, b, n), Cut(CString(mem, a), n), Cut(CString(mem, b), n))
                 /\ Before(Strcmp(mem, a, b), CString(mem, a), CString(mem, b))

\* skipelem splits a path at its slashes and cuts names to DIRSIZ, and
\* strchr and strlen find the ends of strings.
PathsAgree ==
    \A a \in MemCells : Ended(a) =>
        LET s == CString(mem, a)
        IN  /\ Elements(mem, a) = PathNames(s)
            /\ Strlen(mem, a) = Len(s)
            /\ \A c \in Chars \ {0} :
                 IF \E i \in 1 .. Len(s) : s[i] = c
                 THEN /\ mem[Strchr(mem, a, c)] = c
                      /\ \A i \in a .. Strchr(mem, a, c) - 1 : mem[i] # c
                 ELSE Strchr(mem, a, c) = -1

\* printint writes the number it is given, in base 10 and 16, the most
\* negative one included, and atoi reads it back.
NumbersAgree ==
    \A base \in {10, 16} : LET u == Printint(word, base, FALSE)
                               s == Printint(word, base, TRUE)
                           IN  /\ Value(u.digits, base) = word
                               /\ Value(s.digits, base) * (IF s.neg THEN -1 ELSE 1) = Signed(word)
                               /\ base = 10 /\ ~s.neg => Atoi(s.digits) = word
=============================================================================
