-------------------------------- MODULE Grep -------------------------------
(***************************************************************************)
(* grep.c: the recursive matcher, and the loop that cuts what read returns *)
(* into lines in a fixed buffer.  read may return any number of bytes.     *)
(***************************************************************************)
EXTENDS Integers, Sequences, SequencesExt

CONSTANTS Letters,      \* the bytes of lines
          GrepBuf,      \* sizeof(buf)
          MaxPattern,   \* bound on patterns
          MaxReadPattern, MaxFed,  \* bounds on the patterns and input of the loop
          MaxText       \* bound on the lines the matcher is tried on

VARIABLES pattern, reading, fed, gbuf, printed

grepVars == <<pattern, reading, fed, gbuf, printed>>

NL == "\n"
From(s, i) == SubSeq(s, i, Len(s))

RECURSIVE Matchhere(_, _), Matchstar(_, _, _)
Matchhere(re, text) ==
    IF re = <<>> THEN TRUE
    ELSE IF Len(re) > 1 /\ re[2] = "*" THEN Matchstar(re[1], From(re, 3), text)
    ELSE IF re = <<"$">> THEN text = <<>>
    ELSE text # <<>> /\ re[1] \in {".", text[1]} /\ Matchhere(Tail(re), Tail(text))
Matchstar(c, re, text) ==
    \/ Matchhere(re, text)
    \/ text # <<>> /\ c \in {".", text[1]} /\ Matchstar(c, re, Tail(text))

Match(re, text) ==
    IF re # <<>> /\ re[1] = "^" THEN Matchhere(Tail(re), text)
    ELSE \E i \in 1 .. Len(text) + 1 : Matchhere(re, From(text, i))

\* The loop over the lines of the buffer: what it writes, what it keeps.
RECURSIVE CutLines(_, _)
CutLines(re, text) ==
    LET q == SelectInSeq(text, LAMBDA c : c = NL)
        line == SubSeq(text, 1, q - 1)
        more == CutLines(re, From(text, q + 1))
    IN  IF q = 0 THEN [out |-> <<>>, rest |-> text]
        ELSE [more EXCEPT !.out = (IF Match(re, line) THEN <<line>> ELSE <<>>) \o @]

GrepInit == pattern = <<>> /\ reading = FALSE /\ fed = <<>> /\ gbuf = <<>> /\ printed = <<>>

PatternChar(c) ==
    /\ ~reading /\ Len(pattern) < MaxPattern /\ pattern' = Append(pattern, c)
    /\ UNCHANGED <<reading, fed, gbuf, printed>>

\* One turn of the loop, on the n > 0 bytes that read returned.
GrepRead(s) ==
    LET cut == CutLines(pattern, gbuf \o s)
    IN  /\ Len(s) <= GrepBuf - Len(gbuf) - 1
        /\ Len(pattern) <= MaxReadPattern /\ Len(fed) + Len(s) <= MaxFed
        /\ reading' = TRUE /\ fed' = fed \o s
        /\ printed' = printed \o cut.out /\ gbuf' = cut.rest
        /\ UNCHANGED pattern

\* read returns 0, at the end of the input or when a line fills the buffer,
\* and the next grep starts.
GrepEnd ==
    /\ reading' = FALSE /\ fed' = <<>> /\ gbuf' = <<>> /\ printed' = <<>>
    /\ pattern' = <<>>

GrepNext ==
    \/ \E c \in Letters \cup {".", "*", "^", "$"} : PatternChar(c)
    \/ \E n \in 1 .. GrepBuf - 1 : \E s \in [1 .. n -> Letters \cup {NL}] : GrepRead(s)
    \/ GrepEnd

---------------------------------------------------------------------------
\* A pattern is a sequence of items, a character each, or a run of it.

RECURSIVE Items(_)
Items(re) ==
    IF re = <<>> THEN <<>>
    ELSE IF Len(re) > 1 /\ re[2] = "*" THEN <<[c |-> re[1], star |-> TRUE]>> \o Items(From(re, 3))
    ELSE <<[c |-> re[1], star |-> FALSE]>> \o Items(Tail(re))

\* Where in text an item can end that starts after one of the places in ps.
Reached(text, ps, item) ==
    {q \in 0 .. Len(text) :
        \E p \in ps : /\ p <= q /\ (item.star \/ q = p + 1)
                      /\ \A i \in p + 1 .. q : item.c \in {".", text[i]}}

InLanguage(re, text) ==
    LET anchored == re # <<>> /\ re[1] = "^"
        items == Items(IF anchored THEN Tail(re) ELSE re)
        ended == items # <<>> /\ Last(items) = [c |-> "$", star |-> FALSE]
        ends == FoldLeft(LAMBDA ps, x : Reached(text, ps, x),
                         IF anchored THEN {0} ELSE 0 .. Len(text),
                         IF ended THEN Front(items) ELSE items)
    IN  IF ended THEN Len(text) \in ends ELSE ends # {}

\* The complete lines of the input so far.
InputLines ==
    LET ends == SetToSortSeq({0} \cup {i \in 1 .. Len(fed) : fed[i] = NL}, <)
    IN  [k \in 1 .. Len(ends) - 1 |-> SubSeq(fed, ends[k] + 1, ends[k + 1] - 1)]

\* The matcher accepts exactly the lines the pattern describes, and grep
\* prints exactly the complete lines it has read that match, in order,
\* however the input is split into reads and however its lines lie in the buffer.
GrepPrintsMatches ==
    /\ reading \/ \A n \in 0 .. MaxText : \A t \in [1 .. n -> Letters] :
          Match(pattern, t) <=> InLanguage(pattern, t)
    /\ printed = SelectSeq(InputLines, LAMBDA l : InLanguage(pattern, l))
=============================================================================
