----------------------------- MODULE ShellParse ----------------------------
(***************************************************************************)
(* The parser of sh.c.  A line is the sequence of tokens gettoken makes of *)
(* it ("a" for a word, "+" for >>), and a word or a redirection of the     *)
(* tree is its place in the line, as in the code, which points into buf.   *)
(* The functions that call panic give Panic.                               *)
(*                                                                         *)
(* An operator that no action uses and that stands just before one of the  *)
(* same parameters is a deliberate fault, used to test the properties.     *)
(***************************************************************************)
EXTENDS Integers, Sequences, SequencesExt

CONSTANTS ShTokens,  \* tokens of a line, among a < > + | & ; ( )
          MaxTokens, \* bound: tokens of a line
          MAXARGS

VARIABLE toks        \* the line typed so far

Execcmd(argv) == [type |-> "exec", argv |-> argv]
Redircmd(c, k) == [type |-> "redir", cmd |-> c, mode |-> toks[k], file |-> k + 1]
Backcmd(c) == [type |-> "back", cmd |-> c]
Pair(type, l, r) == [type |-> type, left |-> l, right |-> r]

\* Each redirection is wrapped around what has been parsed before it.
Redirected(c, redirs) == FoldLeft(Redircmd, c, redirs)

Panic == [ok |-> FALSE]
Parsed(c, i) == [ok |-> TRUE, cmd |-> c, i |-> i]
Peek(i, set) == i <= Len(toks) /\ toks[i] \in set

RECURSIVE Parseredirs(_), Args(_), BacksOnce(_), Backs(_), Parsepipe(_), Parseline(_)

\* s is how far the parse of a simple command has come: words, redirections
\* and the next token.
Parseredirs(s) ==
    IF ~Peek(s.i, {"<", ">", "+"}) THEN s
    ELSE IF Peek(s.i + 1, {"a"})
         THEN Parseredirs([s EXCEPT !.redirs = Append(@, s.i), !.i = @ + 2])
         ELSE Panic

Args(s) ==
    IF ~s.ok THEN s
    ELSE IF s.i > Len(toks) \/ Peek(s.i, {"|", ")", "&", ";"}) THEN s
    ELSE IF toks[s.i] # "a" \/ Len(s.argv) + 1 >= MAXARGS THEN Panic
    ELSE Args(Parseredirs([s EXCEPT !.argv = Append(@, s.i), !.i = @ + 1]))

Simple(i) == [ok |-> TRUE, argv |-> <<>>, redirs |-> <<>>, i |-> i]

Parseblock(i) ==
    LET r == Parseline(i + 1)
        s == IF r.ok /\ Peek(r.i, {")"}) THEN Parseredirs(Simple(r.i + 1)) ELSE Panic
    IN  IF s.ok THEN Parsed(Redirected(r.cmd, s.redirs), s.i) ELSE Panic

Parseexec(i) ==
    LET s == Args(Parseredirs(Simple(i)))
    IN  IF Peek(i, {"("}) THEN Parseblock(i)
        ELSE IF s.ok THEN Parsed(Redirected(Execcmd(s.argv), s.redirs), s.i) ELSE Panic

Then(type, l, r) == IF r.ok THEN Parsed(Pair(type, l.cmd, r.cmd), r.i) ELSE Panic

Parsepipe(i) ==
    LET l == Parseexec(i)
    IN  IF l.ok /\ Peek(l.i, {"|"}) THEN Then("pipe", l, Parsepipe(l.i + 1)) ELSE l

BacksOnce(l) ==
    IF l.ok /\ Peek(l.i, {"&"}) THEN Parsed(Backcmd(l.cmd), l.i + 1) ELSE l

Backs(l) ==
    IF l.ok /\ Peek(l.i, {"&"}) THEN Backs(Parsed(Backcmd(l.cmd), l.i + 1)) ELSE l

Parseline(i) ==
    LET l == Backs(Parsepipe(i))
    IN  IF l.ok /\ Peek(l.i, {";"}) THEN Then("list", l, Parseline(l.i + 1)) ELSE l

Parsecmd ==
    LET r == Parseline(1) IN IF r.ok /\ r.i <= Len(toks) THEN Panic ELSE r

ParseInit == toks = <<>>
ParseNext ==
    \/ Len(toks) < MaxTokens /\ \E t \in ShTokens : toks' = Append(toks, t)
    \/ Len(toks) = MaxTokens /\ toks' = <<>>

---------------------------------------------------------------------------
(* The grammar, by all ways of dividing the tokens from i to j.            *)

RECURSIVE GBack(_, _), GPipe(_, _), GLine(_, _)

Operators(i, j) == SelectSeq([k \in 1 .. j |-> k],
                             LAMBDA k : k >= i /\ toks[k] \in {"<", ">", "+"})
Words(i, j) == SelectSeq([k \in 1 .. j |-> k],
                         LAMBDA k : /\ k >= i /\ toks[k] = "a"
                                    /\ ~(k > i /\ toks[k - 1] \in {"<", ">", "+"}))
IsSimple(i, j) == \A k \in i .. j : \/ toks[k] = "a"
                                    \/ /\ toks[k] \in {"<", ">", "+"}
                                       /\ k < j /\ toks[k + 1] = "a"

GExec(i, j) ==
    {Redirected(Execcmd(Words(i, j)), Operators(i, j)) :
        x \in {x \in {i} : IsSimple(i, j) /\ Len(Words(i, j)) < MAXARGS}}
    \cup UNION {{Redirected(c, Operators(k + 1, j)) : c \in GLine(i + 1, k - 1)} :
        k \in {k \in i + 1 .. j : /\ toks[i] = "(" /\ toks[k] = ")"
                                  /\ IsSimple(k + 1, j) /\ Words(k + 1, j) = <<>>}}

Pairs(type, L, R) == {Pair(type, x[1], x[2]) : x \in L \X R}

GPipe(i, j) ==
    GExec(i, j) \cup UNION {Pairs("pipe", GExec(i, k - 1), GPipe(k + 1, j)) :
                               k \in {k \in i .. j : toks[k] = "|"}}
GBack(i, j) ==
    GPipe(i, j) \cup IF i <= j /\ toks[j] = "&" THEN {Backcmd(c) : c \in GBack(i, j - 1)}
                                                ELSE {}
GLine(i, j) ==
    GBack(i, j) \cup UNION {Pairs("list", GBack(i, k - 1), GLine(k + 1, j)) :
                               k \in {k \in i .. j : toks[k] = ";"}}

\* parsecmd gives every line the tree the grammar gives it, which is the only
\* one, and refuses just the lines that the grammar has no tree for.
ParsesByGrammar ==
    IF Parsecmd.ok THEN GLine(1, Len(toks)) = {Parsecmd.cmd} ELSE GLine(1, Len(toks)) = {}
=============================================================================
