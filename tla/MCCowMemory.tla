---------------------------- MODULE MCCowMemory ----------------------------
(* Instances of CowMemory for TLC.                                         *)
EXTENDS CowMemory

CONSTANTS init, p1

TwoProcs == {init, p1}

\* Free pages are interchangeable: the lowest stands for whichever is first.
Lowest(S) == {pg \in S : \A other \in S : pg <= other}
=============================================================================
