------------------------------- MODULE MCLog -------------------------------
(* Instances of Log for TLC.                                               *)
EXTENDS Log, TLC

CONSTANTS p1, p2, p3, b1, b2, b3

SymProcs == Permutations(Proc)
SymProcsBlocks == Permutations(Proc) \cup Permutations(Block)
=============================================================================
