---------------------------- MODULE MCMemoCache ----------------------------
(* Small instance of MemoCache: the calls of a run are interchangeable.       *)
EXTENDS MemoCache, TLC

Symmetry == Permutations(Calls)

=============================================================================
