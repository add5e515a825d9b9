-------------------------- MODULE MCTokenizerCache --------------------------
(* Small instances of TokenizerCache for TLC. *)
EXTENDS TokenizerCache, TLC

ThreadSymmetry == Permutations(Threads)
=============================================================================
