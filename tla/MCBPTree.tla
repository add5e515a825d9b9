------------------------------ MODULE MCBPTree ------------------------------
(* Small instances of BPTree for TLC. *)
EXTENDS BPTree
=============================================================================
