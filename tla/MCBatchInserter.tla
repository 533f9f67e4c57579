-------------------------- MODULE MCBatchInserter --------------------------
(***************************************************************************)
(* The batch inserter on a small instance.                                 *)
(***************************************************************************)
EXTENDS BatchInserter, TLC

KeySymmetry == Permutations(Keys)

=============================================================================
