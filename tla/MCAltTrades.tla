---------------------------- MODULE MCAltTrades ----------------------------
(***************************************************************************)
(* All chunks of a few rows of three keys, one after the other.            *)
(***************************************************************************)
EXTENDS AltTrades, TLC

KeySymmetry == Permutations(Keys)

=============================================================================
