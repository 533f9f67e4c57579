---------------------------- MODULE MCCollector ----------------------------
(***************************************************************************)
(* The whole collector over a few transactions.                            *)
(***************************************************************************)
EXTENDS Collector

\* One transaction per slot but the second, which has two.
MCSlotOf == <<1, 2, 2, 3, 4>>

=============================================================================
