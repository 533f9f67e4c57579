----------------------------- MODULE MCShutdown -----------------------------
(***************************************************************************)
(* Both inserters, with the waits of main.rs in half seconds.              *)
(***************************************************************************)
EXTENDS Shutdown

MCInserters == <<"amm_trades", "alt_trades">>

=============================================================================
