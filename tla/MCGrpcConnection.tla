-------------------------- MODULE MCGrpcConnection --------------------------
(***************************************************************************)
(* The connection manager against a provider of a few transactions.        *)
(***************************************************************************)
EXTENDS GrpcConnection

\* Slot 4 has no transaction of these programs.
MCSlotOf == <<1, 2, 2, 3, 5, 6>>

=============================================================================
