---------------------------- MODULE MCEventScan ----------------------------
(***************************************************************************)
(* All call trees of a few inner instructions.                             *)
(***************************************************************************)
EXTENDS EventScan

=============================================================================
