-------------------------- MODULE MCPumpSwapFills --------------------------
(***************************************************************************)
(* Every route of up to three hops over wrapped SOL, two whitelisted coins *)
(* and one that is not; every single-pool instruction on their pools.      *)
(***************************************************************************)
EXTENDS PumpSwapFills

Move(token, volume, base, raw, virtual) ==
    [token |-> token, volume |-> volume, base |-> base, raw |-> raw, virtual |-> virtual]

\* Every hop moves other amounts.
MCHopMoves == [i \in 1..MaxHops |-> Move(i, i + 3, i + 4, i + 5, i + 1)]

\* Virtual reserves that take the sum below zero, within u64 and beyond it.
MCSingleMoves == {Move(1, 2, 5, raw, virtual) : raw \in {0, 4, 15}, virtual \in {-5, 2, 15}}

=============================================================================
