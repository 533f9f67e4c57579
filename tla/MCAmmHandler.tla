---------------------------- MODULE MCAmmHandler ----------------------------
(***************************************************************************)
(* One transaction with a single-pool trade before and after a two-hop     *)
(* route, one with a filtered pool and an instruction that is no trade.    *)
(***************************************************************************)
EXTENDS AmmHandler, TLC

CONSTANTS t1, t2, m1, m2

Ix(kind, hops) == [kind |-> kind, hops |-> hops]

MCInstrsOf ==
    (t1 :> <<Ix("trade", <<"a">>), Ix("multi_hop", <<"b", "c", "n">>), Ix("trade", <<"d">>)>>)
    @@ (t2 :> <<Ix("other", <<>>), Ix("trade", <<"f">>), Ix("trade", <<"e">>)>>)

MCMintOf == "a" :> m1 @@ "b" :> m1 @@ "c" :> m2 @@ "n" :> m2 @@ "d" :> m2
            @@ "e" :> m2 @@ "f" :> m1

=============================================================================
