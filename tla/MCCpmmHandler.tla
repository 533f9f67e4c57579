--------------------------- MODULE MCCpmmHandler ---------------------------
(***************************************************************************)
(* Transactions of up to three swaps.  pool p is canonical, q is known     *)
(* only from alt_mints, x has another config, y another quote.             *)
(***************************************************************************)
EXTENDS CpmmHandler, TLC

CONSTANTS a, b, sol, usdc, p, q, x, y

\* A swap of base against quote on a pool that holds reserves.
S(pool, cpi, buy, base, quote, reserves) ==
    [pool |-> pool, cpi |-> cpi, buy |-> buy, base |-> base, quote |-> quote,
     reserves |-> reserves, fee |-> 1]

Amts(base, quote) == [base |-> base, quote |-> quote]

\* The first buy drains p; its market cap is beyond U64Max after the others.
MCTransactions == {
    <<S(p, FALSE, TRUE, 9, 2, Amts(9, 6))>>,
    <<S(p, TRUE, TRUE, 5, 2, Amts(9, 6)), S(p, FALSE, FALSE, 3, 1, Amts(4, 8))>>,
    <<S(p, TRUE, TRUE, 5, 2, Amts(9, 6)), S(q, TRUE, FALSE, 4, 3, Amts(8, 5)),
      S(p, FALSE, TRUE, 2, 1, Amts(4, 8))>>,
    <<S(x, FALSE, TRUE, 1, 1, Amts(9, 9)), S(q, FALSE, TRUE, 4, 3, Amts(8, 5)),
      S(y, TRUE, FALSE, 1, 1, Amts(9, 9))>>}

MCBaseOf == p :> a @@ q :> b @@ x :> a @@ y :> a
MCQuoteOf == p :> sol @@ q :> sol @@ x :> sol @@ y :> usdc
MCLaunchQuote == a :> sol @@ b :> sol
MCPoolOf == a :> p @@ b :> q

MCAccrued == p :> Amts(1, 2) @@ q :> Amts(0, 1) @@ x :> Amts(0, 0) @@ y :> Amts(0, 0)
MCSupply == a :> 15 @@ b :> 7

=============================================================================
