--------------------------- MODULE PumpSwapEvents ---------------------------
(***************************************************************************)
(* PumpSwap trade instructions and event payloads (utils/transaction.rs,   *)
(* and event_amounts of handler/amm_handler.rs).                           *)
(*                                                                         *)
(* A payload is its length and the fields it holds by offset; a read past  *)
(* the end gives nothing, and one that is not at the start of a field      *)
(* gives Garbage.  Layouts are the program's, offsets of reads the code's. *)
(***************************************************************************)
EXTENDS Integers, Sequences

CONSTANT U64Max   \* 2^64 - 1 in the code

ASSUME U64Assumption == U64Max \in Nat \ {0}

Garbage == U64Max

\* pump_swap_trade_ix: side, order of the arguments and event, per instruction.
TradeIx ==
    LET ix(buy, exactIn, event) == [buy |-> buy, exactIn |-> exactIn, event |-> event]
    IN [buy                   |-> ix(TRUE, FALSE, "buy"),
        buy_exact_quote_in    |-> ix(TRUE, TRUE, "buy"),
        sell                  |-> ix(FALSE, FALSE, "sell"),
        buy_v2                |-> ix(TRUE, FALSE, "buy"),
        buy_exact_quote_in_v2 |-> ix(TRUE, TRUE, "buy"),
        sell_v2               |-> ix(FALSE, FALSE, "sell"),
        boost_buy_and_burn    |-> ix(TRUE, TRUE, "boost")]

\* extract_pump_swap_requested_amounts: (token, quote) from the arguments that
\* the instruction data holds whole, and none from data that is cut short.
RequestedAmounts(args, exactIn) ==
    IF Len(args) < 2 THEN <<0, 0>> ELSE IF exactIn THEN <<args[2], args[1]>> ELSE args

-----------------------------------------------------------------------------
(* External: the layouts.  t has token and volume (amounts), base, raw and *)
(* virtual (reserves after the trade), pool, and name, the length of       *)
(* ix_name.  Before an upgrade of the program an event ended where the     *)
(* virtual reserves are now; "cut" is a payload too short for its pool.    *)

\* The amount before fees, which is not the one that is recorded.
OtherAmount(t) == t.volume + 1

\* What buy and sell events have in common.
Prefix(t) == [at \in {16, 48, 56, 120} |-> CASE at = 16 -> t.token [] at = 48  -> t.base
                                             [] at = 56 -> t.raw   [] at = 120 -> t.pool]

Cut(version, end) == CASE version = "new" -> end + 16 + 1 + 8
                       [] version = "old" -> end
                       [] version = "cut" -> 119

BuyPayload(t, version) ==
    LET end == 401 + 4 + t.name + 32
    IN [disc |-> "buy", len |-> Cut(version, end),
        fields |-> [at \in DOMAIN Prefix(t) \cup {64, 112, 401, end} |->
                       CASE at = 64  -> OtherAmount(t) [] at = 112 -> t.volume
                         [] at = 401 -> t.name         [] at = end -> t.virtual
                         [] OTHER    -> Prefix(t)[at]]]

SellPayload(t, version) ==
    [disc |-> "sell", len |-> Cut(version, 392),
     fields |-> [at \in DOMAIN Prefix(t) \cup {64, 112, 392} |->
                    CASE at = 64  -> t.volume  [] at = 112 -> OtherAmount(t)
                      [] at = 392 -> t.virtual [] OTHER    -> Prefix(t)[at]]]

BoostPayload(t, version) ==
    [disc |-> "boost", len |-> IF version = "cut" THEN 199 ELSE 200,
     fields |-> [at \in {152, 160, 168, 184, 192} |->
                    CASE at = 152 -> t.volume  [] at = 160 -> t.token
                      [] at = 168 -> t.virtual [] at = 184 -> t.raw [] at = 192 -> t.base]]

Payload(event, t, version) == CASE event = "buy"   -> BuyPayload(t, version)
                                [] event = "sell"  -> SellPayload(t, version)
                                [] event = "boost" -> BoostPayload(t, version)

-----------------------------------------------------------------------------
(* The reads: a set with the value, empty for None.                        *)
Read(p, at, size) ==
    IF at + size > p.len THEN {}
    ELSE {IF at \in DOMAIN p.fields THEN p.fields[at] ELSE Garbage}

\* Both fields, or none: the code compares the length once.
ReadBoth(p, at1, at2, len) ==
    IF p.len < len THEN {}
    ELSE {<<v, w>> : v \in Read(p, at1, 8), w \in Read(p, at2, 8)}

\* extract_pump_swap_event_pool
EventPool(p) == Read(p, 120, 32)

\* Mutant: one offset for both layouts.
VirtualQuoteFixed(p, buy) == Read(p, 392, 16)

\* extract_pump_swap_virtual_quote_reserves: past ix_name on a buy.
VirtualQuote(p, buy) ==
    IF buy THEN UNION {Read(p, 401 + 4 + name + 32, 16) : name \in Read(p, 401, 4)}
           ELSE Read(p, 392, 16)

\* effective_quote_reserves: the sum, clamped to u64.
EffectiveQuote(raw, virtual) ==
    IF virtual = {} THEN raw
    ELSE LET sum == raw + (CHOOSE v \in virtual : TRUE)
         IN IF sum < 0 THEN 0 ELSE IF sum > U64Max THEN U64Max ELSE sum

\* extract_transaction_amounts, extract_quote_volume, extract_pool_reserves_from_data
TokenAmount(p)  == Read(p, 16, 8)
QuoteVolume(p)  == ReadBoth(p, 112, 64, 120)
PoolReserves(p) == ReadBoth(p, 48, 56, 64)

Amounts(token, volume, base, quote) ==
    [token |-> token, volume |-> volume, base |-> base, quote |-> quote]

\* extract_boost_buy_event: the virtual reserves are always there.
BoostBuyEvent(p) ==
    IF p.len < 200 THEN {}
    ELSE {Amounts(token, volume, base, EffectiveQuote(raw, {virtual})) :
             volume \in Read(p, 152, 8), token \in Read(p, 160, 8),
             virtual \in Read(p, 168, 16), raw \in Read(p, 184, 8), base \in Read(p, 192, 8)}

\* event_amounts, without the market cap.
EventAmounts(p, buy) ==
    IF p.disc = "boost" THEN BoostBuyEvent(p)
    ELSE {Amounts(token, IF buy THEN vol[1] ELSE vol[2], res[1],
                  EffectiveQuote(res[2], VirtualQuote(p, buy))) :
             res \in PoolReserves(p), vol \in QuoteVolume(p), token \in TokenAmount(p)}

=============================================================================
