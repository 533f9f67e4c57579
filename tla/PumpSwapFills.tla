--------------------------- MODULE PumpSwapFills ---------------------------
(***************************************************************************)
(* The fills of one PumpSwap instruction (handler/amm_handler.rs, the body *)
(* of process_pump_swap_tx and multi_hop_fills, with the helpers of        *)
(* utils/transaction.rs): a single-pool trade, or a multi_hop_swap.        *)
(*                                                                         *)
(* A multi_hop_swap lists the accounts of each hop, never its side.  When  *)
(* the transaction succeeded the sides and amounts come from the events,   *)
(* matched to hops by pool; when it failed there are no events, and the    *)
(* sides are inferred from how the mints of the hops chain.                *)
(*                                                                         *)
(* The route is ground truth: what the program trades, hop by hop.  The    *)
(* collector sees its accounts, its events and one token balance row.      *)
(***************************************************************************)
EXTENDS PumpSwapEvents

CONSTANTS
    Mints,        \* token mints
    WSOL,         \* wrapped SOL
    Whitelisted,  \* the whitelist while the instruction is handled
    MaxHops,      \* bound: hops of a route
    Arg1, Arg2,   \* the two u64 arguments of an instruction
    HopMoves,     \* hop -> what it trades and leaves in its pool: token, volume,
                  \* base, raw (of the quote vault), virtual
    SingleMoves,  \* the same, of single-pool trades
    NameLengths   \* lengths of ix_name

NoMint == "none"

U64   == 0..U64Max
Moves == [token: U64, volume: U64, base: U64, raw: U64, virtual: Int]

ASSUME RouteAssumption ==
    /\ NoMint \notin Mints /\ MaxHops \in Nat \ {0} /\ {Arg1, Arg2} \subseteq U64
    /\ HopMoves \in [1..MaxHops -> Moves] /\ SingleMoves \subseteq Moves
    /\ NameLengths \subseteq Nat /\ NameLengths # {}

(* Kinds of hops: the canonical pool of its mints; that pool with an event *)
(* payload too short to name it; another pool of the two mints; a bonding  *)
(* curve, which emits no PumpSwap event.                                   *)
HopKinds == {"canonical", "cut", "side", "curve"}

VARIABLES
    pc,        \* "route" (being built), "events", "sides", "requests", "done"
    single,    \* the name of a single-pool instruction, "none" for a route
    trade,     \* ground truth: version, move and name of a single-pool trade, and
               \* args, the whole arguments in the data of the instruction
    route,     \* ground truth: per hop in, out (mints), buy (side), kind
    success,   \* the transaction succeeded
    row,       \* pre_token_balances has a row for user_in_token_account
    hops,      \* what multi_hop_swap_hops read from the accounts
    events,    \* the instruction's own events, not looked at yet
    nextHop,   \* next_hop; for a failed route the i of its last loop
    current,   \* the mint fed to the next hop of a failed route
    sides,     \* the sides of the hops before it, TRUE for a buy
    fills      \* fills

vars == <<pc, single, trade, route, success, row, hops, events, nextHop, current, sides, fills>>

-----------------------------------------------------------------------------
(* The program: accounts and events of a route.                            *)

Base(r)  == IF r.buy THEN r.out ELSE r.in
Quote(r) == IF r.buy THEN r.in ELSE r.out

\* A pool's address derives from its two mints, in the order base, quote.
Canonical(base, quote) == <<"pool", base, quote>>

PoolOf(r) == IF r.kind \in {"canonical", "cut"} THEN Canonical(Base(r), Quote(r))
             ELSE <<r.kind, Base(r), Quote(r)>>

FixedAccounts  == 16
AccountsPerHop == 5

\* The accounts of the instruction, extra ones at the end included.
AccountsOf(rt, extra) ==
    [i \in 1..(FixedAccounts + AccountsPerHop * Len(rt) + extra) |->
        LET at == i - FixedAccounts - 1
            r  == rt[at \div AccountsPerHop + 1]
        IN IF at < 0 THEN "fixed"
           ELSE IF at >= AccountsPerHop * Len(rt) THEN "remaining"
           ELSE <<Base(r), Quote(r), PoolOf(r), "base_vault",
                  "quote_vault">>[(at % AccountsPerHop) + 1]]

\* What an event tells of a trade.
Told(move, pool, name) ==
    [token |-> move.token, volume |-> move.volume, base |-> move.base, raw |-> move.raw,
     virtual |-> move.virtual, pool |-> pool, name |-> name]

ShortName == CHOOSE n \in NameLengths : TRUE

(* What hop i of a route adds to the events of the instruction: its trade, *)
(* unless it is a curve hop.  The first follows an event of another type   *)
(* and one of a pool that no hop names.                                    *)
HopEvents(r, i) ==
    (IF i = 1 THEN <<[kind |-> "note", hop |-> 1], [kind |-> "foreign", hop |-> 1]>> ELSE <<>>)
    \o (IF r.kind = "curve" THEN <<>> ELSE <<[kind |-> "trade", hop |-> i]>>)

\* The payload of an event.
DataOf(e) ==
    LET r == route[e.hop]
        m == HopMoves[e.hop]
    IN CASE e.kind = "note"    -> [disc |-> "other", len |-> 400,
                                   fields |-> [at \in {120} |-> PoolOf(r)]]
         [] e.kind = "foreign" -> BuyPayload(Told(m, <<"unknown">>, ShortName), "new")
         [] e.kind = "trade"   -> Payload(IF r.buy THEN "buy" ELSE "sell",
                                          Told(m, PoolOf(r), ShortName),
                                          IF r.kind = "cut" THEN "cut" ELSE "new")

-----------------------------------------------------------------------------
(* The collector's operators.                                              *)

\* Mutant: one fixed account too few is skipped.
HopsOfShifted(accounts) ==
    LET rest == SubSeq(accounts, FixedAccounts, Len(accounts))
    IN [i \in 1..(Len(rest) \div AccountsPerHop) |->
           LET at == AccountsPerHop * (i - 1)
           IN [base |-> rest[at + 1], quote |-> rest[at + 2], pool |-> rest[at + 3]]]

\* multi_hop_swap_hops: whole groups of five after the fixed accounts.
HopsOf(accounts) ==
    LET rest == SubSeq(accounts, FixedAccounts + 1, Len(accounts))
    IN [i \in 1..(Len(rest) \div AccountsPerHop) |->
           LET at == AccountsPerHop * (i - 1)
           IN [base |-> rest[at + 1], quote |-> rest[at + 2], pool |-> rest[at + 3]]]

\* Mutant: the user's coin is at the same end whatever the side.
IsRoutedLast(hs, base, buy) == hs[Len(hs)].base # base

\* multi_hop_is_routed: the user ends with the last hop's coin of a buy
\* route, and starts from the first hop's of a sell route.
IsRouted(hs, base, buy) == (IF buy THEN hs[Len(hs)] ELSE hs[1]).base # base

\* multi_hop_input_mint; the balance row, if any, is that of the spent mint.
InputMint(hs, rowMint) ==
    LET shared(mint) == Len(hs) >= 2 /\ mint \in {hs[2].base, hs[2].quote}
    IN CASE shared(hs[1].base) /\ ~shared(hs[1].quote) -> hs[1].quote
         [] shared(hs[1].quote) /\ ~shared(hs[1].base) -> hs[1].base
         [] OTHER -> rowMint

\* What a hop passes on when it is fed a mint.
Through(h, mint) == CASE mint = h.quote -> h.base
                      [] mint = h.base  -> h.quote
                      [] OTHER          -> NoMint

\* TxContext::eligible, for the pool of a hop.
Eligible(h) == h.base # WSOL /\ h.base \in Whitelisted /\ h.pool = Canonical(h.base, h.quote)

\* A fill of the pool of hop h; reserves are 0 when nothing executed.
Fill(h, kind, buy, source, token, volume, reserves) ==
    [pool |-> h.pool, base |-> h.base, quote |-> h.quote, kind |-> kind, buy |-> buy,
     source |-> source, token |-> token, volume |-> volume, reserves |-> reserves]

EventFill(h, kind, buy, a) ==
    Fill(h, kind, buy, "event", a.token, a.volume, <<a.base, a.quote>>)

HopType(hs, h, buy) ==
    IF IsRouted(hs, h.base, buy) THEN "multi_hop_swap_routed" ELSE "multi_hop_swap"

(* The fill of hop i of a failed route: amount_in on the input side of the *)
(* first hop, min_amount_out on the output side of the last.               *)
RequestedFill(i) ==
    LET req   == RequestedAmounts(trade.args, FALSE)
        first == IF i = 1 THEN req[1] ELSE 0
        last  == IF i = Len(hops) THEN req[2] ELSE 0
    IN Fill(hops[i], HopType(hops, hops[i], sides[i]), sides[i], "instruction_request",
            IF sides[i] THEN last ELSE first, IF sides[i] THEN first ELSE last, <<0, 0>>)

-----------------------------------------------------------------------------
Init == /\ pc = "route" /\ single = "none" /\ trade = <<>> /\ route = <<>>
        /\ success = TRUE /\ row = FALSE /\ hops = <<>> /\ events = <<>>
        /\ nextHop = 1 /\ current = NoMint /\ sides = <<>> /\ fills = <<>>

\* External: the caller's route, hop by hop.  A route that executes chains;
\* a failed one may have hops that do not.
Chains(rt) == \A i \in 1..(Len(rt) - 1) : rt[i].out = rt[i + 1].in

AddHop ==
    /\ pc = "route" /\ Len(route) < MaxHops
    /\ \E in, out \in Mints, buy \in BOOLEAN, kind \in HopKinds :
          LET r == [in |-> in, out |-> out, buy |-> buy, kind |-> kind] IN
          /\ in # out
          /\ kind = "canonical" \/ Chains(Append(route, r))
          /\ route' = Append(route, r)
          /\ events' = events \o HopEvents(r, Len(route) + 1)
    /\ UNCHANGED <<pc, single, trade, success, row, hops, nextHop, current, sides, fills>>

\* External: the arguments.  Only an instruction that fails may be cut short.
Requests(succeeds) == {<<Arg1, Arg2>>} \cup IF succeeds THEN {} ELSE {<<Arg1>>}

\* A successful route: multi_hop_fills walks its events.
Succeeds(extra) ==
    /\ pc = "route" /\ route # <<>> /\ Chains(route)
    /\ pc' = "events"
    /\ hops' = HopsOf(AccountsOf(route, extra))
    /\ UNCHANGED <<single, trade, route, success, row, events, nextHop, current, sides, fills>>

\* A failed one has no events; the sides follow from the mint it spends, if
\* that can be told.
Fails(extra) ==
    /\ pc = "route" /\ route # <<>>
    /\ success' = FALSE /\ row' \in BOOLEAN /\ events' = <<>>
    /\ hops' = HopsOf(AccountsOf(route, extra))
    /\ current' = InputMint(hops', IF row' THEN route[1].in ELSE NoMint)
    /\ pc' = IF current' = NoMint THEN "done" ELSE "sides"
    /\ \E args \in Requests(FALSE) : trade' = [args |-> args]
    /\ UNCHANGED <<single, route, nextHop, sides, fills>>

\* The event is of a trade, by its discriminator.
IsTrade(p) == p.disc \in {"buy", "sell"}

\* The hop groups from next_hop on that name the pool of an event.
MatchesFrom(p) == {i \in nextHop..Len(hops) : hops[i].pool \in EventPool(p)}

\* An event of another type, without its pool, or of a pool no hop names.
SkipEvent ==
    /\ pc = "events" /\ events # <<>>
    /\ LET p == DataOf(Head(events)) IN ~IsTrade(p) \/ MatchesFrom(p) = {}
    /\ events' = Tail(events)
    /\ UNCHANGED <<pc, single, trade, route, success, row, hops, nextHop, current, sides, fills>>

\* The fills with that of an event of hop h added, if the hop is eligible
\* and the event complete.
WithEvent(h, p) ==
    LET buy == p.disc = "buy"
        got == EventAmounts(p, buy)
    IN IF Eligible(h) /\ got # {}
       THEN Append(fills, EventFill(h, HopType(hops, h, buy), buy, CHOOSE a \in got : TRUE))
       ELSE fills

\* Mutant: the hop after the matched one is passed over as well.
MatchEventPastNext ==
    /\ pc = "events" /\ events # <<>>
    /\ LET p == DataOf(Head(events)) IN
       /\ IsTrade(p)
       /\ \E i \in MatchesFrom(p) :
             /\ \A j \in MatchesFrom(p) : i <= j
             /\ nextHop' = i + 2 /\ fills' = WithEvent(hops[i], p)
    /\ events' = Tail(events)
    /\ UNCHANGED <<pc, single, trade, route, success, row, hops, current, sides>>

\* An event of a hop: the hop is passed even when the event gives no fill.
MatchEvent ==
    /\ pc = "events" /\ events # <<>>
    /\ LET p == DataOf(Head(events)) IN
       /\ IsTrade(p)
       /\ \E i \in MatchesFrom(p) :
             /\ \A j \in MatchesFrom(p) : i <= j
             /\ nextHop' = i + 1 /\ fills' = WithEvent(hops[i], p)
    /\ events' = Tail(events)
    /\ UNCHANGED <<pc, single, trade, route, success, row, hops, current, sides>>

\* The hop multi_hop_sides looks at.
SideHop == hops[Len(sides) + 1]

\* Mutant: every hop is fed the route's input.
ChainHopInput ==
    /\ pc = "sides" /\ Len(sides) < Len(hops) /\ Through(SideHop, current) # NoMint
    /\ sides' = Append(sides, current = SideHop.quote)
    /\ UNCHANGED <<pc, single, trade, route, success, row, hops, events, nextHop, current, fills>>

\* multi_hop_sides: a hop that is fed its quote buys, one fed its base sells.
ChainHop ==
    /\ pc = "sides" /\ Len(sides) < Len(hops) /\ Through(SideHop, current) # NoMint
    /\ sides' = Append(sides, current = SideHop.quote)
    /\ current' = Through(SideHop, current)
    /\ UNCHANGED <<pc, single, trade, route, success, row, hops, events, nextHop, fills>>

\* The route does not chain: nothing is recorded.
ChainBreaks ==
    /\ pc = "sides" /\ Len(sides) < Len(hops) /\ Through(SideHop, current) = NoMint
    /\ pc' = "done"
    /\ UNCHANGED <<single, trade, route, success, row, hops, events, nextHop, current, sides, fills>>

Chained ==
    /\ pc = "sides" /\ Len(sides) = Len(hops)
    /\ pc' = "requests"
    /\ UNCHANGED <<single, trade, route, success, row, hops, events, nextHop, current, sides, fills>>

\* The last loop of a failed route: a fill per eligible hop.
RequestHop ==
    /\ pc = "requests" /\ nextHop <= Len(hops)
    /\ fills' = IF Eligible(hops[nextHop]) THEN Append(fills, RequestedFill(nextHop)) ELSE fills
    /\ nextHop' = nextHop + 1
    /\ UNCHANGED <<pc, single, trade, route, success, row, hops, events, current, sides>>

ReturnFills ==
    /\ \/ pc = "events" /\ events = <<>>
       \/ pc = "requests" /\ nextHop > Len(hops)
    /\ pc' = "done"
    /\ UNCHANGED <<single, trade, route, success, row, hops, events, nextHop, current, sides, fills>>

(* A single-pool trade on the pool of the one hop: the executed amounts if *)
(* the transaction succeeded and its event (module EventScan) is complete, *)
(* and else the requested ones.                                            *)
SinglePool(name, version) ==
    /\ pc = "route" /\ Len(route) = 1 /\ TradeIx[name].buy = route[1].buy
    /\ pc' = "done" /\ single' = name /\ success' \in BOOLEAN
    /\ \E move \in SingleMoves, len \in NameLengths, args \in Requests(success') :
          LET ix  == TradeIx[name]
              h   == [base |-> Base(route[1]), quote |-> Quote(route[1]), pool |-> PoolOf(route[1])]
              got == IF success' /\ version # "missing"
                     THEN EventAmounts(Payload(ix.event, Told(move, h.pool, len), version), ix.buy)
                     ELSE {}
              req == RequestedAmounts(args, ix.exactIn)
          IN /\ trade' = [version |-> version, move |-> move, name |-> len, args |-> args]
             /\ fills' =
                  IF ~Eligible(h) THEN <<>>
                  ELSE <<IF got # {} THEN EventFill(h, name, ix.buy, CHOOSE a \in got : TRUE)
                         ELSE Fill(h, name, ix.buy, "instruction_request", req[1], req[2],
                                   <<0, 0>>)>>
    /\ UNCHANGED <<route, row, hops, events, nextHop, current, sides>>

Next == \/ AddHop \/ \E extra \in 0..(AccountsPerHop - 1) : Succeeds(extra) \/ Fails(extra)
        \/ SkipEvent \/ MatchEvent \/ ChainHop \/ ChainBreaks \/ Chained \/ RequestHop
        \/ ReturnFills
        \/ \E name \in DOMAIN TradeIx, version \in {"new", "old", "cut", "missing"} :
              SinglePool(name, version)

Spec == Init /\ [][Next]_vars

-----------------------------------------------------------------------------
TypeOK ==
    /\ pc \in {"route", "events", "sides", "requests", "done"}
    /\ success \in BOOLEAN /\ row \in BOOLEAN /\ single \in DOMAIN TradeIx \cup {"none"}
    /\ route \in Seq([in: Mints, out: Mints, buy: BOOLEAN, kind: HopKinds])
    /\ Len(route) <= MaxHops /\ nextHop \in 1..(MaxHops + 1) /\ Len(fills) <= MaxHops
    /\ pc # "route" /\ single = "none" => Len(hops) = Len(route)
    /\ \A i \in DOMAIN hops : {hops[i].base, hops[i].quote} \subseteq Mints
    /\ current \in Mints \cup {NoMint} /\ sides \in Seq(BOOLEAN) /\ Len(sides) <= MaxHops
    /\ \A i \in DOMAIN events : events[i].hop \in DOMAIN route

\* The route has been handled.
RouteDone == pc = "done" /\ single = "none"

\* The hops of the route that are to be recorded.
Recordable ==
    LET kinds == IF success THEN {"canonical"} ELSE {"canonical", "cut"}
    IN {i \in DOMAIN route : route[i].kind \in kinds /\ Base(route[i]) \in Whitelisted \ {WSOL}}

\* The function enumerates a set of hops in route order.
Enumerates(at, S) == /\ \A k, l \in DOMAIN at : k < l => at[k] < at[l]
                     /\ {at[k] : k \in DOMAIN at} = S

\* A fill is of hop i: its pool, its mints and the side that it traded.
IsOf(f, i) == /\ f.base = Base(route[i]) /\ f.quote = Quote(route[i])
              /\ f.pool = PoolOf(route[i]) /\ f.buy = route[i].buy

(* A successful route gives one fill per recordable hop, in route order,   *)
(* with the side and the amounts of that very hop, though curve hops emit  *)
(* no event, other pools' events are dropped, and a route may come back to *)
(* a pool it has been to.                                                  *)
EventFillsMatchRoute ==
    RouteDone /\ success =>
        \E at \in [DOMAIN fills -> DOMAIN route] :
            /\ Enumerates(at, Recordable)
            /\ \A k \in DOMAIN fills :
                  LET move == HopMoves[at[k]] IN
                  /\ IsOf(fills[k], at[k])
                  /\ fills[k].token = move.token /\ fills[k].volume = move.volume

\* The paths of mints that fit the hops, whatever their direction.
Paths == {p \in [1..(Len(route) + 1) -> Mints] :
             \A i \in DOMAIN route : {p[i], p[i + 1]} = {route[i].in, route[i].out}}

\* Nothing but the balance row tells which mint the route spends.
Ambiguous == \/ Len(route) = 1
             \/ {route[1].in, route[1].out} = {route[2].in, route[2].out}

\* The two arguments, as far as the instruction says.
Asked == IF Len(trade.args) < 2 THEN <<0, 0>> ELSE trade.args

\* The amount a fill records of a mint of its pool.
AmountOf(f, mint) == IF mint = f.base THEN f.token ELSE f.volume

(* A failed route that chains gives a fill per recordable hop, each with   *)
(* the side it would have traded, amount_in on the mint the user spends    *)
(* and min_amount_out on the one the user gets (zeros if the instruction   *)
(* is cut short), unless the mints alone are ambiguous and there is no     *)
(* balance row: then, and for a route that no path of mints fits, nothing  *)
(* is recorded.                                                            *)
FailedFillsMatchRoute ==
    RouteDone /\ ~success =>
        /\ Paths = {} \/ (Ambiguous /\ ~row) => fills = <<>>
        /\ Chains(route) /\ (row \/ ~Ambiguous) =>
             \E at \in [DOMAIN fills -> DOMAIN route] :
                /\ Enumerates(at, Recordable)
                /\ \A k \in DOMAIN fills : LET i == at[k] IN
                     /\ IsOf(fills[k], i)
                     /\ AmountOf(fills[k], route[i].in) = IF i = 1 THEN Asked[1] ELSE 0
                     /\ AmountOf(fills[k], route[i].out) = IF i = Len(route) THEN Asked[2] ELSE 0

(* On a route whose hops all trade the same way and that visits no mint    *)
(* twice, a fill is tagged multi_hop_swap_routed exactly when its coin is  *)
(* neither what the user spends nor what the user gets.                    *)
RoutedExactly ==
    /\ RouteDone /\ Chains(route)
    /\ \A i, j \in DOMAIN route : route[i].buy = route[j].buy
    /\ \A i, j \in DOMAIN route : i # j => route[i].in # route[j].in
    /\ \A i \in DOMAIN route : route[i].in # route[Len(route)].out
    => \A k \in DOMAIN fills :
          fills[k].kind = "multi_hop_swap_routed" <=>
              fills[k].base \notin {route[1].in, route[Len(route)].out}

\* The quote reserves a pool prices against: the u64 nearest to the sum.
Distance(m, n) == IF m < n THEN n - m ELSE m - n

Priced(move) ==
    LET sum == move.raw + move.virtual
    IN CHOOSE v \in U64 : \A w \in U64 : Distance(v, sum) <= Distance(w, sum)

(* A fill made from an event has the amounts of its trade and the reserves *)
(* it left: for the quote side the u64 nearest to vault plus virtual       *)
(* reserves, or the vault alone in the layout that had no virtual ones,    *)
(* whatever the length of ix_name and the side.  Without a complete event  *)
(* the amounts are the requested ones, in the order of the instruction, or *)
(* zeros if its data is cut short.                                         *)
AmountsDecoded ==
    pc = "done" => \A k \in DOMAIN fills :
        LET f == fills[k]
            exec == f.source = "event"
        IN /\ exec => success
           /\ ~exec => f.reserves = <<0, 0>>
           /\ single # "none" =>
                LET move == trade.move
                    quote == IF trade.version = "old" /\ single # "boost_buy_and_burn"
                             THEN move.raw ELSE Priced(move)
                    exactIn == {"buy_exact_quote_in", "buy_exact_quote_in_v2",
                                "boost_buy_and_burn"}
                IN /\ exec <=> success /\ trade.version \in {"new", "old"}
                   /\ exec => /\ f.token = move.token /\ f.volume = move.volume
                              /\ f.reserves = <<move.base, quote>>
                   /\ ~exec => <<f.token, f.volume>> = IF single \in exactIn
                                                      THEN <<Asked[2], Asked[1]>>
                                                      ELSE Asked
           /\ single = "none" /\ exec =>
                \E i \in DOMAIN route : f.reserves = <<HopMoves[i].base, Priced(HopMoves[i])>>

=============================================================================
