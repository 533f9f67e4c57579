---------------------------- MODULE CpmmHandler ----------------------------
(***************************************************************************)
(* The Raydium CPMM handler (handler/cpmm_handler.rs, process_cpmm_tx, and *)
(* utils/cpmm.rs): finds the swaps of tracked mints in a transaction and   *)
(* recovers their executed amounts from the SwapEvent logs, from an        *)
(* emit_cpi event, or from the net change of the pool's vault balances.    *)
(* alt_mints is refreshed by another task meanwhile.                       *)
(*                                                                         *)
(* A transaction is the sequence of its CPMM swaps in execution order.     *)
(* Logs are cut at a size limit; SwapEvent lines all have the same length, *)
(* so the events that survive are the first ones.                          *)
(***************************************************************************)
EXTENDS AltMints, Integers, Sequences, FiniteSets, FiniteSetsExt

CONSTANTS
    Transactions,   \* sequences of swaps: records with pool, cpi (called by
                    \* another program), buy, base and quote (amounts), fee (the
                    \* Token-2022 transfer fee on the base leg), reserves (of the
                    \* pool, when it begins)
    BaseOf,         \* pool -> the stonk.fun mint of the pair
    QuoteOf,        \* pool -> the other mint
    LaunchQuote,    \* mint -> info.quote_mint
    PoolOf,         \* mint -> info.cpmm_pool, once it is recorded
    Canonical,      \* pools at the address cpmm_canonical_pool derives
    StonkPools,     \* pools under the Stonk amm_config
    Accrued,        \* pool -> fees that lie in its vaults besides the reserves
    Supply,         \* mint -> info.total_supply
    U64Max,         \* 2^64 - 1 in the code
    MaxTxs          \* bound: transactions handled

\* A row of alt_mints may not know the mint's pool yet.
ASSUME CpmmAssumption ==
    /\ MaxTxs \in Nat /\ Infos = {"unknown", "recorded"} /\ U64Max \in Nat \ {0}

Amounts == 0..U64Max
Pair    == [base: Amounts, quote: Amounts]
Pools   == DOMAIN BaseOf
Swaps   == [pool: Pools, cpi: BOOLEAN, buy: BOOLEAN, base: Amounts, quote: Amounts,
            fee: Amounts, reserves: Pair]

\* The reserves a swap leaves in its pool.
After(s) == IF s.buy
            THEN [base |-> s.reserves.base - s.base, quote |-> s.reserves.quote + s.quote]
            ELSE [base |-> s.reserves.base + s.base, quote |-> s.reserves.quote - s.quote]

\* What the vaults of a pool hold: its reserves and the accrued fees.
Vaults(pool, reserves) == [base  |-> reserves.base + Accrued[pool].base,
                           quote |-> reserves.quote + Accrued[pool].quote]

\* Token balances are u64.
ASSUME SwapsAssumption ==
    /\ Transactions \subseteq Seq(Swaps)
    /\ Accrued \in [Pools -> Pair]
    /\ \A p \in Pools : Supply[BaseOf[p]] \in Amounts
    /\ \A t \in Transactions : \A i \in DOMAIN t :
          /\ After(t[i]) \in Pair
          /\ {Vaults(t[i].pool, t[i].reserves), Vaults(t[i].pool, After(t[i]))} \subseteq Pair

\* Within a transaction only swaps change a pool: one begins where the one
\* before it on the pool ended.
ASSUME ChainAssumption ==
    \A t \in Transactions : \A i, j \in DOMAIN t :
        ( /\ i < j /\ t[i].pool = t[j].pool
          /\ \A l \in (i + 1)..(j - 1) : t[l].pool # t[i].pool )
        => t[j].reserves = After(t[i])

VARIABLES
    hpc,        \* "idle" or "scan"
    tx,         \* the transaction being handled
    success,    \* it landed
    logged,     \* number of swaps whose SwapEvent is in the logs
    emitCpi,    \* events are emitted by self-CPI
    balances,   \* the metadata has the vaults' token balances
    order,      \* the instructions, as positions in tx, in scan order
    ip,         \* next one
    events,     \* log_events: positions in tx of the swaps they tell of
    records,    \* the records sent, in order
    txs,        \* bound counter
    maps        \* history: the maps that were in force since the tx began

hvars == <<hpc, tx, success, logged, emitCpi, balances, order, ip, events, records, txs, maps>>
vars  == <<avars, hvars>>

Init == /\ AInit
        /\ hpc = "idle" /\ tx = <<>> /\ success = TRUE /\ logged = 0
        /\ emitCpi = FALSE /\ balances = TRUE /\ order = <<>> /\ ip = 1
        /\ events = <<>> /\ records = <<>> /\ txs = 0 /\ maps = {}

-----------------------------------------------------------------------------
\* The members of a finite set of numbers, in increasing order.
InOrder(S) == [i \in 1..Cardinality(S) |->
                  CHOOSE x \in S : Cardinality({y \in S : y < x}) = i - 1]

\* Mutants: CPIs are not looked at; the instructions are not sorted.
ListedTopLevel(t) == InOrder({i \in DOMAIN t : ~t[i].cpi})

AsListed(s) == s

(* get_program_instructions lists top-level calls first, then CPIs;        *)
(* sort_by_key puts them back in execution order.                          *)
Listed(t) == InOrder({i \in DOMAIN t : ~t[i].cpi}) \o InOrder({i \in DOMAIN t : t[i].cpi})

ExecutionOrder(s) == InOrder({s[i] : i \in DOMAIN s})

(* The filters: the Stonk config, exactly one tracked leg, the launch      *)
(* quote, and the canonical pool or the one alt_mints recorded.            *)
Tracked(map, m) == m \in TrackedMints /\ map[m] # Absent

Accepts(map, p) ==
    /\ p \in StonkPools
    /\ Tracked(map, BaseOf[p]) /\ ~Tracked(map, QuoteOf[p])
    /\ LaunchQuote[BaseOf[p]] = QuoteOf[p]
    /\ p \in Canonical \/ (map[BaseOf[p]] = "recorded" /\ PoolOf[BaseOf[p]] = p)

-----------------------------------------------------------------------------
(* utils/cpmm.rs                                                           *)

SatAdd(m, n) == IF m + n > U64Max THEN U64Max ELSE m + n
SatSub(m, n) == IF m < n THEN 0 ELSE m - n

\* A CpmmSwapEvent of a swap, on vaults that held this much before it.
SwapEvent(s, held, moved) ==
    IF s.buy
    THEN [input |-> QuoteOf[s.pool], output |-> BaseOf[s.pool],
          inBefore |-> held.quote, outBefore |-> held.base, inAmount |-> moved.quote,
          outAmount |-> moved.base, inFee |-> 0, outFee |-> moved.fee]
    ELSE [input |-> BaseOf[s.pool], output |-> QuoteOf[s.pool],
          inBefore |-> held.base, outBefore |-> held.quote, inAmount |-> moved.base,
          outAmount |-> moved.quote, inFee |-> moved.fee, outFee |-> 0]

\* The event the program emits for swap i; vaults are net of accrued fees.
EventOf(i) == SwapEvent(tx[i], tx[i].reserves, tx[i])

(* cpmm_resolve_side: the swap from the tracked mint's point of view.  An  *)
(* event of the swap's pool always has the tracked mint on one leg.        *)
ResolveSide(e, mint) ==
    IF e.input = mint
    THEN [buy |-> FALSE, base |-> e.inAmount, quote |-> e.outAmount, fee |-> e.inFee,
          baseAfter |-> SatAdd(e.inBefore, e.inAmount),
          quoteAfter |-> SatSub(e.outBefore, e.outAmount)]
    ELSE [buy |-> TRUE, base |-> e.outAmount, quote |-> e.inAmount, fee |-> e.outFee,
          baseAfter |-> SatSub(e.outBefore, e.outAmount),
          quoteAfter |-> SatAdd(e.inBefore, e.inAmount)]

\* Mutant: the product is taken in u64.
MarketCapWraps(quote, base, supply) ==
    IF base = 0 THEN 0 ELSE ((quote * supply) % (U64Max + 1)) \div base

\* cpmm_market_cap: u128 holds the product of any two u64; the quotient
\* saturates when it does not fit in u64.
MarketCap(quote, base, supply) ==
    IF base = 0 THEN 0
    ELSE LET numer == Min({quote * supply, (U64Max + 1) * (U64Max + 1) - 1})
         IN Min({numer \div base, U64Max})

\* The fields of a record that come from an event, whatever its source.
Executed(source, s, e) ==
    LET side == ResolveSide(e, BaseOf[s.pool]) IN
    [source |-> source, side |-> side,
     cap |-> {MarketCap(side.quoteAfter, side.baseAfter, Supply[BaseOf[s.pool]])}]

\* The swaps of the transaction on a pool.
SwapsOn(pool) == {i \in DOMAIN tx : tx[i].pool = pool}

\* The balance rows of its vaults before and after the whole transaction.
PreBalances(pool)  == Vaults(pool, tx[Min(SwapsOn(pool))].reserves)
PostBalances(pool) == Vaults(pool, After(tx[Max(SwapsOn(pool))]))

\* Mutant: the legs are swapped.
VaultAmountsSwapped(s) ==
    LET pre   == PreBalances(s.pool)
        post  == PostBalances(s.pool)
        base  == IF s.buy THEN pre.base - post.base ELSE post.base - pre.base
        quote == IF s.buy THEN post.quote - pre.quote ELSE pre.quote - post.quote
    IN IF balances /\ base > 0 /\ quote > 0
       THEN {SwapEvent(s, pre, [base |-> quote, quote |-> base, fee |-> 0])}
       ELSE {}

(* cpmm_swap_from_vault_balances: the balances before and after the whole  *)
(* transaction, accrued fees included; nothing unless the input vault grew *)
(* and the output vault shrank.                                            *)
VaultAmounts(s) ==
    LET pre   == PreBalances(s.pool)
        post  == PostBalances(s.pool)
        base  == IF s.buy THEN pre.base - post.base ELSE post.base - pre.base
        quote == IF s.buy THEN post.quote - pre.quote ELSE pre.quote - post.quote
    IN IF balances /\ base > 0 /\ quote > 0
       THEN {SwapEvent(s, pre, [base |-> base, quote |-> quote, fee |-> 0])}
       ELSE {}

(* cpmm_requested_amounts: the first argument is of the input leg, the     *)
(* second of the output leg, and both are 0 if the data is cut short.  A   *)
(* caller asks for what the swap is to move.                               *)
Requested(s, whole) ==
    LET args == IF ~whole THEN <<0, 0>>
                ELSE IF s.buy THEN <<s.quote, s.base>> ELSE <<s.base, s.quote>>
        baseIsInput == ~s.buy
    IN [source |-> "instruction_request", cap |-> {},
        side |-> [buy |-> ~baseIsInput, base |-> IF baseIsInput THEN args[1] ELSE args[2],
                  quote |-> IF baseIsInput THEN args[2] ELSE args[1]]]

-----------------------------------------------------------------------------
Deliver(t) ==
    /\ hpc = "idle" /\ txs < MaxTxs
    /\ txs' = txs + 1 /\ hpc' = "scan" /\ tx' = t
    /\ success' \in BOOLEAN /\ balances' \in BOOLEAN /\ emitCpi' \in BOOLEAN
    /\ logged' \in IF success' /\ ~emitCpi' THEN 0..Len(t) ELSE {0}
    /\ order' = ExecutionOrder(Listed(t)) /\ ip' = 1
    /\ events' = [i \in 1..logged' |-> i]
    /\ records' = <<>> /\ maps' = {altMints}
    /\ UNCHANGED avars

Swap == tx[order[ip]]

\* Mutant: the swap after a skipped one is passed over.
SkipTwo ==
    /\ hpc = "scan" /\ ip <= Len(order) /\ ~Accepts(altMints, Swap.pool)
    /\ ip' = ip + 2
    /\ UNCHANGED <<avars, hpc, tx, success, logged, emitCpi, balances, order, events,
                   records, txs, maps>>

Skip ==
    /\ hpc = "scan" /\ ip <= Len(order) /\ ~Accepts(altMints, Swap.pool)
    /\ ip' = ip + 1
    /\ UNCHANGED <<avars, hpc, tx, success, logged, emitCpi, balances, order, events,
                   records, txs, maps>>

Send(amounts) ==
    /\ hpc = "scan" /\ ip <= Len(order) /\ Accepts(altMints, Swap.pool)
    /\ records' = Append(records, [swap |-> order[ip], got |-> amounts])
    /\ ip' = ip + 1
    /\ UNCHANGED <<avars, hpc, tx, success, logged, emitCpi, balances, order, txs, maps>>

\* The positions in log_events of the events of the swap's pool.
Matches == {i \in DOMAIN events : tx[events[i]].pool = Swap.pool}

\* The first log event of the swap's pool; it is removed from the list.
SendFromLog ==
    /\ hpc = "scan" /\ ip <= Len(order)
    /\ success /\ Matches # {}
    /\ LET i == CHOOSE j \in Matches : \A l \in Matches : j <= l IN
       /\ Send(Executed("event", Swap, EventOf(events[i])))
       /\ events' = SubSeq(events, 1, i - 1) \o SubSeq(events, i + 1, Len(events))

\* find_event_data: the swap's own self-CPI event (module EventScan).
SendFromCpi ==
    /\ hpc = "scan" /\ ip <= Len(order)
    /\ success /\ Matches = {} /\ emitCpi
    /\ Send(Executed("event", Swap, EventOf(order[ip])))
    /\ UNCHANGED events

SendFromVaults ==
    /\ hpc = "scan" /\ ip <= Len(order)
    /\ success /\ Matches = {} /\ ~emitCpi
    /\ \E e \in VaultAmounts(Swap) : Send(Executed("vault_balances", Swap, e))
    /\ UNCHANGED events

\* Only an instruction that fails may have its arguments cut short.
SendRequested ==
    /\ hpc = "scan" /\ ip <= Len(order)
    /\ \/ ~success
       \/ Matches = {} /\ ~emitCpi /\ VaultAmounts(Swap) = {}
    /\ \E whole \in {TRUE, success} : Send(Requested(Swap, whole))
    /\ UNCHANGED events

Return ==
    /\ hpc = "scan" /\ ip > Len(order)
    /\ hpc' = "idle"
    /\ UNCHANGED <<avars, tx, success, logged, emitCpi, balances, order, ip, events,
                   records, txs, maps>>

Refresh ==
    /\ ANext
    /\ maps' = IF hpc = "idle" THEN maps ELSE maps \cup {altMints'}
    /\ UNCHANGED <<hpc, tx, success, logged, emitCpi, balances, order, ip, events, records, txs>>

Next == \/ \E t \in Transactions : Deliver(t)
        \/ Skip \/ SendFromLog \/ SendFromCpi \/ SendFromVaults \/ SendRequested
        \/ Return \/ Refresh

Spec == Init /\ [][Next]_vars

-----------------------------------------------------------------------------
Sources == {"event", "vault_balances", "instruction_request"}

TypeOK ==
    /\ altDb \in AltMap /\ altMints \in AltMap /\ fresh \in AltMap /\ before \in AltMap
    /\ apc \in {"idle", "retain", "insert"} /\ todo \subseteq TrackedMints
    /\ altChanges \in 0..MaxAltChanges /\ txs \in 0..MaxTxs
    /\ hpc \in {"idle", "scan"} /\ tx \in Transactions \cup {<<>>}
    /\ success \in BOOLEAN /\ emitCpi \in BOOLEAN /\ balances \in BOOLEAN
    /\ logged \in 0..Len(tx) /\ order \in Seq(DOMAIN tx) /\ ip \in 1..(Len(order) + 1)
    /\ events \in Seq(DOMAIN tx) /\ maps \subseteq AltMap
    /\ \A i \in DOMAIN records :
          /\ records[i].swap \in DOMAIN tx /\ records[i].got.source \in Sources
          /\ {records[i].got.side.base, records[i].got.side.quote} \subseteq 0..U64Max

Recorded == {records[i].swap : i \in DOMAIN records}

SamePool(i, j) == tx[i].pool = tx[j].pool

\* What swap i did, and what it left in the pool.
Truth(i) == LET s == tx[i] IN
            [buy |-> s.buy, base |-> s.base, quote |-> s.quote, fee |-> s.fee,
             baseAfter |-> After(s).base, quoteAfter |-> After(s).quote]

\* The same as its vaults show it: no transfer fee, the accrued fees included.
VaultTruth(i) == LET s    == tx[i]
                     held == Vaults(s.pool, After(s)) IN
                 [buy |-> s.buy, base |-> s.base, quote |-> s.quote, fee |-> 0,
                  baseAfter |-> held.base, quoteAfter |-> held.quote]

(* A record made from an event carries the side, the amounts, the fee and  *)
(* the reserves of its own swap, however the logs were cut and whichever   *)
(* calls were CPIs, provided the earlier swaps on the pool were recorded   *)
(* too: a swap skipped while its mint was not yet tracked leaves its event *)
(* to the next one.                                                        *)
EventsAreOwn ==
    \A i \in DOMAIN records :
        LET rec == records[i] IN
        ( /\ rec.got.source = "event"
          /\ \A j \in 1..(rec.swap - 1) : SamePool(j, rec.swap) => j \in Recorded )
        => rec.got.side = Truth(rec.swap)

(* cpmm_swap_from_vault_balances gives the amounts of a swap that is the   *)
(* only one on its pool in the transaction, and its reserves but for the   *)
(* fees accrued in the vaults.  With several swaps on the pool it gives    *)
(* their net change.                                                       *)
VaultAmountsExactAlone ==
    \A i \in DOMAIN records :
        LET rec == records[i] IN
        ( /\ rec.got.source = "vault_balances"
          /\ \A j \in DOMAIN tx : SamePool(j, rec.swap) => j = rec.swap )
        => rec.got.side = VaultTruth(rec.swap)

(* The market cap of a record is quote * supply / base of its reserves,    *)
(* rounded down, in exact arithmetic: wide products do not wrap, a result  *)
(* beyond u64 is u64::MAX, and a drained pool has 0.                       *)
MarketCapExact ==
    \A i \in DOMAIN records : \A cap \in records[i].got.cap :
        LET side  == records[i].got.side
            value == side.quoteAfter * Supply[BaseOf[tx[records[i].swap].pool]]
        IN IF side.baseAfter = 0 THEN cap = 0
           ELSE /\ cap * side.baseAfter <= value /\ cap <= U64Max
                /\ cap < U64Max => (cap + 1) * side.baseAfter > value

(* A complete scan has recorded, once and in execution order, every swap   *)
(* its mint's row qualified all the while, and none that never qualified;  *)
(* a mint that stays in alt_mints unchanged is not missed by a refresh.    *)
RecordsByScope ==
    /\ \A i, j \in DOMAIN records : i < j => records[i].swap < records[j].swap
    /\ hpc = "idle" /\ txs > 0 =>
        /\ \A j \in DOMAIN tx :
              /\ (\A m \in maps : Accepts(m, tx[j].pool)) => j \in Recorded
              /\ (altChanges = 0 /\ Accepts(altDb, tx[j].pool)) => j \in Recorded
        /\ \A j \in Recorded : \E m \in maps : Accepts(m, tx[j].pool)

=============================================================================
