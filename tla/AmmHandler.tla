----------------------------- MODULE AmmHandler -----------------------------
(***************************************************************************)
(* The PumpSwap handler (handler/amm_handler.rs, process_pump_swap_tx):    *)
(* for each PumpSwap instruction of a transaction, the trades that pass    *)
(* the filters are numbered 0, 1, 2, ... in the order they are emitted,    *)
(* and that number, with the signature, is the primary key of the row.     *)
(* The whitelist is refreshed by another task meanwhile, and the stream    *)
(* may deliver the same transaction again.                                 *)
(*                                                                         *)
(* The channel and the inserter are taken as the upsert they end in: the   *)
(* latest delivery of a key is what the table holds (BatchInserter).       *)
(***************************************************************************)
EXTENDS Whitelist, Sequences, FiniteSets

CONSTANTS
    Txs,            \* transactions
    InstrsOf,       \* transaction -> sequence of its PumpSwap instructions,
                    \* top-level ones first: records with kind "trade",
                    \* "multi_hop" or "other", and hops, a sequence of trades
    MintOf,         \* trade -> base mint
    Filtered,       \* trades with WSOL as base, or on a pool that is not the
                    \* canonical one of its mints
    NoAmounts,      \* multi-hop trades without a complete event, or without
                    \* a resolved side when the transaction failed
    Readonly,       \* the --readonly flag
    MaxDeliveries   \* bound: deliveries

ASSUME HandlerAssumption == Readonly \in BOOLEAN /\ MaxDeliveries \in Nat

Trades == DOMAIN MintOf

Kinds == {"trade", "multi_hop", "other"}

\* A single-pool trade is one trade.
ASSUME InstrsAssumption ==
    /\ InstrsOf \in [Txs -> Seq([kind: Kinds, hops: Seq(Trades)])]
    /\ \A t \in Txs : \A i \in DOMAIN InstrsOf[t] :
          InstrsOf[t][i].kind = "trade" => Len(InstrsOf[t][i].hops) = 1

VARIABLES
    hpc,         \* "idle", "scan" (at an instruction), "hops", "emit"
    tx,          \* the transaction being handled
    ip,          \* its instruction
    hop,         \* next hop of a multi_hop_swap
    fills,       \* the fills multi_hop_fills has collected
    tradeIndex,  \* trade_index
    table,       \* tx -> sequence: the row stored under (tx, i - 1)
    deliveries,  \* bound counter
    \* History of the delivery under way:
    emitted,     \* its trades, in emission order
    lists,       \* the contents the DashSet had since it began
    queried,     \* the query results that were in the DashSet, or on their way
                 \* into it, since it began
    overlap,     \* it met a refresh that was clearing or refilling the DashSet
    accepted     \* tx -> per delivery, the trades it emitted

scope == <<lists, queried, overlap>>
hvars == <<hpc, tx, ip, hop, fills, tradeIndex, table, deliveries, emitted, scope, accepted>>
vars  == <<wvars, hvars>>

Init == /\ WInit
        /\ hpc = "idle" /\ tx \in Txs /\ ip = 1 /\ hop = 1 /\ fills = <<>>
        /\ tradeIndex = 0 /\ deliveries = 0
        /\ table = [t \in Txs |-> <<>>]
        /\ emitted = <<>> /\ accepted = [t \in Txs |-> <<>>]
        /\ lists = {} /\ queried = {} /\ overlap = FALSE

-----------------------------------------------------------------------------
\* Mutant: the whitelist is not looked at.
EligibleAnyMint(t) == t \notin Filtered

(* TxContext::eligible: the base is not WSOL, it is whitelisted unless     *)
(* readonly, and the pool is the canonical one.                            *)
Eligible(t) == /\ Readonly \/ MintOf[t] \in whitelist
               /\ t \notin Filtered

Instr == InstrsOf[tx][ip]

\* Mutant: trade_index is not advanced.
EmitSameIndex(t) ==
    /\ emitted' = Append(emitted, t)
    /\ UNCHANGED tradeIndex
    /\ table' = IF Readonly THEN table ELSE [table EXCEPT ![tx] = <<t>>]

\* emit: the row is sent to the inserter under trade_index; readonly only logs.
Emit(t) ==
    /\ emitted' = Append(emitted, t)
    /\ tradeIndex' = tradeIndex + 1
    /\ table' = IF Readonly THEN table
                ELSE [table EXCEPT ![tx] =
                        IF tradeIndex < Len(@) THEN [@ EXCEPT ![tradeIndex + 1] = t]
                                               ELSE Append(@, t)]

ScopeAtStart ==
    /\ lists' = {whitelist} /\ overlap' = (wpc # "idle")
    /\ queried' = IF wpc = "clear" THEN {prev, loaded} ELSE {loaded}

\* Mutant: trade_index goes on from the last delivery.
DeliverKeepsIndex(t) ==
    /\ hpc = "idle" /\ deliveries < MaxDeliveries
    /\ deliveries' = deliveries + 1
    /\ hpc' = "scan" /\ tx' = t /\ ip' = 1
    /\ emitted' = <<>> /\ ScopeAtStart
    /\ UNCHANGED <<wvars, hop, fills, tradeIndex, table, accepted>>

\* The stream hands over a transaction, for the first time or again.
Deliver(t) ==
    /\ hpc = "idle" /\ deliveries < MaxDeliveries
    /\ deliveries' = deliveries + 1
    /\ hpc' = "scan" /\ tx' = t /\ ip' = 1 /\ tradeIndex' = 0
    /\ emitted' = <<>> /\ ScopeAtStart
    /\ UNCHANGED <<wvars, hop, fills, table, accepted>>

\* An instruction that is no trade, or a trade the filters drop.
SkipInstr ==
    /\ hpc = "scan" /\ ip <= Len(InstrsOf[tx])
    /\ \/ Instr.kind = "other"
       \/ Instr.kind = "trade" /\ ~Eligible(Instr.hops[1])
    /\ ip' = ip + 1
    /\ UNCHANGED <<wvars, hpc, tx, hop, fills, tradeIndex, table, deliveries, emitted,
                   scope, accepted>>

\* A single-pool trade: looked up and emitted before the next instruction.
EmitTrade ==
    /\ hpc = "scan" /\ ip <= Len(InstrsOf[tx])
    /\ Instr.kind = "trade" /\ Eligible(Instr.hops[1])
    /\ Emit(Instr.hops[1])
    /\ ip' = ip + 1
    /\ UNCHANGED <<wvars, hpc, tx, hop, fills, deliveries, scope, accepted>>

\* multi_hop_fills: every hop is looked up before the first is emitted.
StartHops ==
    /\ hpc = "scan" /\ ip <= Len(InstrsOf[tx]) /\ Instr.kind = "multi_hop"
    /\ hpc' = "hops" /\ hop' = 1 /\ fills' = <<>>
    /\ UNCHANGED <<wvars, tx, ip, tradeIndex, table, deliveries, emitted, scope, accepted>>

CollectHop ==
    /\ hpc = "hops" /\ hop <= Len(Instr.hops)
    /\ LET t == Instr.hops[hop] IN
       fills' = IF Eligible(t) /\ t \notin NoAmounts THEN Append(fills, t) ELSE fills
    /\ hop' = hop + 1
    /\ UNCHANGED <<wvars, hpc, tx, ip, tradeIndex, table, deliveries, emitted, scope, accepted>>

HopsCollected ==
    /\ hpc = "hops" /\ hop > Len(Instr.hops)
    /\ hpc' = "emit"
    /\ UNCHANGED <<wvars, tx, ip, hop, fills, tradeIndex, table, deliveries, emitted,
                   scope, accepted>>

EmitFill ==
    /\ hpc = "emit"
    /\ \/ /\ fills # <<>>
          /\ Emit(Head(fills)) /\ fills' = Tail(fills)
          /\ UNCHANGED <<hpc, ip>>
       \/ /\ fills = <<>>
          /\ hpc' = "scan" /\ ip' = ip + 1
          /\ UNCHANGED <<fills, tradeIndex, table, emitted>>
    /\ UNCHANGED <<wvars, tx, hop, deliveries, scope, accepted>>

\* All instructions done: Ok(()).
Return ==
    /\ hpc = "scan" /\ ip > Len(InstrsOf[tx])
    /\ hpc' = "idle"
    /\ accepted' = [accepted EXCEPT ![tx] = Append(@, emitted)]
    /\ UNCHANGED <<wvars, tx, ip, hop, fills, tradeIndex, table, deliveries, emitted, scope>>

\* The refresh task, in between; the history notes what it leaves.
Refresh ==
    /\ WNext
    /\ IF hpc = "idle" THEN UNCHANGED scope
       ELSE /\ lists' = lists \cup {whitelist'} /\ queried' = queried \cup {loaded'}
            /\ overlap' = (overlap \/ wpc' # "idle")
    /\ UNCHANGED <<hpc, tx, ip, hop, fills, tradeIndex, table, deliveries, emitted, accepted>>

Next == \/ \E t \in Txs : Deliver(t)
        \/ SkipInstr \/ EmitTrade \/ StartHops \/ CollectHop \/ HopsCollected
        \/ EmitFill \/ Return \/ Refresh

Spec == Init /\ [][Next]_vars

-----------------------------------------------------------------------------
TypeOK ==
    /\ allMints \subseteq Mints /\ whitelist \subseteq Mints
    /\ rows \subseteq Mints /\ loaded \subseteq Mints /\ prev \subseteq Mints
    /\ wpc \in {"idle", "clear", "insert"} /\ changes \in 0..MaxChanges
    /\ hpc \in {"idle", "scan", "hops", "emit"}
    /\ tx \in Txs /\ ip \in 1..(Len(InstrsOf[tx]) + 1) /\ hop \in Nat \ {0}
    /\ fills \in Seq(Trades)
    /\ table \in [Txs -> Seq(Trades)] /\ deliveries \in 0..MaxDeliveries
    /\ emitted \in Seq(Trades) /\ tradeIndex = Len(emitted)
    /\ lists \subseteq SUBSET Mints /\ queried \subseteq SUBSET Mints /\ overlap \in BOOLEAN
    /\ accepted \in [Txs -> Seq(Seq(Trades))]

\* What the filters other than the whitelist leave of a transaction.
Recordable(t) ==
    {x \in Trades : /\ x \notin Filtered
                    /\ \E i \in DOMAIN InstrsOf[t] :
                         /\ \E j \in DOMAIN InstrsOf[t][i].hops : InstrsOf[t][i].hops[j] = x
                         /\ \/ InstrsOf[t][i].kind = "trade"
                            \/ InstrsOf[t][i].kind = "multi_hop" /\ x \notin NoAmounts}

EmittedSet == {emitted[i] : i \in DOMAIN emitted}

\* The last delivery is complete.
Returned == hpc = "idle" /\ deliveries > 0

(* A delivery emits no trade whose mint no query returned, and, unless it  *)
(* met a refresh at work, every recordable one whose mint the query did    *)
(* return.  One that met a refresh between clear() and the last insert may *)
(* drop trades of mints that all_mints lists all the while, but only of    *)
(* mints that were out of the DashSet at some moment of the delivery.      *)
EmitsByScope ==
    Returned /\ ~Readonly =>
        /\ \A t \in EmittedSet :
              t \in Recordable(tx) /\ \E q \in queried : MintOf[t] \in q
        /\ \A t \in Recordable(tx) \ EmittedSet :
              /\ \E w \in lists : MintOf[t] \notin w
              /\ overlap \/ \E q \in queried : MintOf[t] \notin q

(* The row under (tx, i) is the i-th trade emitted by the last delivery    *)
(* that emitted so many: a shorter replay leaves the tail of a longer one. *)
RowsByPosition ==
    hpc = "idle" /\ ~Readonly => \A t \in Txs, i \in 1..Cardinality(Trades) :
        LET D == {d \in DOMAIN accepted[t] : Len(accepted[t][d]) >= i} IN
        IF D = {} THEN i > Len(table[t])
        ELSE /\ i <= Len(table[t])
             /\ table[t][i] = accepted[t][CHOOSE d \in D : \A e \in D : e <= d][i]

(* latest_trade_slot: "Replaying a safety window is harmless because       *)
(* inserts are idempotent upserts": a trade never has two rows.            *)
OneRowPerTrade ==
    \A t \in Txs : \A i, j \in DOMAIN table[t] : table[t][i] = table[t][j] => i = j

=============================================================================
