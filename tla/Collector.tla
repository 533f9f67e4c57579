----------------------------- MODULE Collector -----------------------------
(***************************************************************************)
(* The process as main.rs assembles it: one stream feeds the PumpSwap      *)
(* handler and the CPMM handler, each handler feeds the batch inserter of  *)
(* its table, and a restarted process resumes from the highest slot        *)
(* committed to amm_trades, minus a window.  The connection manager is the *)
(* one of GrpcConnection; each inserter is the TradeStore it implements.   *)
(*                                                                         *)
(* Everything in memory dies in a crash: the stream position, both         *)
(* channels, both buffers.  Only the two tables survive.                   *)
(***************************************************************************)
EXTENDS GrpcConnection

CONSTANTS AmmTxs,        \* transactions that yield a row of amm_trades
          AltTxs,        \* transactions that yield a row of alt_trades
          Window,        \* slots replayed below the checkpoint (32 in main.rs)
          Overrides,     \* slots an operator may pass in GRPC_FROM_SLOT
          PartialFlush,  \* TRUE: a flush may write some chunks and fail others
          MaxCrashes     \* bound: crashes

ASSUME CollectorAssumption ==
    /\ AmmTxs \subseteq 1..MaxTx /\ AltTxs \subseteq 1..MaxTx
    /\ Window \in Nat /\ Overrides \subseteq Nat \ {0} /\ MaxCrashes \in Nat
    /\ PartialFlush \in BOOLEAN

VARIABLES ammOut, ammTable,   \* the amm_trades inserter and its table
          altOut, altTable,   \* the alt_trades inserter and its table
          crashes,            \* bound counter
          delivered,          \* history: transactions ever handed to a handler
          forfeited           \* history: see Forfeit

tables == <<ammOut, ammTable, altOut, altTable>>
cvars  == <<vars, tables, crashes, delivered, forfeited>>

\* A transaction yields at most one row per table here; a replay yields it again.
RowOf(t) == [key |-> t, n |-> 1]

Amm == INSTANCE TradeStore WITH Keys <- AmmTxs, Rows <- {RowOf(t) : t \in AmmTxs},
                                outstanding <- ammOut, table <- ammTable,
                                phase <- "running"
Alt == INSTANCE TradeStore WITH Keys <- AltTxs, Rows <- {RowOf(t) : t \in AltTxs},
                                outstanding <- altOut, table <- altTable,
                                phase <- "running"

AmmCommitted == {t \in AmmTxs : ammTable[t] # 0}
AltCommitted == {t \in AltTxs : altTable[t] # 0}

\* The rows of a transaction: all committed; all committed or in memory.
HasRows(t, amm, alt) == /\ t \in AmmTxs \ BadTxs => t \in amm
                        /\ t \in AltTxs \ BadTxs => t \in alt

InTables(t) == HasRows(t, AmmCommitted, AltCommitted)

Held(t) == HasRows(t, AmmCommitted \cup {r.key : r \in ammOut},
                      AltCommitted \cup {r.key : r \in altOut})

\* Received, and not (all) in the tables.
NotInTables == {t \in delivered : ~InTables(t)}

-----------------------------------------------------------------------------
(* latest_trade_slot: SELECT MAX(slot) FROM amm_trades, then main()'s      *)
(* saturating_sub.  The result is clamped to the first slot there is.      *)
HighestSlot(T) == CHOOSE s \in {SlotOf[t] : t \in T} : \A t \in T : SlotOf[t] <= s

\* Mutants: no replay window; the checkpoint taken as exclusive.
CheckpointNoWindow ==
    IF AmmCommitted = {} THEN NoSlot ELSE HighestSlot(AmmCommitted)

CheckpointExclusive ==
    IF AmmCommitted = {} THEN NoSlot
    ELSE LET top == HighestSlot(AmmCommitted) IN
         IF top > Window THEN top - Window + 1 ELSE 1

Checkpoint ==
    IF AmmCommitted = {} THEN NoSlot
    ELSE LET top == HighestSlot(AmmCommitted) IN
         IF top > Window THEN top - Window ELSE 1

(* What no replay brings back, stated without the checkpoint: at a crash,  *)
(* what is more than Window slots below a committed row, or everything     *)
(* when amm_trades is empty; what an operator's override skips; and what   *)
(* only memory held when the provider no longer had the slot asked for.    *)
Forfeit(T) == forfeited' = forfeited \cup T

OutOfWindow == {t \in NotInTables : AmmCommitted = {} \/
                    \E u \in AmmCommitted : SlotOf[u] > SlotOf[t] + Window}

-----------------------------------------------------------------------------
\* The first start: both tables are empty.
CInit == /\ Init /\ Amm!Init /\ Alt!Init
         /\ fromSlot \in {NoSlot} \cup Overrides
         /\ crashes = 0 /\ delivered = {} /\ forfeited = {}

\* Mutant: the PumpSwap handler takes every transaction.
HandleTxUnfiltered ==
    /\ Deliver
    /\ delivered' = delivered \cup {cursor}
    /\ ammOut' = ammOut \cup {RowOf(cursor)}
    /\ UNCHANGED <<ammTable, altOut, altTable, crashes, forfeited>>

(* The handler of main(): both handlers see the transaction, tokio::join!  *)
(* waits for both, and a.and(c) is Ok only when both are.                  *)
HandleTx ==
    /\ Deliver
    /\ delivered' = delivered \cup {cursor}
    /\ IF cursor \in AmmTxs \ BadTxs THEN Amm!Accept(RowOf(cursor))
                                     ELSE UNCHANGED <<ammOut, ammTable>>
    /\ IF cursor \in AltTxs \ BadTxs THEN Alt!Accept(RowOf(cursor))
                                     ELSE UNCHANGED <<altOut, altTable>>
    /\ UNCHANGED <<crashes, forfeited>>

\* The replay is refused: the stream resumes live.
ResumeLive ==
    /\ StreamOutOfRange
    /\ Forfeit({t \in delivered : ~Held(t)})
    /\ UNCHANGED <<tables, crashes, delivered>>

Connection ==
    /\ SetupFails \/ Subscribe \/ StreamDrops \/ Wait \/ Produce \/ Forget
    /\ UNCHANGED <<tables, crashes, delivered, forfeited>>

\* A flush: all that is outstanding, or only the chunks that did not fail.
Batches(out) == IF PartialFlush THEN SUBSET out \ {{}} ELSE {out} \ {{}}

FlushAmm == /\ \E S \in Batches(ammOut) : Amm!Persist(S)
            /\ UNCHANGED <<vars, altOut, altTable, crashes, delivered, forfeited>>

FlushAlt == /\ \E S \in Batches(altOut) : Alt!Persist(S)
            /\ UNCHANGED <<vars, ammOut, ammTable, crashes, delivered, forfeited>>

\* The statement was applied but reported as failed: the rows are kept.
FlushUnacked ==
    /\ PartialFlush
    /\ \/ /\ \E S \in Batches(ammOut) : Amm!PersistUnacked(S)
          /\ UNCHANGED <<altOut, altTable>>
       \/ /\ \E S \in Batches(altOut) : Alt!PersistUnacked(S)
          /\ UNCHANGED <<ammOut, ammTable>>
    /\ UNCHANGED <<vars, crashes, delivered, forfeited>>

(* The process dies and is started again: main() computes the slot to      *)
(* replay from and opens a new connection with it.                         *)
RestartFrom(slot) ==
    /\ pc' = "connect" /\ attempts' = 0 /\ backoff' = InitialBackoff
    /\ fromSlot' = slot /\ last' = NoSlot /\ cursor' = 1 /\ rejected' = FALSE
    /\ handled' = {} /\ refused' = {} /\ reached' = 1
    /\ excused' = {t \in 1..MaxTx : slot # NoSlot /\ t < FirstOf(slot)}
    /\ UNCHANGED <<provider, failures>>

Crash ==
    /\ crashes < MaxCrashes
    /\ crashes' = crashes + 1
    /\ ammOut' = {} /\ altOut' = {}
    /\ UNCHANGED <<ammTable, altTable, delivered>>
    /\ \/ RestartFrom(Checkpoint) /\ Forfeit(OutOfWindow)
       \/ \E s \in Overrides :
            /\ s <= SlotOf[tip + 1]
            /\ RestartFrom(s) /\ Forfeit({t \in NotInTables : SlotOf[t] < s})

CNext == \/ HandleTx \/ ResumeLive \/ Connection
         \/ FlushAmm \/ FlushAlt \/ FlushUnacked \/ Crash

CSpec == CInit /\ [][CNext]_cvars

(* As in GrpcConnection and BatchInserter; an inserter that is tried again *)
(* and again succeeds (there SF of the insert, here WF of a flush).        *)
CFairness == /\ WF_cvars(Connection /\ (Subscribe \/ Wait))
             /\ WF_cvars(HandleTx) /\ WF_cvars(ResumeLive)
             /\ WF_cvars(FlushAmm) /\ WF_cvars(FlushAlt)

CFairSpec == CSpec /\ CFairness

-----------------------------------------------------------------------------
CTypeOK ==
    /\ TypeOK
    /\ ammOut \subseteq {RowOf(t) : t \in AmmTxs} /\ ammTable \in [AmmTxs -> 0..1]
    /\ altOut \subseteq {RowOf(t) : t \in AltTxs} /\ altTable \in [AltTxs -> 0..1]
    /\ crashes \in 0..MaxCrashes
    /\ delivered \subseteq 1..MaxTx /\ forfeited \subseteq 1..MaxTx

\* The connection under way, or the next one, delivers t (again).
WillDeliver(t) == IF pc = "stream" THEN rejected \/ t >= cursor
                  ELSE fromSlot # NoSlot /\ SlotOf[t] >= fromSlot

(* Whatever drops, fails or crashes, a transaction that was received has   *)
(* its rows in the tables or in memory, or will be delivered again, or is  *)
(* one of those the replay window does not protect.                        *)
NothingForgotten ==
    \A t \in delivered \ forfeited : Held(t) \/ WillDeliver(t)

(* main(): "anything received but not committed before a disconnect/crash  *)
(* is delivered again and safely upserted".                                *)
ReceivedIsRedelivered ==
    fromSlot # NoSlot => \A t \in delivered : Held(t) \/ WillDeliver(t)

(* Every transaction received is committed in the end, in each table it    *)
(* concerns, unless it is one the replay window does not protect.          *)
EventuallyCommitted ==
    \A t \in 1..MaxTx : (t \in delivered) ~> (InTables(t) \/ t \in forfeited)

=============================================================================
