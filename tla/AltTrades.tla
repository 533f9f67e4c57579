----------------------------- MODULE AltTrades -----------------------------
(***************************************************************************)
(* The statement of alt_trades (database/alt_trades.rs,                    *)
(* batch_insert_alt_trades): a chunk is coalesced to one row per key and   *)
(* upserted.  It differs from amm_trades in one column: quote_decimals may *)
(* be unknown when a swap is decoded, and a replay that does not know them *)
(* must not erase what an earlier one had learned.                         *)
(*                                                                         *)
(* The value of a row is its quote_decimals; the other columns are         *)
(* overwritten alike, and BatchInserter has the retry of failed chunks.    *)
(***************************************************************************)
EXTENDS CoalesceRows

CONSTANTS Null,    \* quote_decimals IS NULL
          NoRow    \* the table has no row for the key

ASSUME AltTradesAssumption == Null \in Values /\ NoRow \notin Values

VARIABLES
    table,    \* key -> quote_decimals of its row, or NoRow
    \* History, read by properties only:
    learned,  \* key -> the decimals last delivered for its row, or Null
    shadowed  \* keys for which these were followed, in their own chunk, by a
              \* delivery that did not know them

hist == <<learned, shadowed>>
vars == <<loop, table, hist>>

Init == /\ LoopInit
        /\ table = [k \in Keys |-> NoRow]
        /\ learned = [k \in Keys |-> Null] /\ shadowed = {}

\* A row of the chunk; its decimals come from alt_mints or else from the
\* transaction's token balances, and may be in neither.
DecodeRow == /\ \E k \in Keys, v \in Values : TakeRow(k, v)
             /\ UNCHANGED <<table, hist>>

\* Mutants: quote_decimals = EXCLUDED.quote_decimals; COALESCE the other way.
MergedExcluded(old, new) == new

MergedExistingFirst(old, new) == IF old \in {NoRow, Null} THEN new ELSE old

\* INSERT, or COALESCE(EXCLUDED.quote_decimals, alt_trades.quote_decimals).
Merged(old, new) == IF old = NoRow \/ new # Null THEN new ELSE old

RowOf(k) == CHOOSE i \in DOMAIN unique : unique[i].key = k

Upserted == [k \in Keys |-> IF \E i \in DOMAIN unique : unique[i].key = k
                            THEN Merged(table[k], unique[RowOf(k)].val) ELSE table[k]]

\* The decimals of the last of the rows of a key, as the chunk was delivered,
\* whose decimals are in V.
LastAmong(k, V) ==
    LET D == {i \in DOMAIN seen : seen[i].key = k /\ seen[i].val \in V}
    IN IF D = {} THEN Null ELSE seen[CHOOSE i \in D : \A j \in D : j <= i].val

Last(k)      == LastAmong(k, Values)
LastKnown(k) == LastAmong(k, Values \ {Null})

\* The statement is applied, and the next chunk begins.
InsertApplied ==
    /\ seen # <<>>
    /\ table' = Upserted
    /\ learned' = [k \in Keys |-> IF LastKnown(k) # Null THEN LastKnown(k) ELSE learned[k]]
    /\ shadowed' = {k \in Keys : Last(k) = Null /\ (LastKnown(k) # Null \/ k \in shadowed)}
    /\ seen' = <<>> /\ unique' = <<>> /\ positions' = [k \in Keys |-> 0]

\* It fails as a whole; the chunk is coalesced anew when it is retried.
InsertFails ==
    /\ seen # <<>>
    /\ seen' = <<>> /\ unique' = <<>> /\ positions' = [k \in Keys |-> 0]
    /\ UNCHANGED <<table, hist>>

\* The pruner deletes a row that is too old.
PruneRow(k) ==
    /\ table[k] # NoRow
    /\ table' = [table EXCEPT ![k] = NoRow]
    /\ learned' = [learned EXCEPT ![k] = Null] /\ shadowed' = shadowed \ {k}
    /\ UNCHANGED loop

Next == DecodeRow \/ InsertApplied \/ InsertFails \/ \E k \in Keys : PruneRow(k)

Spec == Init /\ [][Next]_vars

-----------------------------------------------------------------------------
TypeOK == /\ LoopTypeOK
          /\ table \in [Keys -> Values \cup {NoRow}]
          /\ learned \in [Keys -> Values] /\ shadowed \subseteq Keys

(* While a row exists its decimals never become unknown again, whatever    *)
(* replays the chunks hold.                                                *)
DecimalsNeverLost ==
    [][\A k \in Keys : table[k] \notin {Null, NoRow} => table'[k] # Null]_vars

(* A row shows the last decimals that any delivery of its key brought      *)
(* since it was inserted, and none only if no delivery did.  One order     *)
(* defeats the COALESCE: the delivery that brought them and a later one    *)
(* that did not know them were in one chunk, and coalesce_duplicate_rows   *)
(* kept the later one whole.                                               *)
LatestDecimalsWin ==
    \A k \in Keys : table[k] # NoRow => table[k] = learned[k] \/ k \in shadowed

=============================================================================
