---------------------------- MODULE CoalesceRows ----------------------------
(***************************************************************************)
(* The loop of coalesce_duplicate_rows (database/trades.rs): one row per   *)
(* primary key, the last one delivered.  The loop is checked against that  *)
(* definition, which BatchInserter uses; AltTrades runs it on the chunks   *)
(* of alt_trades.                                                          *)
(***************************************************************************)
EXTENDS Naturals, Sequences

CONSTANTS Keys,      \* primary keys
          Values,    \* what a row carries besides
          MaxRows    \* bound: rows of a chunk

ASSUME MaxRowsAssumption == MaxRows \in Nat

VARIABLES
    seen,        \* the rows the loop has taken, in order: key, value, number
    positions,   \* the HashMap: key -> position in unique, 0: no entry
    unique       \* the Vec that is returned

loop == <<seen, positions, unique>>

LoopInit == /\ seen = <<>> /\ unique = <<>>
            /\ positions = [k \in Keys |-> 0]

\* Mutants: the position is taken after the push; the first row of a key is
\* kept.
TakeRowPosition(k, v) ==
    LET row == [key |-> k, val |-> v, n |-> Len(seen) + 1] IN
    /\ Len(seen) < MaxRows
    /\ seen' = Append(seen, row)
    /\ positions' = [positions EXCEPT ![k] = Len(unique) + 2]
    /\ unique' = Append(unique, row)

TakeRowKeepsFirst(k, v) ==
    LET row == [key |-> k, val |-> v, n |-> Len(seen) + 1] IN
    /\ Len(seen) < MaxRows
    /\ seen' = Append(seen, row)
    /\ IF positions[k] # 0
       THEN UNCHANGED <<unique, positions>>
       ELSE /\ positions' = [positions EXCEPT ![k] = Len(unique) + 1]
            /\ unique' = Append(unique, row)

\* One iteration.  The n-th row of the chunk is given the number n.
TakeRow(k, v) ==
    LET row == [key |-> k, val |-> v, n |-> Len(seen) + 1] IN
    /\ Len(seen) < MaxRows
    /\ seen' = Append(seen, row)
    /\ IF positions[k] # 0
       THEN /\ unique' = [unique EXCEPT ![positions[k]] = row]
            /\ UNCHANGED positions
       ELSE /\ positions' = [positions EXCEPT ![k] = Len(unique) + 1]
            /\ unique' = Append(unique, row)

-----------------------------------------------------------------------------
LoopTypeOK ==
    /\ seen \in Seq([key: Keys, val: Values, n: 1..MaxRows]) /\ Len(seen) <= MaxRows
    /\ positions \in [Keys -> 0..Len(unique)]
    /\ unique \in Seq([key: Keys, val: Values, n: 1..MaxRows])

(* The result holds the last row of each key, once: a later replay         *)
(* replaces the earlier value and one INSERT never names a key twice.      *)
OneLastRowPerKey ==
    /\ \A i, j \in DOMAIN unique : unique[i].key = unique[j].key => i = j
    /\ {unique[i] : i \in DOMAIN unique} =
       {seen[i] : i \in {j \in DOMAIN seen :
                           \A l \in DOMAIN seen : l > j => seen[l].key # seen[j].key}}

=============================================================================
