-------------------------- MODULE AltTradesProofs --------------------------
(***************************************************************************)
(* Proofs about coalesce_duplicate_rows and the statement of alt_trades,   *)
(* for every set of keys, every set of values and chunks of every length.  *)
(***************************************************************************)
EXTENDS AltTrades, SequenceTheorems, WellFoundedInduction, TLAPS

-----------------------------------------------------------------------------
(* The inductive invariant.                                                *)

Rec == [key: Keys, val: Values, n: 1..MaxRows]

\* A row that no later row of the chunk replaces.
IsLast(j) == \A l \in DOMAIN seen : l > j => seen[l].key # seen[j].key

\* The HashMap is the inverse of the keys of the Vec, and knows every key seen.
PositionsInv ==
    /\ \A k \in Keys : positions[k] # 0 => unique[positions[k]].key = k
    /\ \A i \in DOMAIN unique : positions[unique[i].key] = i
    /\ \A j \in DOMAIN seen : positions[seen[j].key] # 0

\* The Vec has the last row of each key and nothing else.
LastRowsInv ==
    /\ \A i \in DOMAIN unique : \E j \in DOMAIN seen : IsLast(j) /\ unique[i] = seen[j]
    /\ \A j \in DOMAIN seen : IsLast(j) => \E i \in DOMAIN unique : unique[i] = seen[j]

\* Nothing is remembered of a row that does not exist.
NothingLearned == \A k \in Keys : table[k] = NoRow => learned[k] = Null /\ k \notin shadowed

Inv == TypeOK /\ PositionsInv /\ LastRowsInv /\ LatestDecimalsWin /\ NothingLearned

-----------------------------------------------------------------------------
(* The loop.                                                               *)

\* One iteration puts the row at the place of its key, old or new, and
\* leaves the other places and their rows alone.
LEMMA RowPlaced ==
    ASSUME LoopTypeOK, PositionsInv, NEW k \in Keys, NEW v \in Values, NEW row \in Rec,
           row = [key |-> k, val |-> v, n |-> Len(seen) + 1], TakeRow(k, v)
    PROVE  /\ unique' \in Seq(Rec) /\ positions' \in [Keys -> 0..Len(unique')]
           /\ \E p \in DOMAIN unique' :
                /\ unique'[p] = row /\ positions'[k] = p
                /\ \A j \in Keys \ {k} : positions'[j] = positions[j]
                /\ \A i \in DOMAIN unique' : i # p =>
                     i \in DOMAIN unique /\ unique'[i] = unique[i] /\ unique[i].key # k
                /\ \A i \in DOMAIN unique : unique[i].key # k => i \in DOMAIN unique' /\ i # p
<1>1. /\ unique \in Seq(Rec) /\ Len(unique) \in Nat /\ DOMAIN unique = 1..Len(unique)
      /\ positions \in [Keys -> 0..Len(unique)]
  BY LenProperties DEF LoopTypeOK, Rec
<1>2. CASE positions[k] # 0
  <2>1. positions[k] \in DOMAIN unique /\ unique[positions[k]].key = k
    BY <1>1, <1>2 DEF PositionsInv
  <2>2. unique' = [unique EXCEPT ![positions[k]] = row] /\ positions' = positions
    BY <1>2 DEF TakeRow
  <2>3. unique' \in Seq(Rec) /\ Len(unique') = Len(unique) /\ DOMAIN unique' = DOMAIN unique
    BY <1>1, <2>1, <2>2, ExceptSeq
  <2>4. ASSUME NEW i \in DOMAIN unique, i # positions[k] PROVE unique[i].key # k
    BY <2>4 DEF PositionsInv
  <2>5. /\ unique'[positions[k]] = row
        /\ \A i \in DOMAIN unique : i # positions[k] => unique'[i] = unique[i]
    BY <2>1, <2>2
  <2>6. QED BY <1>1, <2>1, <2>2, <2>3, <2>4, <2>5
<1>3. CASE positions[k] = 0
  <2>1. /\ unique' = Append(unique, row)
        /\ positions' = [positions EXCEPT ![k] = Len(unique) + 1]
    BY <1>3 DEF TakeRow
  <2>2. /\ unique' \in Seq(Rec) /\ Len(unique') = Len(unique) + 1
        /\ DOMAIN unique' = 1..(Len(unique) + 1) /\ unique'[Len(unique) + 1] = row
        /\ \A i \in 1..Len(unique) : unique'[i] = unique[i]
    BY <1>1, <2>1, AppendProperties, LenProperties
  <2>3. ASSUME NEW i \in DOMAIN unique PROVE unique[i].key # k
    BY <1>1, <1>3 DEF PositionsInv
  <2>4. /\ positions' \in [Keys -> 0..Len(unique')] /\ positions'[k] = Len(unique) + 1
        /\ \A j \in Keys \ {k} : positions'[j] = positions[j]
    BY <1>1, <2>1, <2>2
  <2>5. \A i \in DOMAIN unique' : i # Len(unique) + 1 => i \in DOMAIN unique
    BY <1>1, <2>2
  <2>6. \A i \in DOMAIN unique : i \in DOMAIN unique' /\ i # Len(unique) + 1
    BY <1>1, <2>2
  <2>7. Len(unique) + 1 \in DOMAIN unique'
    BY <1>1, <2>2
  <2>8. QED BY <1>1, <2>2, <2>3, <2>4, <2>5, <2>6, <2>7
<1>4. QED BY <1>2, <1>3

\* The loop keeps its invariant.
LEMMA TakeRowKeeps ==
    ASSUME LoopTypeOK, PositionsInv, LastRowsInv, NEW k \in Keys, NEW v \in Values, TakeRow(k, v)
    PROVE  LoopTypeOK' /\ PositionsInv' /\ LastRowsInv'
<1>1. /\ seen \in Seq(Rec) /\ Len(seen) \in Nat /\ DOMAIN seen = 1..Len(seen) /\ Len(seen) < MaxRows
      /\ unique \in Seq(Rec) /\ DOMAIN unique = 1..Len(unique) /\ Len(unique) \in Nat
  BY LenProperties DEF LoopTypeOK, Rec, TakeRow
<1>0. PICK n \in Nat : n = Len(seen) + 1
  BY <1>1
<1>2. PICK row \in Rec : row = [key |-> k, val |-> v, n |-> Len(seen) + 1]
  <2>1. Len(seen) + 1 \in 1..MaxRows
    BY <1>1, MaxRowsAssumption
  <2>2. [key |-> k, val |-> v, n |-> Len(seen) + 1] \in Rec
    BY <2>1 DEF Rec
  <2>3. QED BY <2>2
<1>3. seen' = Append(seen, row)
  BY <1>2 DEF TakeRow
<1>4. /\ seen' \in Seq(Rec) /\ Len(seen') = n /\ DOMAIN seen' = 1..n /\ seen'[n] = row
      /\ \A i \in DOMAIN seen : seen'[i] = seen[i]
  BY <1>1, <1>0, <1>2, <1>3, AppendProperties, LenProperties
<1>5. /\ \A j \in DOMAIN seen : j \in DOMAIN seen' /\ j # n /\ n > j
      /\ \A j \in DOMAIN seen' : j = n \/ j \in DOMAIN seen
      /\ n \in DOMAIN seen' /\ \A j \in DOMAIN seen' : ~(j > n)
  BY <1>1, <1>0, <1>4
<1>6. unique' \in Seq(Rec) /\ positions' \in [Keys -> 0..Len(unique')]
  BY <1>2, RowPlaced
<1>7. PICK p \in DOMAIN unique' :
        /\ unique'[p] = row /\ positions'[k] = p
        /\ \A j \in Keys \ {k} : positions'[j] = positions[j]
        /\ \A i \in DOMAIN unique' : i # p =>
             i \in DOMAIN unique /\ unique'[i] = unique[i] /\ unique[i].key # k
        /\ \A i \in DOMAIN unique : unique[i].key # k => i \in DOMAIN unique' /\ i # p
  BY <1>2, RowPlaced
<1>8. row.key = k /\ p # 0
  BY <1>2, <1>6, <1>7, LenProperties
<1>9. LoopTypeOK'
  <2>1. Len(seen') <= MaxRows
    BY <1>1, <1>0, <1>4, MaxRowsAssumption
  <2>2. QED BY <1>4, <1>6, <2>1 DEF LoopTypeOK, Rec
<1>10. /\ \A j \in DOMAIN seen : seen[j].key \in Keys
       /\ \A i \in DOMAIN unique : unique[i].key \in Keys
  <2>1. /\ \A j \in DOMAIN seen : seen[j] \in Rec
        /\ \A i \in DOMAIN unique : unique[i] \in Rec
    BY <1>1, ElementOfSeq
  <2>2. QED BY <2>1 DEF Rec
<1>11. PositionsInv'
  <2>1. ASSUME NEW j \in Keys, positions'[j] # 0 PROVE unique'[positions'[j]].key = j
    <3>1. CASE j = k
      BY <1>7, <1>8, <3>1
    <3>2. CASE j # k
      <4>1. positions[j] # 0 /\ unique[positions[j]].key = j /\ positions'[j] = positions[j]
        BY <1>7, <2>1, <3>2 DEF PositionsInv
      <4>2. positions[j] \in DOMAIN unique
        BY <1>1, <4>1 DEF LoopTypeOK
      <4>3. QED BY <1>7, <3>2, <4>1, <4>2
    <3>3. QED BY <3>1, <3>2
  <2>2. ASSUME NEW i \in DOMAIN unique' PROVE positions'[unique'[i].key] = i
    <3>1. CASE i = p
      BY <1>7, <1>8, <3>1
    <3>2. CASE i # p
      BY <1>7, <1>10, <3>2 DEF PositionsInv
    <3>3. QED BY <3>1, <3>2
  <2>3. ASSUME NEW j \in DOMAIN seen' PROVE positions'[seen'[j].key] # 0
    <3>1. CASE j = n
      BY <1>4, <1>7, <1>8, <3>1
    <3>2. CASE j \in DOMAIN seen
      BY <1>4, <1>7, <1>8, <1>10, <3>2 DEF PositionsInv
    <3>3. QED BY <1>5, <3>1, <3>2
  <2>4. QED BY <2>1, <2>2, <2>3 DEF PositionsInv
<1>12. IsLast(n)'
  BY <1>5 DEF IsLast
<1>13. ASSUME NEW j \in DOMAIN seen PROVE IsLast(j)' <=> IsLast(j) /\ seen[j].key # k
  BY <1>4, <1>5, <1>8 DEF IsLast
<1>14. ASSUME NEW i \in DOMAIN unique' PROVE \E j \in DOMAIN seen' : IsLast(j)' /\ unique'[i] = seen'[j]
  <2>1. CASE i = p
    BY <1>4, <1>5, <1>7, <1>12, <2>1
  <2>2. CASE i # p
    <3>1. i \in DOMAIN unique /\ unique'[i] = unique[i] /\ unique[i].key # k
      BY <1>7, <2>2
    <3>2. PICK j \in DOMAIN seen : IsLast(j) /\ unique[i] = seen[j]
      BY <3>1 DEF LastRowsInv
    <3>3. QED BY <1>4, <1>5, <1>13, <3>1, <3>2
  <2>3. QED BY <2>1, <2>2
<1>15. ASSUME NEW j \in DOMAIN seen', IsLast(j)' PROVE \E i \in DOMAIN unique' : unique'[i] = seen'[j]
  <2>1. CASE j = n
    BY <1>4, <1>7, <2>1
  <2>2. CASE j \in DOMAIN seen
    <3>1. IsLast(j) /\ seen[j].key # k
      BY <1>13, <1>15, <2>2
    <3>2. PICK i \in DOMAIN unique : unique[i] = seen[j]
      BY <2>2, <3>1 DEF LastRowsInv
    <3>3. QED BY <1>4, <1>7, <2>2, <3>1, <3>2
  <2>3. QED BY <1>5, <2>1, <2>2
<1>16. LastRowsInv'
  BY <1>14, <1>15 DEF LastRowsInv, IsLast
<1>17. QED BY <1>9, <1>11, <1>16

-----------------------------------------------------------------------------
(* The statement.                                                          *)

\* A non-empty set of positions has a last one.
LEMMA LastPosition ==
    ASSUME NEW n \in Nat, NEW D \in SUBSET (1..n), D # {}
    PROVE  \E i \in D : \A j \in D : j <= i
<1> DEFINE T == {d \in Nat : \E i \in D : d = n - i}
<1>1. T \subseteq Nat /\ T # {}
  <2>1. PICK i \in D : TRUE
    OBVIOUS
  <2>2. n - i \in T
    BY <2>1
  <2>3. QED BY <2>2
<1>2. PICK d \in T : \A e \in T : ~(<<e, d>> \in OpToRel(<, Nat))
  BY <1>1, NatLessThanWellFounded, WFMin
<1>3. \A e \in T : ~(e < d)
  BY <1>1, <1>2 DEF OpToRel
<1>4. PICK i \in D : d = n - i
  OBVIOUS
<1>5. ASSUME NEW j \in D PROVE j <= i
  <2>1. n - j \in T
    OBVIOUS
  <2>2. ~(n - j < n - i)
    BY <1>3, <1>4, <2>1
  <2>3. QED BY <2>2
<1>6. QED BY <1>5

\* What the histories read from the chunk: the value of one of the key's rows
\* that no later one of them follows.
LEMMA LastAmongIs ==
    ASSUME TypeOK, NEW k \in Keys, NEW V
    PROVE  LET D == {i \in DOMAIN seen : seen[i].key = k /\ seen[i].val \in V} IN
           /\ D = {} => LastAmong(k, V) = Null
           /\ D # {} => \E i \in D : LastAmong(k, V) = seen[i].val /\ \A j \in D : j <= i
<1> DEFINE D == {i \in DOMAIN seen : seen[i].key = k /\ seen[i].val \in V}
<1>1. DOMAIN seen = 1..Len(seen) /\ Len(seen) \in Nat
  BY LenProperties DEF TypeOK, LoopTypeOK
<1>2. LastAmong(k, V) = IF D = {} THEN Null ELSE seen[CHOOSE i \in D : \A j \in D : j <= i].val
  BY DEF LastAmong
<1>3. D \in SUBSET (1..Len(seen))
  BY <1>1
<1> HIDE DEF D
<1>4. ASSUME D # {} PROVE \E i \in D : \A j \in D : j <= i
  BY <1>1, <1>3, <1>4, LastPosition
<1>5. D # {} => \E i \in D : LastAmong(k, V) = seen[i].val /\ \A j \in D : j <= i
  BY <1>2, <1>4
<1>6. QED BY <1>2, <1>5 DEF D

\* The decimals an upsert sees for a key are those of the key's last
\* delivery in the chunk, and the chunk has none when the Vec has none.
LEMMA UpsertSeesLast ==
    ASSUME TypeOK, PositionsInv, LastRowsInv, NEW k \in Keys
    PROVE  /\ Last(k) \in Values /\ LastKnown(k) \in Values
           /\ Last(k) # Null => LastKnown(k) = Last(k)
           /\ IF \E i \in DOMAIN unique : unique[i].key = k
              THEN Last(k) = unique[RowOf(k)].val
              ELSE Last(k) = Null /\ LastKnown(k) = Null
<1> DEFINE D == {i \in DOMAIN seen : seen[i].key = k /\ seen[i].val \in Values}
           E == {i \in DOMAIN seen : seen[i].key = k /\ seen[i].val \in Values \ {Null}}
<1>1. seen \in Seq(Rec) /\ DOMAIN seen = 1..Len(seen) /\ Len(seen) \in Nat
      /\ DOMAIN unique = 1..Len(unique)
      /\ positions \in [Keys -> 0..Len(unique)] /\ Len(unique) \in Nat
  BY LenProperties DEF TypeOK, LoopTypeOK, Rec
<1>2. \A i \in DOMAIN seen : seen[i].val \in Values
  <2>1. \A i \in DOMAIN seen : seen[i] \in Rec
    BY <1>1, ElementOfSeq
  <2>2. QED BY <2>1 DEF Rec
<1>3. /\ D = {} => Last(k) = Null
      /\ D # {} => \E i \in D : Last(k) = seen[i].val /\ \A j \in D : j <= i
  BY LastAmongIs DEF Last
<1>4. /\ E = {} => LastKnown(k) = Null
      /\ E # {} => \E i \in E : LastKnown(k) = seen[i].val /\ \A j \in E : j <= i
  BY LastAmongIs DEF LastKnown
<1>5. Last(k) \in Values /\ LastKnown(k) \in Values
  BY <1>2, <1>3, <1>4, AltTradesAssumption
<1>6. ASSUME Last(k) # Null PROVE LastKnown(k) = Last(k)
  <2>1. PICK i \in D : Last(k) = seen[i].val /\ \A j \in D : j <= i
    BY <1>3, <1>6
  <2>2. i \in E /\ \A j \in E : j \in D
    BY <1>6, <2>1
  <2>3. PICK l \in E : LastKnown(k) = seen[l].val /\ \A j \in E : j <= l
    BY <1>4, <2>2
  <2>4. i = l
    BY <1>1, <2>1, <2>2, <2>3
  <2>5. QED BY <2>1, <2>3, <2>4
<1>7. CASE \E i \in DOMAIN unique : unique[i].key = k
  <2>1. RowOf(k) \in DOMAIN unique /\ unique[RowOf(k)].key = k
    BY <1>7 DEF RowOf
  <2>2. PICK j \in DOMAIN seen : IsLast(j) /\ unique[RowOf(k)] = seen[j]
    BY <2>1 DEF LastRowsInv
  <2>3. j \in D /\ \A l \in D : l <= j
    BY <1>1, <1>2, <2>1, <2>2 DEF IsLast
  <2>4. PICK i \in D : Last(k) = seen[i].val /\ \A l \in D : l <= i
    BY <1>3, <2>3
  <2>5. i = j
    BY <1>1, <2>3, <2>4
  <2>6. QED BY <1>5, <1>6, <1>7, <2>2, <2>4, <2>5
<1>8. CASE ~\E i \in DOMAIN unique : unique[i].key = k
  <2>1. ASSUME NEW j \in DOMAIN seen, seen[j].key = k PROVE FALSE
    <3>1. positions[k] # 0 /\ unique[positions[k]].key = k
      BY <2>1 DEF PositionsInv
    <3>2. positions[k] \in DOMAIN unique
      BY <1>1, <3>1
    <3>3. QED BY <1>8, <3>1, <3>2
  <2>2. D = {} /\ E = {}
    BY <2>1
  <2>3. QED BY <1>3, <1>4, <1>5, <1>6, <1>8, <2>2
<1>9. QED BY <1>7, <1>8

LEMMA AppliedKeeps == ASSUME Inv, InsertApplied PROVE Inv'
<1>1. /\ seen' = <<>> /\ unique' = <<>> /\ positions' = [k \in Keys |-> 0]
      /\ table' = Upserted
      /\ learned' = [k \in Keys |-> IF LastKnown(k) # Null THEN LastKnown(k) ELSE learned[k]]
      /\ shadowed' = {k \in Keys : Last(k) = Null /\ (LastKnown(k) # Null \/ k \in shadowed)}
  BY DEF InsertApplied
<1>2. LoopTypeOK' /\ PositionsInv' /\ LastRowsInv'
  <2>1. DOMAIN seen' = {} /\ DOMAIN unique' = {} /\ Len(unique') = 0 /\ Len(seen') = 0
        /\ seen' \in Seq(Rec) /\ unique' \in Seq(Rec)
    BY <1>1, EmptySeq
  <2>2. QED BY <1>1, <2>1, MaxRowsAssumption DEF LoopTypeOK, PositionsInv, LastRowsInv, Rec
<1>3. ASSUME NEW k \in Keys
      PROVE  /\ table'[k] \in Values \cup {NoRow} /\ learned'[k] \in Values
             /\ table'[k] # NoRow => table'[k] = learned'[k] \/ k \in shadowed'
             /\ table'[k] = NoRow => learned'[k] = Null /\ k \notin shadowed'
  <2>1. /\ table[k] \in Values \cup {NoRow} /\ learned[k] \in Values
        /\ table[k] # NoRow => table[k] = learned[k] \/ k \in shadowed
        /\ table[k] = NoRow => learned[k] = Null /\ k \notin shadowed
    BY DEF Inv, TypeOK, LatestDecimalsWin, NothingLearned
  <2>2. /\ learned'[k] = IF LastKnown(k) # Null THEN LastKnown(k) ELSE learned[k]
        /\ k \in shadowed' <=> Last(k) = Null /\ (LastKnown(k) # Null \/ k \in shadowed)
    BY <1>1
  <2>3. /\ Last(k) \in Values /\ LastKnown(k) \in Values
        /\ Last(k) # Null => LastKnown(k) = Last(k)
    BY UpsertSeesLast DEF Inv
  <2>4. CASE \E i \in DOMAIN unique : unique[i].key = k
    <3>1. Last(k) = unique[RowOf(k)].val
      BY <2>4, UpsertSeesLast DEF Inv
    <3>2. table'[k] = Merged(table[k], Last(k))
      BY <1>1, <2>4, <3>1 DEF Upserted
    <3>3. QED BY <2>1, <2>2, <2>3, <3>2, AltTradesAssumption DEF Merged
  <2>5. CASE ~\E i \in DOMAIN unique : unique[i].key = k
    <3>1. Last(k) = Null /\ LastKnown(k) = Null
      BY <2>5, UpsertSeesLast DEF Inv
    <3>2. table'[k] = table[k]
      BY <1>1, <2>5 DEF Upserted
    <3>3. QED BY <2>1, <2>2, <3>1, <3>2
  <2>6. QED BY <2>4, <2>5
<1>4. /\ table' \in [Keys -> Values \cup {NoRow}] /\ learned' \in [Keys -> Values]
      /\ shadowed' \subseteq Keys
  BY <1>1, <1>3 DEF Upserted
<1>5. QED BY <1>2, <1>3, <1>4 DEF Inv, TypeOK, LatestDecimalsWin, NothingLearned

-----------------------------------------------------------------------------
(* The theorems.                                                           *)

\* The invariant is inductive.
THEOREM InvCorrect == Spec => []Inv
<1>1. Init => Inv
  <2> SUFFICES ASSUME Init PROVE Inv
    OBVIOUS
  <2>1. /\ DOMAIN seen = {} /\ DOMAIN unique = {} /\ Len(unique) = 0 /\ Len(seen) = 0
        /\ seen \in Seq(Rec) /\ unique \in Seq(Rec) /\ positions = [k \in Keys |-> 0]
    BY EmptySeq DEF Init, LoopInit
  <2>2. LoopTypeOK /\ PositionsInv /\ LastRowsInv
    BY <2>1, MaxRowsAssumption DEF LoopTypeOK, PositionsInv, LastRowsInv, Rec
  <2>3. QED BY <2>2, AltTradesAssumption DEF Init, Inv, TypeOK, LatestDecimalsWin, NothingLearned
<1>2. Inv /\ [Next]_vars => Inv'
  <2> SUFFICES ASSUME Inv, [Next]_vars PROVE Inv'
    OBVIOUS
  <2>1. CASE DecodeRow
    <3>1. LoopTypeOK' /\ PositionsInv' /\ LastRowsInv'
      BY <2>1, TakeRowKeeps DEF DecodeRow, Inv, TypeOK
    <3>2. UNCHANGED <<table, learned, shadowed>>
      BY <2>1 DEF DecodeRow, hist
    <3>3. QED BY <3>1, <3>2 DEF Inv, TypeOK, LatestDecimalsWin, NothingLearned
  <2>2. CASE InsertApplied
    BY <2>2, AppliedKeeps
  <2>3. CASE InsertFails
    <3>1. /\ seen' = <<>> /\ unique' = <<>> /\ positions' = [k \in Keys |-> 0]
          /\ UNCHANGED <<table, learned, shadowed>>
      BY <2>3 DEF InsertFails, hist
    <3>2. DOMAIN seen' = {} /\ DOMAIN unique' = {} /\ Len(unique') = 0 /\ Len(seen') = 0
          /\ seen' \in Seq(Rec) /\ unique' \in Seq(Rec)
      BY <3>1, EmptySeq
    <3>3. LoopTypeOK' /\ PositionsInv' /\ LastRowsInv'
      BY <3>1, <3>2, MaxRowsAssumption DEF LoopTypeOK, PositionsInv, LastRowsInv, Rec
    <3>4. QED BY <3>1, <3>3 DEF Inv, TypeOK, LatestDecimalsWin, NothingLearned
  <2>4. ASSUME NEW k \in Keys, PruneRow(k) PROVE Inv'
    <3>1. UNCHANGED <<seen, positions, unique>>
      BY <2>4 DEF PruneRow, loop
    <3>2. LoopTypeOK' /\ PositionsInv' /\ LastRowsInv'
      BY <3>1 DEF Inv, TypeOK, LoopTypeOK, PositionsInv, LastRowsInv, IsLast
    <3>3. /\ table' = [table EXCEPT ![k] = NoRow] /\ learned' = [learned EXCEPT ![k] = Null]
          /\ shadowed' = shadowed \ {k} /\ shadowed \subseteq Keys
          /\ table \in [Keys -> Values \cup {NoRow}] /\ learned \in [Keys -> Values]
      BY <2>4 DEF PruneRow, Inv, TypeOK
    <3>4. TypeOK'
      BY <3>2, <3>3, AltTradesAssumption DEF TypeOK
    <3>5. LatestDecimalsWin' /\ NothingLearned'
      BY <3>3 DEF Inv, LatestDecimalsWin, NothingLearned
    <3>6. QED BY <3>2, <3>4, <3>5 DEF Inv
  <2>5. CASE UNCHANGED vars
    BY <2>5 DEF vars, loop, hist, Inv, TypeOK, LoopTypeOK, PositionsInv, LastRowsInv, IsLast,
                LatestDecimalsWin, NothingLearned
  <2>6. QED BY <2>1, <2>2, <2>3, <2>4, <2>5 DEF Next
<1>3. QED BY <1>1, <1>2, PTL DEF Spec

(* Type correctness: in particular every position in the HashMap of        *)
(* coalesce_duplicate_rows is one of the Vec, so unique[position] is safe. *)
THEOREM TypeCorrect == Spec => []TypeOK
<1>1. Inv => TypeOK
  BY DEF Inv
<1>2. QED BY <1>1, InvCorrect, PTL

(* coalesce_duplicate_rows returns the last row of each key, once.         *)
THEOREM CoalesceCorrect == Spec => []OneLastRowPerKey
<1>1. Inv => OneLastRowPerKey
  <2> SUFFICES ASSUME Inv PROVE OneLastRowPerKey
    OBVIOUS
  <2>1. \A i, j \in DOMAIN unique : unique[i].key = unique[j].key => i = j
    BY DEF Inv, PositionsInv
  <2>2. {unique[i] : i \in DOMAIN unique} = {seen[i] : i \in {j \in DOMAIN seen : IsLast(j)}}
    BY DEF Inv, LastRowsInv
  <2>3. QED BY <2>1, <2>2 DEF OneLastRowPerKey, IsLast
<1>2. QED BY <1>1, InvCorrect, PTL

(* The COALESCE of batch_insert_alt_trades shows the decimals that were    *)
(* delivered last, whatever replays the chunks hold, unless a delivery     *)
(* that did not know them came after them in their own chunk.              *)
THEOREM LatestDecimalsCorrect == Spec => []LatestDecimalsWin
<1>1. Inv => LatestDecimalsWin
  BY DEF Inv
<1>2. QED BY <1>1, InvCorrect, PTL

(* While a row exists its quote_decimals never become unknown again.       *)
THEOREM DecimalsCorrect == Spec => DecimalsNeverLost
<1>1. TypeOK /\ [Next]_vars =>
        [\A k \in Keys : table[k] \notin {Null, NoRow} => table'[k] # Null]_vars
  <2> SUFFICES ASSUME TypeOK, Next, NEW k \in Keys, table[k] \notin {Null, NoRow} PROVE table'[k] # Null
    OBVIOUS
  <2>1. CASE InsertApplied
    BY <2>1 DEF InsertApplied, Upserted, Merged
  <2>2. ASSUME NEW j \in Keys, PruneRow(j) PROVE table'[k] # Null
    <3>1. table'[k] = table[k] \/ table'[k] = NoRow
      BY <2>2 DEF PruneRow, TypeOK
    <3>2. QED BY <3>1, AltTradesAssumption
  <2>3. CASE DecodeRow \/ InsertFails
    BY <2>3 DEF DecodeRow, InsertFails
  <2>4. QED BY <2>1, <2>2, <2>3 DEF Next
<1>2. QED BY <1>1, TypeCorrect, PTL DEF Spec, DecimalsNeverLost

=============================================================================
