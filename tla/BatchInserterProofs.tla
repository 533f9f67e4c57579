------------------------ MODULE BatchInserterProofs ------------------------
(***************************************************************************)
(* Proofs about the batch inserter, for every set of keys, channel         *)
(* capacity, flush threshold, chunk size and number of deliveries.         *)
(***************************************************************************)
EXTENDS BatchInserter, SequenceTheorems, WellFoundedInduction, TLAPS

-----------------------------------------------------------------------------
(* Sequences of rows.                                                      *)

\* The rows of a concatenation.
LEMMA RowsOfConcat ==
    ASSUME NEW s \in Seq(Row), NEW t \in Seq(Row)
    PROVE  RowsOf(s \o t) = RowsOf(s) \cup RowsOf(t)
<1>1. s \o t \in Seq(Row) /\ Len(s \o t) = Len(s) + Len(t)
  BY ConcatProperties
<1>2. \A i \in 1..Len(s) + Len(t) :
        (s \o t)[i] = IF i <= Len(s) THEN s[i] ELSE t[i - Len(s)]
  BY ConcatProperties
<1>3. /\ DOMAIN s = 1..Len(s) /\ DOMAIN t = 1..Len(t)
      /\ DOMAIN (s \o t) = 1..(Len(s) + Len(t)) /\ Len(s) \in Nat /\ Len(t) \in Nat
  BY <1>1, LenProperties
<1>4. ASSUME NEW r \in RowsOf(s \o t) PROVE r \in RowsOf(s) \cup RowsOf(t)
  <2>1. PICK i \in 1..(Len(s) + Len(t)) : r = (s \o t)[i]
    BY <1>3 DEF RowsOf
  <2>2. CASE i <= Len(s)
    BY <1>2, <1>3, <2>1, <2>2 DEF RowsOf
  <2>3. CASE i > Len(s)
    <3>1. r = t[i - Len(s)] /\ i - Len(s) \in 1..Len(t)
      BY <1>2, <1>3, <2>1, <2>3
    <3>2. QED BY <1>3, <3>1 DEF RowsOf
  <2>4. QED BY <1>3, <2>2, <2>3
<1>5. ASSUME NEW r \in RowsOf(s) PROVE r \in RowsOf(s \o t)
  <2>1. PICK i \in 1..Len(s) : r = s[i]
    BY <1>3 DEF RowsOf
  <2>2. i \in 1..(Len(s) + Len(t)) /\ r = (s \o t)[i]
    BY <1>2, <1>3, <2>1
  <2>3. QED BY <1>3, <2>2 DEF RowsOf
<1>6. ASSUME NEW r \in RowsOf(t) PROVE r \in RowsOf(s \o t)
  <2>1. PICK i \in 1..Len(t) : r = t[i]
    BY <1>3 DEF RowsOf
  <2>2. Len(s) + i \in 1..(Len(s) + Len(t)) /\ r = (s \o t)[Len(s) + i]
    BY <1>2, <1>3, <2>1
  <2>3. QED BY <1>3, <2>2 DEF RowsOf
<1>7. QED BY <1>4, <1>5, <1>6

\* Concatenation of sequences of rows is associative.
LEMMA RowsAssociative ==
    ASSUME NEW s \in Seq(Row), NEW t \in Seq(Row), NEW u \in Seq(Row)
    PROVE  (s \o t) \o u = s \o (t \o u)
BY ConcatAssociative

\* An element of a sequence of rows is a row, and its number is a natural.
LEMMA RowNumber ==
    ASSUME NEW s \in Seq(Row), NEW i \in DOMAIN s
    PROVE  s[i] \in Row /\ s[i].n \in Nat
<1>1. s[i] \in Row
  BY LenProperties, ElementOfSeq
<1>2. \A r \in Row : r.n \in Nat
  BY MaxSentAssumption DEF Row
<1>3. QED BY <1>1, <1>2

\* The only row of a sequence of one row.
LEMMA RowsOfOne ==
    ASSUME NEW r \in Row
    PROVE  <<r>> \in Seq(Row) /\ RowsOf(<<r>>) = {r}
BY DEF RowsOf

\* The rows of a sequence of rows are rows.
LEMMA RowsOfTyped ==
    ASSUME NEW s \in Seq(Row)
    PROVE  RowsOf(s) \subseteq Row
BY LenProperties, ElementOfSeq DEF RowsOf

\* A non-empty sequence is its head followed by its tail.
LEMMA HeadTailConcat ==
    ASSUME NEW s \in Seq(Row), s # <<>>
    PROVE  /\ Head(s) \in Row /\ Tail(s) \in Seq(Row)
           /\ s = <<Head(s)>> \o Tail(s)
<1>1. /\ Head(s) \in Row /\ Tail(s) \in Seq(Row) /\ Len(Tail(s)) = Len(s) - 1
      /\ \A i \in 1..Len(Tail(s)) : Tail(s)[i] = s[i + 1]
  BY HeadTailProperties
<1>2. <<Head(s)>> \in Seq(Row) /\ Len(<<Head(s)>>) = 1 /\ <<Head(s)>>[1] = s[1]
  BY <1>1
<1>3. Len(s) \in Nat \ {0}
  BY EmptySeq
<1>4. DEFINE c == <<Head(s)>> \o Tail(s)
<1>5. c \in Seq(Row) /\ Len(c) = Len(s)
  BY <1>1, <1>2, <1>3, ConcatProperties
<1>6. \A i \in 1..Len(s) : c[i] = IF i <= 1 THEN <<Head(s)>>[i] ELSE Tail(s)[i - 1]
  BY <1>1, <1>2, <1>3, ConcatProperties
<1>7. \A i \in 1..Len(s) : c[i] = s[i]
  BY <1>1, <1>2, <1>3, <1>6
<1>8. s = c
  <2> HIDE DEF c
  <2> QED BY <1>5, <1>7, SeqEqual
<1>9. QED BY <1>1, <1>8

\* The rows of a flush are the chunk it tries now and the chunks after it.
LEMMA ChunkSplit ==
    ASSUME pending \in Seq(Row), pending # <<>>
    PROVE  /\ ThisChunk \in Seq(Row) /\ RestChunks \in Seq(Row)
           /\ ThisChunk # <<>>
           /\ Len(ThisChunk) = IF Len(pending) < Chunk THEN Len(pending) ELSE Chunk
           /\ pending = ThisChunk \o RestChunks
<1> DEFINE c == IF Len(pending) < Chunk THEN Len(pending) ELSE Chunk
<1>1. Len(pending) \in Nat \ {0} /\ c \in 1..Len(pending)
  BY EmptySeq, ChunkAssumption
<1>2. \A i \in 1..Len(pending) : pending[i] \in Row
  BY ElementOfSeq
<1> HIDE DEF c
<1>3. /\ SubSeq(pending, 1, c) \in Seq(Row)
      /\ Len(SubSeq(pending, 1, c)) = c
  <2>1. \A i \in 1..c : pending[i] \in Row
    BY <1>1, <1>2
  <2>2. /\ SubSeq(pending, 1, c) \in Seq(Row)
        /\ Len(SubSeq(pending, 1, c)) = IF 1 <= c THEN c - 1 + 1 ELSE 0
    BY <1>1, <2>1, SubSeqProperties
  <2>3. QED BY <1>1, <2>2
<1>4. SubSeq(pending, c + 1, Len(pending)) \in Seq(Row)
  <2>1. \A i \in (c + 1)..Len(pending) : pending[i] \in Row
    BY <1>1, <1>2
  <2>2. QED BY <1>1, <2>1, SubSeqProperties
<1>5. SubSeq(pending, 1, c) \o SubSeq(pending, c + 1, Len(pending))
        = SubSeq(pending, 1, Len(pending))
  <2>1. 1 \in 1..(Len(pending) + 1) /\ c \in (1 - 1)..Len(pending)
        /\ Len(pending) \in c..Len(pending)
    BY <1>1
  <2>2. QED BY <2>1, ConcatAdjacentSubSeq
<1>6. SubSeq(pending, 1, Len(pending)) = pending
  BY SubSeqFull
<1>7. ThisChunk = SubSeq(pending, 1, c) /\ RestChunks = SubSeq(pending, c + 1, Len(pending))
  BY <1>3 DEF ThisChunk, RestChunks, c
<1>8. ThisChunk # <<>>
  BY <1>1, <1>3, <1>7, EmptySeq
<1>9. Len(ThisChunk) = IF Len(pending) < Chunk THEN Len(pending) ELSE Chunk
  BY <1>3, <1>7 DEF c
<1>10. QED BY <1>3, <1>4, <1>5, <1>6, <1>7, <1>8, <1>9

-----------------------------------------------------------------------------
(* Types.                                                                  *)

\* The statement writes numbers of deliveries, and only for keys it names.
LEMMA UpsertTyped ==
    ASSUME NEW rows \in Seq(Row), NEW t \in [Keys -> 0..MaxSent]
    PROVE  Upsert(t, rows) \in [Keys -> 0..MaxSent]
<1>1. LastOfKey(rows) \subseteq Row
  BY LenProperties, ElementOfSeq DEF LastOfKey
<1>2. ASSUME NEW k \in Keys, \E r \in LastOfKey(rows) : r.key = k
      PROVE  (CHOOSE r \in LastOfKey(rows) : r.key = k).n \in 0..MaxSent
  <2>1. (CHOOSE r \in LastOfKey(rows) : r.key = k) \in LastOfKey(rows)
    BY <1>2
  <2>2. (CHOOSE r \in LastOfKey(rows) : r.key = k) \in Row
    BY <1>1, <2>1
  <2>3. QED BY <2>2, MaxSentAssumption DEF Row
<1>3. QED BY <1>2 DEF Upsert

\* An applied statement keeps the types of the table and of its history.
LEMMA AppliedTyped ==
    ASSUME TypeOK, pending # <<>>, Applied
    PROVE  /\ table' \in [Keys -> 0..MaxSent] /\ created' \in [Keys -> 0..MaxSent]
           /\ written' \subseteq Row /\ split' \in BOOLEAN
<1>1. ThisChunk \in Seq(Row)
  BY ChunkSplit DEF TypeOK
<1>2. Upsert(table, ThisChunk) \in [Keys -> 0..MaxSent]
  BY <1>1, UpsertTyped DEF TypeOK
<1>3. table' \in [Keys -> 0..MaxSent]
  BY <1>2 DEF Applied
<1>4. created' \in [Keys -> 0..MaxSent]
  BY <1>2 DEF Applied, UpsertCreated, TypeOK
<1>5. written' \subseteq Row
  BY <1>1, RowsOfTyped DEF Applied, TypeOK
<1>6. split' \in BOOLEAN
  BY DEF Applied
<1>7. QED BY <1>3, <1>4, <1>5, <1>6

(* Every variable of the inserter keeps its type, whatever the channel     *)
(* delivers and the database answers; the channel stays within capacity.   *)
THEOREM TypeCorrect == Spec => []TypeOK
<1>1. Init => TypeOK
  <2>1. <<>> \in Seq(Row) /\ Len(<<>>) <= ChanCap
    BY ChanCapAssumption, EmptySeq
  <2>2. [k \in Keys |-> 0] \in [Keys -> 0..MaxSent] /\ 0 \in 0..MaxSent
    BY MaxSentAssumption
  <2>3. QED BY <2>1, <2>2 DEF Init, TypeOK
<1>2. TypeOK /\ [Next]_vars => TypeOK'
  <2> SUFFICES ASSUME TypeOK, [Next]_vars PROVE TypeOK'
    OBVIOUS
  <2>1. ASSUME NEW k \in Keys, Send(k) PROVE TypeOK'
    <3> DEFINE row == [key |-> k, n |-> sent + 1]
    <3>1. row \in Row /\ sent' \in 0..MaxSent
      BY <2>1, MaxSentAssumption DEF Send, TypeOK, Row
    <3>2. chan' \in Seq(Row) /\ Len(chan') <= ChanCap
      <4> HIDE DEF row
      <4>1. \/ chan' = Append(chan, row) /\ Len(chan) < ChanCap
            \/ chan' = chan
        BY <2>1 DEF Send, row
      <4>2. CASE chan' = Append(chan, row) /\ Len(chan) < ChanCap
        BY <3>1, <4>2, AppendProperties, ChanCapAssumption, LenProperties DEF TypeOK
      <4>3. QED BY <4>1, <4>2 DEF TypeOK
    <3>3. dropped' \subseteq Row /\ exposed' \subseteq Row
      BY <2>1, <3>1 DEF Send, TypeOK
    <3>4. QED BY <2>1, <3>1, <3>2, <3>3 DEF Send, TypeOK, task, db
  <2>2. CASE Tick
    BY <2>2, EmptySeq DEF Tick, StartFlush, TypeOK, db, hist
  <2>3. CASE Recv
    <3>1. /\ Head(chan) \in Row /\ Tail(chan) \in Seq(Row)
          /\ Len(Tail(chan)) <= ChanCap
      BY <2>3, HeadTailProperties, ChanCapAssumption, LenProperties DEF Recv, TypeOK
    <3>2. Append(buffer, Head(chan)) \in Seq(Row)
      BY <3>1, AppendProperties DEF TypeOK
    <3>3. QED BY <2>3, <3>1, <3>2, EmptySeq DEF Recv, StartFlush, TypeOK, db, hist
  <2>4. CASE RecvClosed
    BY <2>4, EmptySeq DEF RecvClosed, StartFlush, TypeOK, db, hist
  <2>5. CASE InsertOk
    <3>1. pending # <<>> /\ Applied
      BY <2>5 DEF InsertOk
    <3>2. ThisChunk \in Seq(Row) /\ RestChunks \in Seq(Row)
      BY <3>1, ChunkSplit DEF TypeOK
    <3>3. RowsOf(ThisChunk) \subseteq Row
      BY <3>2, RowsOfTyped
    <3>4. QED BY <2>5, <3>1, <3>2, <3>3, AppliedTyped DEF InsertOk, TypeOK
  <2>6. ASSUME RetainChunk
        PROVE  retry' \in Seq(Row) /\ pending' \in Seq(Row) /\ exposed' \subseteq Row
    <3>1. ThisChunk \in Seq(Row) /\ RestChunks \in Seq(Row)
      BY <2>6, ChunkSplit DEF RetainChunk, TypeOK
    <3>2. retry' \in Seq(Row) /\ pending' \in Seq(Row)
      BY <2>6, <3>1, ConcatProperties DEF RetainChunk, TypeOK
    <3>3. exposed' \subseteq Row
      BY <2>6, <3>1, RowsOfTyped DEF RetainChunk, TypeOK
    <3>4. QED BY <3>2, <3>3
  <2>7. CASE InsertFails
    BY <2>6, <2>7 DEF InsertFails, RetainChunk, TypeOK, db
  <2>8. CASE InsertUnacked
    <3>1. pending # <<>> /\ Applied /\ RetainChunk
      BY <2>8 DEF InsertUnacked, RetainChunk
    <3>2. QED BY <2>6, <3>1, AppliedTyped DEF RetainChunk, TypeOK
  <2>9. CASE FlushDone
    <3>1. buffer' \in Seq(Row) /\ retry' \in Seq(Row)
      BY <2>9, ConcatProperties, EmptySeq DEF FlushDone, TypeOK
    <3>2. pc' \in {"select", "flush", "drain", "end", "done"}
      BY <2>9 DEF FlushDone, TypeOK
    <3>3. QED BY <2>9, <3>1, <3>2 DEF FlushDone, TypeOK, db, hist
  <2>10. CASE DrainOne
    <3>1. /\ Head(chan) \in Row /\ Tail(chan) \in Seq(Row)
          /\ Len(Tail(chan)) <= ChanCap
      BY <2>10, HeadTailProperties, ChanCapAssumption, LenProperties DEF DrainOne, TypeOK
    <3>2. Append(buffer, Head(chan)) \in Seq(Row)
      BY <3>1, AppendProperties DEF TypeOK
    <3>3. QED BY <2>10, <3>1, <3>2 DEF DrainOne, TypeOK, db, hist
  <2>11. CASE DrainEnd
    BY <2>11, EmptySeq DEF DrainEnd, StartFlush, TypeOK, db, hist
  <2>12. CASE StopRunning
    BY <2>12 DEF StopRunning, TypeOK, task, db, hist
  <2>13. CASE DropSenders
    BY <2>13 DEF DropSenders, TypeOK, task, db, hist
  <2>14. ASSUME NEW h \in 1..MaxSent, Prune(h) PROVE TypeOK'
    BY <2>14, MaxSentAssumption DEF Prune, TypeOK, task, hist
  <2>15. CASE UNCHANGED vars
    BY <2>15 DEF vars, TypeOK, task, db, hist
  <2>16. CASE TaskEnds
    <3>1. lost' \subseteq Row
      BY <2>16, RowsOfTyped DEF TaskEnds, TypeOK
    <3>2. <<>> \in Seq(Row) /\ Len(<<>>) <= ChanCap
      BY ChanCapAssumption, EmptySeq
    <3>3. QED BY <2>16, <3>1, <3>2 DEF TaskEnds, TypeOK, db
  <2>17. QED BY <2>1, <2>2, <2>3, <2>4, <2>5, <2>7, <2>8, <2>9, <2>10, <2>11, <2>12,
               <2>13, <2>14, <2>15, <2>16 DEF Next, Inserter, InsertChunk
<1>3. QED BY <1>1, <1>2, PTL DEF Spec

-----------------------------------------------------------------------------
(* The pipeline: what is retained, what is being flushed, what is buffered *)
(* and what is in the channel, as one sequence.  Every step leaves it as   *)
(* it is, appends the delivery just sent, or cuts out the chunk that was   *)
(* just acknowledged.                                                      *)

Increasing(s) == \A i, j \in DOMAIN s : i < j => s[i].n < s[j].n
Bounded(s, m) == \A i \in DOMAIN s : s[i].n <= m

\* Appending a delivery with a higher number.
LEMMA AppendIncreasing ==
    ASSUME NEW s \in Seq(Row), Increasing(s), NEW m \in Nat, Bounded(s, m),
           NEW r \in Row, r.n = m + 1
    PROVE  Increasing(Append(s, r)) /\ Bounded(Append(s, r), m + 1)
<1> DEFINE t == Append(s, r)
<1>1. /\ t \in Seq(Row) /\ Len(t) = Len(s) + 1 /\ t[Len(s) + 1] = r
      /\ \A i \in 1..Len(s) : t[i] = s[i]
  BY AppendProperties
<1>2. DOMAIN s = 1..Len(s) /\ DOMAIN t = 1..(Len(s) + 1) /\ Len(s) \in Nat
  BY <1>1, LenProperties
<1>3. \A i \in 1..Len(s) : s[i].n \in Nat
  BY <1>2, RowNumber
<1> HIDE DEF t
<1>4. \A i, j \in 1..(Len(s) + 1) : i < j => t[i].n < t[j].n
  <2> SUFFICES ASSUME NEW i \in 1..(Len(s) + 1), NEW j \in 1..(Len(s) + 1), i < j
               PROVE  t[i].n < t[j].n
    OBVIOUS
  <2>1. i \in 1..Len(s) /\ t[i] = s[i] /\ s[i].n <= m
    BY <1>1, <1>2 DEF Bounded
  <2>2. CASE j = Len(s) + 1
    BY <1>1, <1>3, <2>1, <2>2
  <2>3. CASE j \in 1..Len(s)
    BY <1>1, <1>2, <2>1, <2>3 DEF Increasing
  <2>4. QED BY <1>2, <2>2, <2>3
<1>5. \A i \in 1..(Len(s) + 1) : t[i].n <= m + 1
  <2> SUFFICES ASSUME NEW i \in 1..(Len(s) + 1) PROVE t[i].n <= m + 1
    OBVIOUS
  <2>1. CASE i = Len(s) + 1
    BY <1>1, <2>1
  <2>2. CASE i \in 1..Len(s)
    BY <1>1, <1>2, <1>3, <2>2 DEF Bounded
  <2>3. QED BY <1>2, <2>1, <2>2
<1>6. QED BY <1>2, <1>4, <1>5 DEF Increasing, Bounded, t

\* Cutting a part out of an increasing sequence.
LEMMA CutIncreasing ==
    ASSUME NEW a \in Seq(Row), NEW c \in Seq(Row), NEW b \in Seq(Row), NEW m \in Nat,
           Increasing((a \o c) \o b), Bounded((a \o c) \o b, m)
    PROVE  /\ Increasing(a \o b) /\ Bounded(a \o b, m)
           /\ RowsOf(c) \cap RowsOf(a \o b) = {}
<1> DEFINE s == (a \o c) \o b
           t == a \o b
           at(i) == IF i <= Len(a) THEN i ELSE i + Len(c)
<1>1. /\ Len(a) \in Nat /\ Len(b) \in Nat /\ Len(c) \in Nat
      /\ DOMAIN c = 1..Len(c)
  BY LenProperties
<1>2. /\ a \o c \in Seq(Row) /\ Len(a \o c) = Len(a) + Len(c)
      /\ \A i \in 1..(Len(a) + Len(c)) :
            (a \o c)[i] = IF i <= Len(a) THEN a[i] ELSE c[i - Len(a)]
  BY ConcatProperties
<1>3. /\ s \in Seq(Row) /\ Len(s) = Len(a) + Len(c) + Len(b)
      /\ \A i \in 1..(Len(a) + Len(c) + Len(b)) :
            s[i] = IF i <= Len(a) + Len(c) THEN (a \o c)[i] ELSE b[i - (Len(a) + Len(c))]
  BY <1>2, ConcatProperties
<1>4. /\ t \in Seq(Row) /\ Len(t) = Len(a) + Len(b)
      /\ \A i \in 1..(Len(a) + Len(b)) :
            t[i] = IF i <= Len(a) THEN a[i] ELSE b[i - Len(a)]
  BY ConcatProperties
<1>5. DOMAIN s = 1..(Len(a) + Len(c) + Len(b)) /\ DOMAIN t = 1..(Len(a) + Len(b))
  BY <1>1, <1>3, <1>4, LenProperties
<1>6. Increasing(s) /\ Bounded(s, m)
  OBVIOUS
<1> HIDE DEF s, t
<1>7. \A i \in DOMAIN t : at(i) \in DOMAIN s /\ t[i] = s[at(i)]
  <2> SUFFICES ASSUME NEW i \in 1..(Len(a) + Len(b))
               PROVE  at(i) \in DOMAIN s /\ t[i] = s[at(i)]
    BY <1>5
  <2>1. CASE i <= Len(a)
    <3>1. at(i) = i /\ i \in 1..(Len(a) + Len(c)) /\ i \in DOMAIN s
      BY <1>1, <1>5, <2>1
    <3>2. s[i] = a[i] /\ t[i] = a[i]
      BY <1>1, <1>2, <1>3, <1>4, <1>5, <2>1, <3>1
    <3>3. QED BY <3>1, <3>2
  <2>2. CASE i > Len(a)
    <3>1. at(i) = i + Len(c) /\ i + Len(c) \in DOMAIN s /\ i + Len(c) > Len(a) + Len(c)
      BY <1>1, <1>5, <2>2
    <3>2. s[i + Len(c)] = b[i + Len(c) - (Len(a) + Len(c))]
      BY <1>1, <1>3, <1>5, <3>1
    <3>3. i + Len(c) - (Len(a) + Len(c)) = i - Len(a)
      BY <1>1
    <3>4. t[i] = b[i - Len(a)]
      BY <1>1, <1>4, <2>2
    <3>5. QED BY <3>1, <3>2, <3>3, <3>4
  <2>3. QED BY <1>1, <2>1, <2>2
<1>8. Increasing(t)
  <2> SUFFICES ASSUME NEW i \in DOMAIN t, NEW j \in DOMAIN t, i < j
               PROVE  t[i].n < t[j].n
    BY DEF Increasing
  <2>1. at(i) < at(j)
    BY <1>1, <1>5
  <2>2. QED BY <1>6, <1>7, <2>1 DEF Increasing
<1>9. Bounded(t, m)
  BY <1>6, <1>7 DEF Bounded
<1>10. ASSUME NEW r \in RowsOf(c), r \in RowsOf(t) PROVE FALSE
  <2>1. PICK j \in 1..Len(c) : r = c[j]
    BY <1>1 DEF RowsOf
  <2>2. PICK i \in DOMAIN t : r = t[i]
    BY <1>10 DEF RowsOf
  <2>3. Len(a) + j \in DOMAIN s /\ r = s[Len(a) + j]
    <3>1. Len(a) + j \in DOMAIN s /\ Len(a) + j \in 1..(Len(a) + Len(c))
      BY <1>1, <1>5
    <3>2. s[Len(a) + j] = (a \o c)[Len(a) + j]
      BY <1>1, <1>3, <1>5, <3>1
    <3>3. (a \o c)[Len(a) + j] = c[Len(a) + j - Len(a)] /\ Len(a) + j - Len(a) = j
      BY <1>1, <1>2, <3>1
    <3>4. QED BY <2>1, <3>1, <3>2, <3>3
  <2>4. at(i) # Len(a) + j
    BY <1>1, <1>5, <2>1
  <2>5. at(i) \in DOMAIN s /\ r = s[at(i)]
    BY <1>7, <2>2
  <2>6. s[at(i)].n \in Nat
    BY <1>3, <2>5, RowNumber
  <2>7. at(i) < Len(a) + j \/ Len(a) + j < at(i)
    BY <1>1, <1>5, <2>4
  <2> HIDE DEF at
  <2>8. ASSUME NEW x \in DOMAIN s, NEW y \in DOMAIN s, x < y PROVE s[x].n < s[y].n
    BY <1>6, <2>8 DEF Increasing
  <2>9. s[at(i)].n = s[Len(a) + j].n
    BY <2>3, <2>5
  <2>10. ~(s[at(i)].n < s[at(i)].n)
    BY <2>6
  <2>11. CASE at(i) < Len(a) + j
    <3>1. s[at(i)].n < s[Len(a) + j].n
      BY <2>3, <2>5, <2>8, <2>11
    <3>2. QED BY <2>9, <2>10, <3>1
  <2>12. CASE Len(a) + j < at(i)
    <3>1. s[Len(a) + j].n < s[at(i)].n
      BY <2>3, <2>5, <2>8, <2>12
    <3>2. QED BY <2>9, <2>10, <3>1
  <2>13. QED BY <2>7, <2>11, <2>12
<1>11. QED BY <1>8, <1>9, <1>10 DEF t

\* The pipeline is a sequence of rows.
LEMMA PipelineTyped == TypeOK => Pipeline \in Seq(Row)
<1> SUFFICES ASSUME TypeOK PROVE Pipeline \in Seq(Row)
  OBVIOUS
<1>1. retry \o pending \in Seq(Row)
  BY ConcatProperties DEF TypeOK
<1>2. (retry \o pending) \o buffer \in Seq(Row)
  BY <1>1, ConcatProperties DEF TypeOK
<1>3. QED BY <1>2, ConcatProperties DEF TypeOK, Pipeline

\* The rows in memory are the rows of the pipeline.
LEMMA InFlightIsPipeline == TypeOK => InFlight = RowsOf(Pipeline)
<1> SUFFICES ASSUME TypeOK PROVE InFlight = RowsOf(Pipeline)
  OBVIOUS
<1>1. /\ retry \o pending \in Seq(Row)
      /\ RowsOf(retry \o pending) = RowsOf(retry) \cup RowsOf(pending)
  BY ConcatProperties, RowsOfConcat DEF TypeOK
<1>2. /\ (retry \o pending) \o buffer \in Seq(Row)
      /\ RowsOf((retry \o pending) \o buffer) = RowsOf(retry \o pending) \cup RowsOf(buffer)
  BY <1>1, ConcatProperties, RowsOfConcat DEF TypeOK
<1>3. RowsOf(Pipeline) = RowsOf((retry \o pending) \o buffer) \cup RowsOf(chan)
  BY <1>2, RowsOfConcat DEF TypeOK, Pipeline
<1>4. QED BY <1>1, <1>2, <1>3 DEF InFlight

\* Outside a flush nothing is pending or retained; in a flush the buffer is empty.
Shape == /\ pc = "flush" => buffer = <<>>
         /\ pc # "flush" => pending = <<>> /\ retry = <<>>

\* Concatenations with empty parts.
LEMMA EmptyParts ==
    ASSUME NEW s \in Seq(Row), NEW t \in Seq(Row)
    PROVE  /\ ((<<>> \o <<>>) \o s) \o t = s \o t
           /\ ((<<>> \o s) \o <<>>) \o t = s \o t
           /\ ((s \o <<>>) \o <<>>) \o t = s \o t
           /\ <<>> \o s = s
<1>1. <<>> \in Seq(Row)
  BY EmptySeq
<1>2. <<>> \o s = s /\ s \o <<>> = s
  BY ConcatEmptySeq
<1>3. <<>> \o <<>> = <<>>
  BY <1>1, ConcatEmptySeq
<1>4. QED BY <1>2, <1>3

\* Taking the oldest row out of the channel into the buffer.
LEMMA ShiftHead ==
    ASSUME NEW s \in Seq(Row), NEW t \in Seq(Row), t # <<>>
    PROVE  Append(s, Head(t)) \o Tail(t) = s \o t
<1>1. Head(t) \in Row /\ Tail(t) \in Seq(Row) /\ t = <<Head(t)>> \o Tail(t)
  BY HeadTailConcat
<1>2. Append(s, Head(t)) = s \o <<Head(t)>>
  BY <1>1, AppendIsConcat
<1>3. (s \o <<Head(t)>>) \o Tail(t) = s \o (<<Head(t)>> \o Tail(t))
  BY <1>1, RowsOfOne, RowsAssociative
<1>4. QED BY <1>1, <1>2, <1>3

\* Steps of the task other than an acknowledged insert move rows along only.
LEMMA QuietStep ==
    ASSUME TypeOK, Shape,
           Tick \/ Recv \/ RecvClosed \/ RetainChunk \/ FlushDone \/ DrainOne \/ DrainEnd
    PROVE  Pipeline' = Pipeline /\ Shape'
<1>1. ASSUME NEW why, StartFlush(buffer, why), pc # "flush", chan' = chan
      PROVE  Pipeline' = Pipeline /\ Shape'
  <2>1. Pipeline = buffer \o chan
    BY <1>1, EmptyParts DEF Pipeline, Shape, TypeOK
  <2>2. Pipeline' = ((<<>> \o buffer) \o <<>>) \o chan
    BY <1>1 DEF Pipeline, StartFlush
  <2>3. Pipeline' = Pipeline
    BY <2>1, <2>2, EmptyParts DEF TypeOK
  <2>4. QED BY <1>1, <2>3 DEF StartFlush, Shape
<1>2. ASSUME pc # "flush", chan # <<>>
      PROVE  /\ Append(buffer, Head(chan)) \in Seq(Row) /\ Tail(chan) \in Seq(Row)
             /\ Pipeline = Append(buffer, Head(chan)) \o Tail(chan)
  <2>1. Pipeline = buffer \o chan
    BY <1>2, EmptyParts DEF Pipeline, Shape, TypeOK
  <2>2. Head(chan) \in Row /\ Tail(chan) \in Seq(Row)
    BY <1>2, HeadTailProperties DEF TypeOK
  <2>3. Append(buffer, Head(chan)) \in Seq(Row)
    BY <2>2, AppendProperties DEF TypeOK
  <2>4. QED BY <1>2, <2>1, <2>2, <2>3, ShiftHead DEF TypeOK
<1>3. ASSUME pc # "flush", chan # <<>>, chan' = Tail(chan), pc' = pc,
             buffer' = Append(buffer, Head(chan)), UNCHANGED <<pending, retry>>
      PROVE  Pipeline' = Pipeline /\ Shape'
  <2>1. Pipeline' = ((<<>> \o <<>>) \o Append(buffer, Head(chan))) \o Tail(chan)
    BY <1>3 DEF Pipeline, Shape
  <2>2. Pipeline' = Pipeline
    BY <1>2, <1>3, <2>1, EmptyParts
  <2>3. QED BY <1>3, <2>2 DEF Shape
<1>4. CASE Tick
  <2>1. CASE buffer # <<>>
    BY <1>1, <1>4, <2>1 DEF Tick
  <2>2. CASE buffer = <<>>
    BY <1>4, <2>2 DEF Tick, Pipeline, Shape
  <2>3. QED BY <2>1, <2>2
<1>5. CASE Recv
  <2>1. CASE Len(Append(buffer, Head(chan))) = FlushAt
    <3>1. StartFlush(Append(buffer, Head(chan)), "size") /\ chan' = Tail(chan)
          /\ pc # "flush" /\ chan # <<>>
      BY <1>5, <2>1 DEF Recv
    <3>2. Pipeline' = ((<<>> \o Append(buffer, Head(chan))) \o <<>>) \o Tail(chan)
      BY <3>1 DEF Pipeline, StartFlush
    <3>3. Pipeline' = Pipeline
      BY <1>2, <3>1, <3>2, EmptyParts
    <3>4. QED BY <3>1, <3>3 DEF StartFlush, Shape
  <2>2. CASE Len(Append(buffer, Head(chan))) # FlushAt
    BY <1>3, <1>5, <2>2 DEF Recv
  <2>3. QED BY <2>1, <2>2
<1>6. CASE RecvClosed
  <2>1. CASE buffer # <<>>
    BY <1>1, <1>6, <2>1 DEF RecvClosed
  <2>2. CASE buffer = <<>>
    BY <1>6, <2>2 DEF RecvClosed, Pipeline, Shape
  <2>3. QED BY <2>1, <2>2
<1>7. CASE RetainChunk
  <2>1. /\ ThisChunk \in Seq(Row) /\ RestChunks \in Seq(Row)
        /\ pending = ThisChunk \o RestChunks
    BY <1>7, ChunkSplit DEF RetainChunk, TypeOK
  <2>2. (retry \o ThisChunk) \o RestChunks = retry \o pending
    <3>1. retry \in Seq(Row)
      BY DEF TypeOK
    <3>2. (retry \o ThisChunk) \o RestChunks = retry \o (ThisChunk \o RestChunks)
      BY <2>1, <3>1, RowsAssociative
    <3>3. QED BY <2>1, <3>2
  <2>3. Pipeline' = (((retry \o ThisChunk) \o RestChunks) \o buffer) \o chan
    BY <1>7 DEF RetainChunk, Pipeline
  <2>4. Pipeline' = Pipeline
    BY <2>2, <2>3 DEF Pipeline
  <2>5. QED BY <1>7, <2>4 DEF RetainChunk, Shape
<1>8. CASE FlushDone
  <2>1. pending = <<>> /\ buffer = <<>> /\ buffer' = <<>> \o retry
        /\ retry' = <<>> /\ pending' = <<>> /\ chan' = chan
    BY <1>8 DEF FlushDone, Shape
  <2>2. Pipeline = ((retry \o <<>>) \o <<>>) \o chan
    BY <2>1 DEF Pipeline
  <2>3. Pipeline' = ((<<>> \o <<>>) \o (<<>> \o retry)) \o chan
    BY <2>1 DEF Pipeline
  <2>4. Pipeline' = Pipeline
    BY <2>2, <2>3, EmptyParts DEF TypeOK
  <2>5. pc' # "flush"
    BY <1>8 DEF FlushDone, TypeOK
  <2>6. QED BY <2>1, <2>4, <2>5 DEF Shape
<1>9. CASE DrainOne
  BY <1>3, <1>9 DEF DrainOne
<1>10. CASE DrainEnd
  <2>1. CASE buffer # <<>>
    BY <1>1, <1>10, <2>1 DEF DrainEnd
  <2>2. CASE buffer = <<>>
    BY <1>10, <2>2 DEF DrainEnd, Pipeline, Shape
  <2>3. QED BY <2>1, <2>2
<1>11. QED BY <1>4, <1>5, <1>6, <1>7, <1>8, <1>9, <1>10

-----------------------------------------------------------------------------
(* The inductive invariant of the pipeline.  NoRowLost alone does not tell *)
(* that a new delivery is not settled yet, nor that an acknowledged chunk  *)
(* leaves memory for good: the numbers in memory are distinct because the  *)
(* pipeline is in order, and none is above the last number given out.  Nor *)
(* does it tell what is in memory when the task ends: Leaving does.        *)

\* The task is on its way out, or has gone.
Ending == pc \in {"drain", "end", "done"} \/ (pc = "flush" /\ ret \in {"close", "final"})

\* The task leaves after shutdown was signalled; once it has drained the
\* channel, what it holds is exposed; it loses nothing before it has gone.
Leaving == /\ Ending => ~running
           /\ ~senders => ~running
           /\ Drained => RowsOf(retry) \cup RowsOf(buffer) \cup RowsOf(chan) \subseteq exposed
           /\ pc # "done" => lost = {} /\ dropped = {}

PipelineInv == /\ Shape /\ Leaving
               /\ Increasing(Pipeline) /\ Bounded(Pipeline, sent)
               /\ \A r \in settled : r.n <= sent
               /\ NoRowLost

\* No step breaks Leaving.
LEMMA StepKeepsLeaving ==
    ASSUME TypeOK, Shape, Leaving, [Next]_vars
    PROVE  Leaving'
<1>1. RowsOf(<<>>) = {}
  BY DEF RowsOf
<1>2. ASSUME NEW k \in Keys, Send(k) PROVE Leaving'
  <2> DEFINE row == [key |-> k, n |-> sent + 1]
  <2>1. UNCHANGED <<buffer, retry, pc, ret, running, senders, lost>>
    BY <1>2 DEF Send, task
  <2>2. row \in Row
    BY <1>2, MaxSentAssumption DEF Send, TypeOK, Row
  <2>3. pc # "done" => /\ chan' = Append(chan, row) /\ dropped' = dropped
                       /\ exposed' = IF Drained THEN exposed \cup {row} ELSE exposed
    BY <1>2 DEF Send
  <2> HIDE DEF row
  <2>4. ASSUME Drained' PROVE RowsOf(retry') \cup RowsOf(buffer') \cup RowsOf(chan') \subseteq exposed'
    <3>1. Drained /\ pc # "done"
      BY <2>1, <2>4 DEF Drained
    <3>2. chan' = chan \o <<row>> /\ <<row>> \in Seq(Row) /\ RowsOf(<<row>>) = {row}
      BY <2>2, <2>3, <3>1, AppendIsConcat, RowsOfOne DEF TypeOK
    <3>3. RowsOf(chan \o <<row>>) = RowsOf(chan) \cup RowsOf(<<row>>)
      BY <3>2, RowsOfConcat DEF TypeOK
    <3>4. RowsOf(chan') = RowsOf(chan) \cup {row}
      BY <3>2, <3>3
    <3>5. exposed' = exposed \cup {row}
      BY <2>3, <3>1
    <3>6. QED BY <2>1, <3>1, <3>4, <3>5 DEF Leaving
  <2>5. QED BY <2>1, <2>3, <2>4 DEF Leaving, Ending, RowsOf
<1>3. CASE Tick \/ Recv \/ RecvClosed
  <2>1. /\ UNCHANGED <<running, senders, lost, dropped, exposed>>
        /\ pc = "select" /\ pc' \in {"select", "flush", "drain"}
        /\ pc' = "flush" => ret' \in {"tick", "size", "close"}
        /\ pc' = "drain" \/ (pc' = "flush" /\ ret' = "close") => ~running \/ ~senders
    BY <1>3 DEF Tick, Recv, RecvClosed, StartFlush, hist
  <2>2. QED BY <2>1 DEF Leaving, Ending, Drained
<1>4. CASE InsertOk
  <2>1. UNCHANGED <<chan, buffer, retry, pc, ret, running, senders, dropped, lost, exposed>>
    BY <1>4 DEF InsertOk
  <2>2. QED BY <2>1 DEF Leaving, Ending, Drained, RowsOf
<1>5. CASE InsertFails \/ InsertUnacked
  <2>1. /\ UNCHANGED <<chan, buffer, pc, ret, running, senders, dropped, lost>>
        /\ pc = "flush" /\ pending # <<>> /\ retry' = retry \o ThisChunk
        /\ exposed' = IF ret = "final" THEN exposed \cup RowsOf(ThisChunk) ELSE exposed
    BY <1>5 DEF InsertFails, InsertUnacked, RetainChunk
  <2>2. RowsOf(retry') = RowsOf(retry) \cup RowsOf(ThisChunk)
    <3>1. ThisChunk \in Seq(Row) /\ retry \in Seq(Row)
      BY <2>1, ChunkSplit DEF TypeOK
    <3>2. RowsOf(retry \o ThisChunk) = RowsOf(retry) \cup RowsOf(ThisChunk)
      BY <3>1, RowsOfConcat
    <3>3. QED BY <2>1, <3>2
  <2>3. ASSUME Drained' PROVE RowsOf(retry') \cup RowsOf(buffer') \cup RowsOf(chan') \subseteq exposed'
    <3>1. Drained /\ ret = "final"
      BY <2>1, <2>3 DEF Drained
    <3>2. QED BY <2>1, <2>2, <3>1 DEF Leaving
  <2>4. QED BY <2>1, <2>3 DEF Leaving, Ending, RowsOf
<1>6. CASE FlushDone
  <2>1. /\ UNCHANGED <<chan, ret, running, senders, dropped, lost, exposed>>
        /\ pc = "flush" /\ buffer = <<>> /\ buffer' = buffer \o retry /\ retry' = <<>>
        /\ pc' \in {"select", "drain", "end"}
        /\ pc' = "end" => ret = "final"
        /\ pc' = "drain" => ~running \/ ret = "close"
    BY <1>6 DEF FlushDone, Shape, TypeOK, hist
  <2>2. buffer' = retry
    BY <2>1, EmptyParts DEF TypeOK
  <2>3. ASSUME Drained' PROVE RowsOf(retry') \cup RowsOf(buffer') \cup RowsOf(chan') \subseteq exposed'
    BY <1>1, <2>1, <2>2, <2>3 DEF Drained, Leaving
  <2>4. QED BY <2>1, <2>3 DEF Leaving, Ending, Drained, RowsOf
<1>7. CASE DrainOne
  <2>1. UNCHANGED <<pc, ret, running, senders, dropped, lost, exposed>> /\ pc = "drain"
    BY <1>7 DEF DrainOne, hist
  <2>2. QED BY <2>1 DEF Leaving, Ending, Drained
<1>8. CASE DrainEnd
  <2>1. /\ UNCHANGED <<running, senders, dropped, lost, exposed>> /\ pc = "drain"
        /\ pc' \in {"flush", "end"} /\ buffer' = <<>> /\ chan' = <<>> /\ retry' = <<>>
    BY <1>8 DEF DrainEnd, StartFlush, Shape, hist
  <2>2. RowsOf(retry') \cup RowsOf(buffer') \cup RowsOf(chan') \subseteq exposed'
    BY <1>1, <2>1
  <2>3. QED BY <2>1, <2>2 DEF Leaving, Ending, RowsOf
<1>9. CASE TaskEnds
  BY <1>9 DEF TaskEnds, Leaving, Ending, Drained
<1>10. CASE StopRunning \/ DropSenders
  BY <1>10 DEF StopRunning, DropSenders, task, hist, Leaving, Ending, Drained, RowsOf
<1>11. CASE (\E h \in 1..MaxSent : Prune(h)) \/ UNCHANGED vars
  BY <1>11 DEF Prune, vars, task, hist, Leaving, Ending, Drained, RowsOf
<1>12. QED BY <1>2, <1>3, <1>4, <1>5, <1>6, <1>7, <1>8, <1>9, <1>10, <1>11
           DEF Next, Inserter, InsertChunk

\* A step that moves rows along, or does not touch them, keeps it.
LEMMA SameRows ==
    ASSUME TypeOK, TypeOK', PipelineInv, Shape', Leaving', Pipeline' = Pipeline,
           UNCHANGED <<sent, settled, dropped, lost>>, exposed \subseteq exposed'
    PROVE  PipelineInv'
<1>1. InFlight' = InFlight
  <2>1. InFlight = RowsOf(Pipeline)
    BY InFlightIsPipeline
  <2>2. InFlight' = RowsOf(Pipeline')
    <3>1. (TypeOK => InFlight = RowsOf(Pipeline))'
      BY InFlightIsPipeline, PTL
    <3>2. QED BY <3>1 DEF RowsOf
  <2>3. QED BY <2>1, <2>2
<1>2. NoRowLost'
  BY <1>1 DEF PipelineInv, NoRowLost, Leaving, Ending
<1>3. Increasing(Pipeline') /\ Bounded(Pipeline', sent')
  BY DEF PipelineInv
<1>4. QED BY <1>2, <1>3 DEF PipelineInv, Increasing, Bounded

\* A row put into the channel is the last of the pipeline.
LEMMA SendAppends ==
    ASSUME TypeOK, NEW row \in Row, chan' = Append(chan, row), UNCHANGED <<buffer, pending, retry>>
    PROVE  Pipeline' = Append(Pipeline, row)
<1> DEFINE front == (retry \o pending) \o buffer
<1>1. front \in Seq(Row) /\ chan \in Seq(Row)
  <2>1. retry \o pending \in Seq(Row)
    BY ConcatProperties DEF TypeOK
  <2>2. QED BY <2>1, ConcatProperties DEF TypeOK
<1>2. Append(chan, row) = chan \o <<row>> /\ <<row>> \in Seq(Row)
  BY <1>1, AppendIsConcat, RowsOfOne
<1>3. Pipeline' = front \o Append(chan, row) /\ Pipeline = front \o chan
  BY DEF Pipeline
<1> HIDE DEF front
<1>4. front \o (chan \o <<row>>) = (front \o chan) \o <<row>>
  BY <1>1, <1>2, RowsAssociative
<1>5. Pipeline' = Pipeline \o <<row>>
  BY <1>2, <1>3, <1>4
<1>6. QED BY <1>5, PipelineTyped, AppendIsConcat

\* A delivery: it enters the channel, or is dropped when the task has ended.
LEMMA SendKeeps ==
    ASSUME TypeOK, TypeOK', PipelineInv, Leaving', NEW k \in Keys, Send(k)
    PROVE  PipelineInv'
<1> DEFINE row == [key |-> k, n |-> sent + 1]
<1>1. /\ row \in Row /\ row.n = sent + 1 /\ sent \in Nat /\ sent' = sent + 1
  BY MaxSentAssumption DEF Send, TypeOK, Row
<1>2. UNCHANGED <<buffer, pending, retry, pc, settled, lost>> /\ exposed \subseteq exposed'
  BY DEF Send, task
<1>3. InFlight = RowsOf(Pipeline) /\ Pipeline \in Seq(Row)
  BY InFlightIsPipeline, PipelineTyped
<1>4. \A r \in settled : r.n <= sent' /\ r.n # sent + 1
  <2>1. \A r \in settled : r.n \in Nat /\ r.n <= sent
    BY MaxSentAssumption DEF PipelineInv, TypeOK, Row
  <2>2. QED BY <1>1, <2>1
<1>5. Shape'
  BY <1>2 DEF PipelineInv, Shape
<1>6. \A i \in 1..(sent + 1) : i \in 1..sent \/ i = sent + 1
  BY <1>1
<1>7. CASE pc # "done" /\ chan' = Append(chan, row) /\ dropped' = dropped
  <2>1. Pipeline' = Append(Pipeline, row)
    BY <1>1, <1>2, <1>7, SendAppends
  <2>2. Pipeline' = Pipeline \o <<row>> /\ <<row>> \in Seq(Row)
    BY <1>1, <1>3, <2>1, AppendIsConcat, RowsOfOne
  <2>3. RowsOf(Pipeline') = RowsOf(Pipeline) \cup {row}
    <3>1. RowsOf(Pipeline \o <<row>>) = RowsOf(Pipeline) \cup RowsOf(<<row>>)
      BY <1>3, <2>2, RowsOfConcat
    <3>2. QED BY <1>1, <2>2, <3>1, RowsOfOne
  <2>4. InFlight' = InFlight \cup {row}
    <3>1. (TypeOK => InFlight = RowsOf(Pipeline))'
      BY InFlightIsPipeline, PTL
    <3>2. InFlight' = RowsOf(Pipeline')
      BY <3>1 DEF RowsOf
    <3>3. QED BY <1>3, <2>3, <3>2
  <2>5. Increasing(Pipeline') /\ Bounded(Pipeline', sent')
    <3>1. Increasing(Append(Pipeline, row)) /\ Bounded(Append(Pipeline, row), sent + 1)
      BY <1>1, <1>3, AppendIncreasing DEF PipelineInv
    <3>2. QED BY <1>1, <2>1, <3>1
  <2> HIDE DEF row
  <2>6. /\ dropped = {} /\ lost = {}
        /\ \A i \in 1..sent : \E r \in InFlight \cup settled : r.n = i
    BY <1>7 DEF PipelineInv, NoRowLost, Leaving
  <2>7. \A i \in 1..sent' : \E r \in InFlight' \cup settled' \cup dropped' \cup lost' : r.n = i
    <3> SUFFICES ASSUME NEW i \in 1..(sent + 1)
                 PROVE  \E r \in InFlight' \cup settled' \cup dropped' \cup lost' : r.n = i
      BY <1>1
    <3>1. CASE i \in 1..sent
      BY <1>2, <2>4, <2>6, <3>1
    <3>2. CASE i = sent + 1
      BY <1>1, <2>4, <3>2
    <3>3. QED BY <1>6, <3>1, <3>2
  <2>8. InFlight' \cap settled' = {}
    <3>1. row \notin settled /\ InFlight \cap settled = {}
      BY <1>1, <1>4 DEF PipelineInv, NoRowLost
    <3>2. QED BY <1>2, <2>4, <3>1
  <2>9. NoRowLost'
    BY <1>2, <1>7, <2>6, <2>7, <2>8 DEF NoRowLost
  <2>10. QED BY <1>2, <1>4, <1>5, <2>5, <2>9 DEF PipelineInv, Increasing, Bounded
<1>8. CASE pc = "done" /\ chan' = chan /\ dropped' = dropped \cup {row}
  <2>1. Pipeline' = Pipeline /\ InFlight' = InFlight
    BY <1>2, <1>8 DEF Pipeline, InFlight
  <2>2. Increasing(Pipeline') /\ Bounded(Pipeline', sent')
    <3>1. \A i \in DOMAIN Pipeline : Pipeline[i].n \in Nat
      BY <1>3, RowNumber
    <3>2. QED BY <1>1, <2>1, <3>1 DEF PipelineInv, Increasing, Bounded
  <2> HIDE DEF row
  <2>3. \A i \in 1..sent' : \E r \in InFlight' \cup settled' \cup dropped' \cup lost' : r.n = i
    <3> SUFFICES ASSUME NEW i \in 1..(sent + 1)
                 PROVE  \E r \in InFlight' \cup settled' \cup dropped' \cup lost' : r.n = i
      BY <1>1
    <3>1. CASE i \in 1..sent
      BY <1>2, <1>8, <2>1, <3>1 DEF PipelineInv, NoRowLost
    <3>2. CASE i = sent + 1
      BY <1>1, <1>8, <3>2
    <3>3. QED BY <1>6, <3>1, <3>2
  <2>4. NoRowLost'
    BY <1>2, <1>8, <2>1, <2>3 DEF PipelineInv, NoRowLost, Leaving, Ending
  <2>5. QED BY <1>2, <1>4, <1>5, <2>2, <2>4 DEF PipelineInv, Increasing, Bounded
<1>9. QED BY <1>7, <1>8 DEF Send

\* The chunk a flush tries, in the pipeline.
LEMMA ChunkInPipeline ==
    ASSUME TypeOK, PipelineInv, pc = "flush", pending # <<>>
    PROVE  /\ ThisChunk \in Seq(Row) /\ RestChunks \o chan \in Seq(Row)
           /\ Pipeline = (retry \o ThisChunk) \o (RestChunks \o chan)
           /\ RowsOf(ThisChunk) \subseteq InFlight
<1>1. /\ ThisChunk \in Seq(Row) /\ RestChunks \in Seq(Row)
      /\ pending = ThisChunk \o RestChunks
  BY ChunkSplit DEF TypeOK
<1>2. retry \in Seq(Row) /\ chan \in Seq(Row) /\ buffer = <<>>
  BY DEF TypeOK, PipelineInv, Shape
<1>3. RestChunks \o chan \in Seq(Row)
  BY <1>1, <1>2, ConcatProperties
<1>4. Pipeline = (retry \o ThisChunk) \o (RestChunks \o chan)
  <2>1. pending \o <<>> = pending /\ retry \o pending \in Seq(Row)
    BY ConcatEmptySeq, ConcatProperties DEF TypeOK
  <2>2. (retry \o pending) \o <<>> = retry \o pending
    BY <2>1, ConcatEmptySeq
  <2>3. Pipeline = (retry \o pending) \o chan
    BY <1>2, <2>2 DEF Pipeline
  <2>4. retry \o pending = (retry \o ThisChunk) \o RestChunks
    <3>1. retry \o (ThisChunk \o RestChunks) = (retry \o ThisChunk) \o RestChunks
      BY <1>1, <1>2, RowsAssociative
    <3>2. QED BY <1>1, <3>1
  <2>5. retry \o ThisChunk \in Seq(Row)
    BY <1>1, ConcatProperties DEF TypeOK
  <2>6. ((retry \o ThisChunk) \o RestChunks) \o chan = (retry \o ThisChunk) \o (RestChunks \o chan)
    BY <1>1, <1>2, <2>5, RowsAssociative
  <2>7. QED BY <2>3, <2>4, <2>6
<1>5. RowsOf(ThisChunk) \subseteq InFlight
  <2>1. RowsOf(pending) = RowsOf(ThisChunk) \cup RowsOf(RestChunks)
    BY <1>1, RowsOfConcat
  <2>2. QED BY <2>1 DEF InFlight
<1>6. QED BY <1>1, <1>3, <1>4, <1>5

\* An acknowledged chunk is cut out of the pipeline, and only it.
LEMMA AckCuts ==
    ASSUME TypeOK, TypeOK', PipelineInv, InsertOk
    PROVE  /\ Pipeline' = retry \o (RestChunks \o chan)
           /\ Increasing(Pipeline') /\ Bounded(Pipeline', sent)
           /\ InFlight' = InFlight \ RowsOf(ThisChunk)
<1>1. /\ UNCHANGED <<chan, retry, buffer>> /\ pending' = RestChunks
      /\ pc = "flush" /\ pending # <<>> /\ buffer = <<>>
  BY DEF InsertOk, PipelineInv, Shape
<1>2. /\ ThisChunk \in Seq(Row) /\ RestChunks \o chan \in Seq(Row)
      /\ Pipeline = (retry \o ThisChunk) \o (RestChunks \o chan)
  BY <1>1, ChunkInPipeline
<1>3. retry \in Seq(Row) /\ chan \in Seq(Row) /\ RestChunks \in Seq(Row) /\ sent \in Nat
  BY <1>1, ChunkSplit, MaxSentAssumption DEF TypeOK
<1> DEFINE rest == RestChunks \o chan
<1>4. Pipeline' = retry \o rest
  <2>1. retry \o RestChunks \in Seq(Row)
    BY <1>3, ConcatProperties
  <2>2. (retry \o RestChunks) \o <<>> = retry \o RestChunks
    BY <2>1, ConcatEmptySeq
  <2>3. Pipeline' = ((retry \o RestChunks) \o <<>>) \o chan
    BY <1>1 DEF Pipeline
  <2>4. (retry \o RestChunks) \o chan = retry \o rest
    BY <1>3, RowsAssociative
  <2>5. QED BY <2>2, <2>3, <2>4
<1>5. rest \in Seq(Row)
  BY <1>2
<1>6. Pipeline = (retry \o ThisChunk) \o rest
  BY <1>2
<1> HIDE DEF rest
<1>7. /\ Increasing(retry \o rest) /\ Bounded(retry \o rest, sent)
      /\ RowsOf(ThisChunk) \cap RowsOf(retry \o rest) = {}
  <2>1. Increasing((retry \o ThisChunk) \o rest) /\ Bounded((retry \o ThisChunk) \o rest, sent)
    BY <1>6 DEF PipelineInv
  <2>2. QED BY <1>2, <1>3, <1>5, <2>1, CutIncreasing
<1>8. InFlight' = InFlight \ RowsOf(ThisChunk)
  <2>1. (TypeOK => InFlight = RowsOf(Pipeline))'
    BY InFlightIsPipeline, PTL
  <2>2. InFlight' = RowsOf(Pipeline')
    BY <2>1 DEF RowsOf
  <2>3. InFlight = RowsOf((retry \o ThisChunk) \o rest)
    BY <1>6, InFlightIsPipeline
  <2>4. retry \o ThisChunk \in Seq(Row)
    BY <1>2, <1>3, ConcatProperties
  <2>5. /\ RowsOf((retry \o ThisChunk) \o rest) = RowsOf(retry \o ThisChunk) \cup RowsOf(rest)
        /\ RowsOf(retry \o ThisChunk) = RowsOf(retry) \cup RowsOf(ThisChunk)
        /\ RowsOf(retry \o rest) = RowsOf(retry) \cup RowsOf(rest)
    BY <1>2, <1>3, <1>5, <2>4, RowsOfConcat
  <2>6. QED BY <1>4, <1>7, <2>2, <2>3, <2>5
<1>9. QED BY <1>4, <1>7, <1>8 DEF rest

\* An acknowledged chunk leaves memory and is settled, both in one step.
LEMMA AckKeeps ==
    ASSUME TypeOK, TypeOK', PipelineInv, Leaving', InsertOk
    PROVE  PipelineInv'
<1>1. /\ UNCHANGED <<buffer, retry, pc, sent, dropped, lost, exposed>> /\ pending' = RestChunks
      /\ settled' = settled \cup RowsOf(ThisChunk) /\ pc = "flush" /\ pending # <<>>
  BY DEF InsertOk
<1>2. RowsOf(ThisChunk) \subseteq InFlight
  BY <1>1, ChunkInPipeline
<1>3. InFlight' = InFlight \ RowsOf(ThisChunk) /\ Increasing(Pipeline') /\ Bounded(Pipeline', sent)
  BY AckCuts
<1>4. \A r \in settled' : r.n <= sent'
  <2>1. \A r \in InFlight : r.n <= sent
    BY InFlightIsPipeline DEF PipelineInv, Bounded, RowsOf
  <2>2. QED BY <1>1, <1>2, <2>1 DEF PipelineInv
<1>5. NoRowLost'
  <2>1. InFlight' \cup settled' \cup dropped' \cup lost' = InFlight \cup settled \cup dropped \cup lost
    BY <1>1, <1>2, <1>3
  <2>2. (InFlight' \cup lost') \cap settled' = {} /\ dropped' \cup lost' = {}
    BY <1>1, <1>3 DEF PipelineInv, NoRowLost, Leaving
  <2>3. QED BY <1>1, <2>1, <2>2 DEF PipelineInv, NoRowLost
<1>6. Shape'
  BY <1>1 DEF PipelineInv, Shape
<1>7. QED BY <1>1, <1>3, <1>4, <1>5, <1>6 DEF PipelineInv, Increasing, Bounded

\* The end of the task takes with it what it holds and what is in the channel.
LEMMA EndKeeps ==
    ASSUME TypeOK, PipelineInv, Leaving', TaskEnds
    PROVE  /\ PipelineInv' /\ Pipeline' = <<>> /\ InFlight' = {}
           /\ Drained /\ ~running
<1>1. /\ chan' = <<>> /\ buffer' = <<>> /\ pending' = <<>> /\ retry' = <<>>
      /\ pending = <<>> /\ retry = <<>> /\ pc = "end" /\ pc' = "done"
      /\ lost' = RowsOf(buffer) \cup RowsOf(chan)
      /\ UNCHANGED <<running, sent, settled, dropped, exposed>>
  BY DEF TaskEnds, PipelineInv, Shape
<1>2. <<>> \o <<>> = <<>> /\ RowsOf(<<>>) = {}
  <2>1. <<>> \in Seq(Row)
    BY EmptySeq
  <2>2. QED BY <2>1, ConcatEmptySeq DEF RowsOf
<1>3. Pipeline' = <<>> /\ InFlight' = {} /\ lost' = InFlight
  BY <1>1, <1>2 DEF Pipeline, InFlight, RowsOf
<1>4. Drained /\ ~running /\ lost' \subseteq exposed /\ lost = {} /\ dropped = {}
  BY <1>1 DEF Drained, PipelineInv, Leaving, Ending
<1>5. NoRowLost'
  <2>1. InFlight' \cup settled' \cup dropped' \cup lost' = InFlight \cup settled \cup dropped \cup lost
    BY <1>1, <1>3, <1>4
  <2>2. (InFlight' \cup lost') \cap settled' = {}
    BY <1>1, <1>3 DEF PipelineInv, NoRowLost
  <2>3. QED BY <1>1, <1>4, <2>1, <2>2 DEF PipelineInv, NoRowLost
<1>6. Shape' /\ \A r \in settled' : r.n <= sent'
  BY <1>1 DEF PipelineInv, Shape
<1>7. QED BY <1>3, <1>4, <1>5, <1>6 DEF PipelineInv, Increasing, Bounded

\* The invariant is inductive.
THEOREM PipelineInductive == Spec => [](TypeOK /\ PipelineInv)
<1>1. Init => PipelineInv
  <2> SUFFICES ASSUME Init PROVE PipelineInv
    OBVIOUS
  <2>1. Pipeline = <<>> /\ InFlight = {}
    <3>1. <<>> \in Seq(Row)
      BY EmptySeq
    <3>2. <<>> \o <<>> = <<>>
      BY <3>1, ConcatEmptySeq
    <3>3. RowsOf(<<>>) = {}
      BY DEF RowsOf
    <3>4. QED BY <3>2, <3>3 DEF Init, Pipeline, InFlight
  <2>2. Increasing(<<>>) /\ Bounded(<<>>, sent)
    BY DEF Increasing, Bounded
  <2>3. NoRowLost
    BY <2>1 DEF Init, NoRowLost
  <2>4. Leaving
    BY DEF Init, Leaving, Ending, Drained
  <2>5. QED BY <2>1, <2>2, <2>3, <2>4 DEF Init, PipelineInv, Shape
<1>2. TypeOK /\ TypeOK' /\ PipelineInv /\ [Next]_vars => PipelineInv'
  <2> SUFFICES ASSUME TypeOK, TypeOK', PipelineInv, [Next]_vars PROVE PipelineInv'
    OBVIOUS
  <2>1. Leaving'
    BY StepKeepsLeaving DEF PipelineInv
  <2>2. ASSUME NEW k \in Keys, Send(k) PROVE PipelineInv'
    BY <2>1, <2>2, SendKeeps
  <2>3. CASE InsertOk
    BY <2>1, <2>3, AckKeeps
  <2>4. CASE Tick \/ Recv \/ RecvClosed \/ InsertFails \/ InsertUnacked
             \/ FlushDone \/ DrainOne \/ DrainEnd
    <3>1. Tick \/ Recv \/ RecvClosed \/ RetainChunk \/ FlushDone \/ DrainOne \/ DrainEnd
      BY <2>4 DEF InsertFails, InsertUnacked
    <3>2. Pipeline' = Pipeline /\ Shape'
      BY <3>1, QuietStep DEF PipelineInv
    <3>3. UNCHANGED <<sent, settled, dropped, lost>> /\ exposed \subseteq exposed'
      BY <3>1 DEF Tick, Recv, RecvClosed, RetainChunk, FlushDone, DrainOne, DrainEnd, hist
    <3>4. QED BY <2>1, <3>2, <3>3, SameRows
  <2>5. CASE TaskEnds
    BY <2>1, <2>5, EndKeeps
  <2>6. CASE StopRunning \/ DropSenders \/ (\E h \in 1..MaxSent : Prune(h)) \/ UNCHANGED vars
    <3>1. UNCHANGED <<chan, buffer, pending, retry, pc, sent, settled, dropped, lost, exposed>>
      BY <2>6 DEF StopRunning, DropSenders, Prune, vars, task, hist
    <3>2. Pipeline' = Pipeline /\ Shape'
      BY <3>1 DEF Pipeline, Shape, PipelineInv
    <3>3. QED BY <2>1, <3>1, <3>2, SameRows
  <2>7. QED BY <2>2, <2>3, <2>4, <2>5, <2>6 DEF Next, Inserter, InsertChunk
<1>3. QED BY <1>1, <1>2, TypeCorrect, PTL DEF Spec

(* While the task lives, every delivery handed to send() is in memory or   *)
(* covered by an acknowledged upsert, whatever fails and in whatever       *)
(* order.  A task that ends does so after shutdown was signalled, and      *)
(* loses only rows that came after its drain or that its last flush failed *)
(* to write; a send() to a task that has ended is dropped.                 *)
THEOREM NoRowLostCorrect == Spec => []NoRowLost
<1>1. PipelineInv => NoRowLost
  BY DEF PipelineInv
<1>2. QED BY <1>1, PipelineInductive, PTL

(* The rows in memory stay in delivery order across failed chunks, which   *)
(* flush_buffer retains and puts back before the rows received since.      *)
THEOREM PipelineOrderedCorrect == Spec => []PipelineOrdered
<1>1. PipelineInv => PipelineOrdered
  BY DEF PipelineInv, PipelineOrdered, Increasing
<1>2. QED BY <1>1, PipelineInductive, PTL

-----------------------------------------------------------------------------
(* The statement against its definition in TradeStore.                     *)

\* A key that occurs in a sequence of rows has a last row there.
LEMMA LastIndex ==
    ASSUME NEW s \in Seq(Row), NEW k, \E i \in DOMAIN s : s[i].key = k
    PROVE  \E i \in DOMAIN s : s[i].key = k /\ \A l \in DOMAIN s : l > i => s[l].key # k
<1> DEFINE T == {d \in Nat : \E i \in DOMAIN s : s[i].key = k /\ d = Len(s) - i}
<1>1. DOMAIN s = 1..Len(s) /\ Len(s) \in Nat
  BY LenProperties
<1>2. T \subseteq Nat /\ T # {}
  <2>1. PICK i \in 1..Len(s) : s[i].key = k
    BY <1>1
  <2>2. Len(s) - i \in T
    BY <1>1, <2>1
  <2>3. QED BY <2>2
<1>3. PICK d \in T : \A e \in T : ~(<<e, d>> \in OpToRel(<, Nat))
  BY <1>2, NatLessThanWellFounded, WFMin
<1>4. \A e \in T : ~(e < d)
  BY <1>2, <1>3 DEF OpToRel
<1>5. PICK i \in 1..Len(s) : s[i].key = k /\ d = Len(s) - i
  BY <1>1
<1>6. ASSUME NEW l \in 1..Len(s), l > i, s[l].key = k PROVE FALSE
  <2>1. Len(s) - l \in T /\ Len(s) - l < d
    BY <1>1, <1>5, <1>6
  <2>2. QED BY <1>4, <2>1
<1>7. QED BY <1>1, <1>5, <1>6

\* In delivery order, the last row of a key is its latest delivery.
LEMMA LastIsLatest ==
    ASSUME NEW s \in Seq(Row), Increasing(s)
    PROVE  LastOfKey(s) = Store!Latest(RowsOf(s))
<1>1. DOMAIN s = 1..Len(s) /\ Len(s) \in Nat /\ \A i \in DOMAIN s : s[i].n \in Nat
  BY LenProperties, RowNumber
<1>2. ASSUME NEW r \in LastOfKey(s) PROVE r \in Store!Latest(RowsOf(s))
  <2>1. PICK i \in DOMAIN s : r = s[i] /\ \A l \in DOMAIN s : l > i => s[l].key # s[i].key
    BY DEF LastOfKey
  <2>2. ASSUME NEW q \in RowsOf(s), q.key = r.key PROVE q.n <= r.n
    <3>1. PICK l \in DOMAIN s : q = s[l]
      BY DEF RowsOf
    <3>2. l = i \/ l < i
      BY <1>1, <2>1, <2>2, <3>1
    <3>3. QED BY <1>1, <2>1, <3>1, <3>2 DEF Increasing
  <2>3. QED BY <2>1, <2>2 DEF RowsOf, Store!Latest
<1>3. ASSUME NEW r \in Store!Latest(RowsOf(s)) PROVE r \in LastOfKey(s)
  <2>1. PICK i \in DOMAIN s : r = s[i]
    BY DEF RowsOf, Store!Latest
  <2>2. ASSUME NEW l \in DOMAIN s, l > i, s[l].key = s[i].key PROVE FALSE
    <3>1. s[i].n < s[l].n
      BY <1>1, <2>2 DEF Increasing
    <3>2. s[l].n <= s[i].n
      BY <2>1, <2>2 DEF RowsOf, Store!Latest
    <3>3. QED BY <1>1, <3>1, <3>2
  <2>3. QED BY <2>1, <2>2 DEF LastOfKey
<1>4. QED BY <1>2, <1>3

\* The upsert of a chunk in delivery order is the one TradeStore describes.
LEMMA UpsertIsStores ==
    ASSUME NEW s \in Seq(Row), Increasing(s), NEW t
    PROVE  Upsert(t, s) = Store!Upserted(t, RowsOf(s))
<1>1. LastOfKey(s) = Store!Latest(RowsOf(s))
  BY LastIsLatest
<1>2. ASSUME NEW k \in Keys
      PROVE  (\E r \in LastOfKey(s) : r.key = k) <=> (\E r \in RowsOf(s) : r.key = k)
  <2>1. LastOfKey(s) \subseteq RowsOf(s)
    BY DEF LastOfKey, RowsOf
  <2>2. ASSUME NEW r \in RowsOf(s), r.key = k PROVE \E q \in LastOfKey(s) : q.key = k
    <3>1. \E i \in DOMAIN s : s[i].key = k
      BY <2>2 DEF RowsOf
    <3>2. PICK i \in DOMAIN s : s[i].key = k /\ \A l \in DOMAIN s : l > i => s[l].key # k
      BY <3>1, LastIndex
    <3>3. s[i] \in LastOfKey(s)
      BY <3>2 DEF LastOfKey
    <3>4. QED BY <3>2, <3>3
  <2>3. QED BY <2>1, <2>2
<1>3. QED BY <1>1, <1>2 DEF Upsert, Store!Upserted

\* A part of an increasing sequence is increasing, and before what follows it.
LEMMA PartIncreasing ==
    ASSUME NEW a \in Seq(Row), NEW c \in Seq(Row), NEW b \in Seq(Row),
           Increasing((a \o c) \o b)
    PROVE  /\ Increasing(c)
           /\ \A x \in RowsOf(c), y \in RowsOf(b) : x.n < y.n
<1> DEFINE s == (a \o c) \o b
<1>1. /\ Len(a) \in Nat /\ Len(b) \in Nat /\ Len(c) \in Nat
      /\ DOMAIN c = 1..Len(c) /\ DOMAIN b = 1..Len(b)
  BY LenProperties
<1>2. /\ a \o c \in Seq(Row) /\ Len(a \o c) = Len(a) + Len(c)
      /\ \A i \in 1..(Len(a) + Len(c)) :
            (a \o c)[i] = IF i <= Len(a) THEN a[i] ELSE c[i - Len(a)]
  BY ConcatProperties
<1>3. /\ s \in Seq(Row) /\ Len(s) = Len(a) + Len(c) + Len(b)
      /\ \A i \in 1..(Len(a) + Len(c) + Len(b)) :
            s[i] = IF i <= Len(a) + Len(c) THEN (a \o c)[i] ELSE b[i - (Len(a) + Len(c))]
  BY <1>2, ConcatProperties
<1>4. DOMAIN s = 1..(Len(a) + Len(c) + Len(b)) /\ Increasing(s)
  BY <1>1, <1>3, LenProperties
<1> HIDE DEF s
<1>5. ASSUME NEW j \in 1..Len(c)
      PROVE  Len(a) + j \in DOMAIN s /\ s[Len(a) + j] = c[j]
  <2>1. Len(a) + j \in 1..(Len(a) + Len(c)) /\ Len(a) + j \in DOMAIN s
    BY <1>1, <1>4
  <2>2. s[Len(a) + j] = (a \o c)[Len(a) + j]
    BY <1>1, <1>3, <1>4, <2>1
  <2>3. (a \o c)[Len(a) + j] = c[Len(a) + j - Len(a)] /\ Len(a) + j - Len(a) = j
    BY <1>1, <1>2, <2>1
  <2>4. QED BY <2>1, <2>2, <2>3
<1>6. ASSUME NEW i \in 1..Len(b)
      PROVE  Len(a) + Len(c) + i \in DOMAIN s /\ s[Len(a) + Len(c) + i] = b[i]
  <2>1. Len(a) + Len(c) + i \in DOMAIN s /\ Len(a) + Len(c) + i > Len(a) + Len(c)
    BY <1>1, <1>4
  <2>2. s[Len(a) + Len(c) + i] = b[Len(a) + Len(c) + i - (Len(a) + Len(c))]
    BY <1>1, <1>3, <1>4, <2>1
  <2>3. Len(a) + Len(c) + i - (Len(a) + Len(c)) = i
    BY <1>1
  <2>4. QED BY <2>1, <2>2, <2>3
<1>7. ASSUME NEW i \in 1..Len(c), NEW j \in 1..Len(c), i < j PROVE c[i].n < c[j].n
  <2>1. Len(a) + i < Len(a) + j
    BY <1>1, <1>7
  <2>2. s[Len(a) + i].n < s[Len(a) + j].n
    BY <1>4, <1>5, <2>1 DEF Increasing
  <2>3. QED BY <1>5, <2>2
<1>8. ASSUME NEW j \in 1..Len(c), NEW i \in 1..Len(b) PROVE c[j].n < b[i].n
  <2>1. Len(a) + j < Len(a) + Len(c) + i
    BY <1>1
  <2>2. s[Len(a) + j].n < s[Len(a) + Len(c) + i].n
    BY <1>4, <1>5, <1>6, <2>1 DEF Increasing
  <2>3. QED BY <1>5, <1>6, <2>2
<1>9. QED BY <1>1, <1>7, <1>8 DEF Increasing, RowsOf

\* An applied statement upserts what TradeStore says of its rows.
LEMMA AppliedIsStores ==
    ASSUME TypeOK, PipelineInv, pc = "flush", pending # <<>>, Applied
    PROVE  /\ RowsOf(ThisChunk) \subseteq InFlight
           /\ table' = Store!Upserted(table, RowsOf(ThisChunk))
<1>1. /\ ThisChunk \in Seq(Row) /\ RestChunks \o chan \in Seq(Row)
      /\ Pipeline = (retry \o ThisChunk) \o (RestChunks \o chan)
      /\ RowsOf(ThisChunk) \subseteq InFlight
  BY ChunkInPipeline
<1>2. Increasing(ThisChunk)
  <2>1. retry \in Seq(Row) /\ Increasing((retry \o ThisChunk) \o (RestChunks \o chan))
    BY <1>1 DEF TypeOK, PipelineInv
  <2>2. QED BY <1>1, <2>1, PartIncreasing
<1>3. Upsert(table, ThisChunk) = Store!Upserted(table, RowsOf(ThisChunk))
  BY <1>1, <1>2, UpsertIsStores
<1>4. QED BY <1>1, <1>3 DEF Applied

-----------------------------------------------------------------------------
(* The refinement: the rows in memory are the outstanding rows.            *)

\* Moving rows along leaves them outstanding.
LEMMA QuietInFlight ==
    ASSUME TypeOK, TypeOK', Pipeline' = Pipeline
    PROVE  InFlight' = InFlight
<1>1. InFlight = RowsOf(Pipeline)
  BY InFlightIsPipeline
<1>2. (TypeOK => InFlight = RowsOf(Pipeline))'
  BY InFlightIsPipeline, PTL
<1>3. InFlight' = RowsOf(Pipeline')
  BY <1>2 DEF RowsOf
<1>4. QED BY <1>1, <1>3

\* The phase of the store, as BatchInserter maps it.
Phase == IF pc = "done" THEN "ended" ELSE IF running THEN "running" ELSE "stopping"

\* Every step of the inserter is a step of the store or leaves it unchanged.
LEMMA StepIsStores ==
    ASSUME TypeOK, TypeOK', PipelineInv, [Next]_vars
    PROVE  Store!Next \/ UNCHANGED <<InFlight, table, Phase>>
<1>1. ASSUME NEW k \in Keys, Send(k) PROVE Store!Next \/ UNCHANGED <<InFlight, table, Phase>>
  <2> DEFINE row == [key |-> k, n |-> sent + 1]
  <2>1. row \in Row /\ UNCHANGED <<buffer, pending, retry, table, pc, running>>
    BY <1>1, MaxSentAssumption DEF Send, TypeOK, Row, task, db
  <2>2. (pc # "done" /\ chan' = Append(chan, row)) \/ chan' = chan
    BY <1>1 DEF Send
  <2> HIDE DEF row
  <2>3. CASE pc # "done" /\ chan' = Append(chan, row)
    <3>1. chan' = chan \o <<row>> /\ <<row>> \in Seq(Row) /\ RowsOf(<<row>>) = {row}
      BY <2>1, <2>3, AppendIsConcat, RowsOfOne DEF TypeOK
    <3>2. RowsOf(chan') = RowsOf(chan) \cup {row}
      <4>1. chan \in Seq(Row)
        BY DEF TypeOK
      <4>2. RowsOf(chan \o <<row>>) = RowsOf(chan) \cup RowsOf(<<row>>)
        BY <3>1, <4>1, RowsOfConcat
      <4>3. QED BY <3>1, <4>2
    <3>3. InFlight' = RowsOf(chan') \cup RowsOf(buffer) \cup RowsOf(pending) \cup RowsOf(retry)
      BY <2>1 DEF InFlight, RowsOf
    <3>4. InFlight' = InFlight \cup {row}
      BY <3>2, <3>3 DEF InFlight
    <3>5. Store!Accept(row)
      BY <2>1, <2>3, <3>4 DEF Store!Accept
    <3>6. QED BY <2>1, <3>5 DEF Store!Next
  <2>4. CASE chan' = chan
    BY <2>1, <2>4 DEF InFlight, Phase
  <2>5. QED BY <2>2, <2>3, <2>4
<1>2. CASE InsertOk
  <2>1. pc = "flush" /\ pending # <<>> /\ Applied /\ UNCHANGED <<pc, running>>
    BY <1>2 DEF InsertOk
  <2>2. Store!Persist(RowsOf(ThisChunk)) /\ RowsOf(ThisChunk) \in SUBSET InFlight
    BY <1>2, <2>1, AppliedIsStores, AckCuts DEF Store!Persist
  <2>3. QED BY <2>2 DEF Store!Next
<1>3. CASE InsertUnacked
  <2>1. /\ pc = "flush" /\ pending # <<>> /\ Applied /\ RetainChunk
        /\ UNCHANGED <<pc, running>>
    BY <1>3 DEF InsertUnacked, RetainChunk
  <2>2. InFlight' = InFlight
    BY <2>1, QuietStep, QuietInFlight DEF PipelineInv
  <2>3. Store!PersistUnacked(RowsOf(ThisChunk)) /\ RowsOf(ThisChunk) \in SUBSET InFlight
    BY <2>1, <2>2, AppliedIsStores DEF Store!PersistUnacked
  <2>4. QED BY <2>3 DEF Store!Next
<1>4. CASE Tick \/ Recv \/ RecvClosed \/ InsertFails \/ FlushDone \/ DrainOne \/ DrainEnd
  <2>1. Tick \/ Recv \/ RecvClosed \/ RetainChunk \/ FlushDone \/ DrainOne \/ DrainEnd
    BY <1>4 DEF InsertFails
  <2>2. InFlight' = InFlight
    BY <2>1, QuietStep, QuietInFlight DEF PipelineInv
  <2>3. table' = table
    BY <1>4 DEF Tick, Recv, RecvClosed, InsertFails, FlushDone, DrainOne, DrainEnd, db
  <2>4. running' = running /\ pc # "done" /\ pc' # "done"
    BY <1>4 DEF Tick, Recv, RecvClosed, InsertFails, RetainChunk, FlushDone, DrainOne, DrainEnd,
                StartFlush, TypeOK
  <2>5. QED BY <2>2, <2>3, <2>4 DEF Phase
<1>5. CASE DropSenders \/ UNCHANGED vars
  BY <1>5 DEF DropSenders, vars, task, db, InFlight, Phase
<1>6. CASE StopRunning
  <2>1. running /\ ~running' /\ UNCHANGED <<chan, buffer, pending, retry, table, pc>>
    BY <1>6 DEF StopRunning, task, db
  <2>2. pc # "done" /\ InFlight' = InFlight
    BY <2>1 DEF PipelineInv, Leaving, Ending, InFlight
  <2>3. Store!Stop
    BY <2>1, <2>2 DEF Store!Stop
  <2>4. QED BY <2>3 DEF Store!Next
<1>7. CASE TaskEnds
  <2>1. pc = "end" /\ pc' = "done" /\ UNCHANGED <<running, table>>
    BY <1>7 DEF TaskEnds, db
  <2>2. ~running /\ InFlight' = {}
    BY <1>7, EndKeeps, StepKeepsLeaving DEF PipelineInv
  <2>3. Store!End
    BY <2>1, <2>2 DEF Store!End
  <2>4. QED BY <2>3 DEF Store!Next
<1>8. ASSUME NEW h \in 1..MaxSent, Prune(h) PROVE Store!Next
  <2> DEFINE K == {k \in Keys : table[k] # 0 /\ created[k] <= h}
  <2>1. table' = [k \in Keys |-> IF k \in K THEN 0 ELSE table[k]]
    BY <1>8 DEF Prune
  <2>2. InFlight' = InFlight /\ UNCHANGED <<pc, running>>
    BY <1>8 DEF Prune, task, InFlight
  <2>3. Store!Prune(K) /\ K \in SUBSET Keys
    BY <2>1, <2>2 DEF Store!Prune
  <2>4. QED BY <2>3 DEF Store!Next
<1>9. QED BY <1>1, <1>2, <1>3, <1>4, <1>5, <1>6, <1>7, <1>8 DEF Next, Inserter, InsertChunk

(* The inserter implements TradeStore: an accepted row stays outstanding   *)
(* until an acknowledged upsert contains it or the store has been told to  *)
(* stop and ends; the table changes only by upserting the latest           *)
(* deliveries of outstanding rows, or by pruning.                          *)
THEOREM StoreCorrect == Spec => ImplementsStore
<1>1. Init => Store!Init
  BY DEF Init, Store!Init, InFlight, RowsOf
<1>2. TypeOK /\ TypeOK' /\ PipelineInv /\ [Next]_vars => [Store!Next]_(Store!svars)
  BY StepIsStores DEF Store!svars, Phase
<1>3. QED BY <1>1, <1>2, TypeCorrect, PipelineInductive, PTL DEF Spec, ImplementsStore, Store!Spec

-----------------------------------------------------------------------------
(* Which delivery the table shows.  As long as no flush wrote a chunk      *)
(* after an earlier one had failed, the rows that were written without an  *)
(* acknowledgement are all in the first chunk that will be tried next, and *)
(* the rows that were written and have left memory are older than all that *)
(* are still there: the next statement cannot write an older delivery.     *)

\* A row in memory that was written is in the next first chunk.
Ahead == \A i \in DOMAIN Pipeline :
            Pipeline[i] \in written => i <= Chunk /\ i + Len(chan) <= Len(Pipeline)

\* A row that was written and left memory is older than those in memory.
Behind == \A r \in written \ RowsOf(Pipeline) : \A q \in RowsOf(Pipeline) : r.n < q.n

WrittenInv == /\ \A r \in written : r.n <= sent
              /\ ~split => LatestDeliveryWins /\ Ahead /\ Behind

\* A step that writes nothing and moves rows out of the channel only.
LEMMA QuietKeepsWritten ==
    ASSUME TypeOK, WrittenInv, Pipeline' = Pipeline, Len(chan') \in Nat, Len(chan') <= Len(chan),
           UNCHANGED <<written, split, sent>>,
           \A k \in Keys : table'[k] = table[k] \/ table'[k] = 0
    PROVE  WrittenInv'
<1>1. \A r \in written : r.n <= sent'
  BY DEF WrittenInv
<1>2. ASSUME ~split PROVE LatestDeliveryWins' /\ Ahead' /\ Behind'
  <2>1. LatestDeliveryWins /\ Ahead /\ Behind
    BY <1>2 DEF WrittenInv
  <2>2. \A r \in written : r.key \in Keys
    BY DEF TypeOK, Row
  <2>3. LatestDeliveryWins'
    BY <2>1, <2>2 DEF LatestDeliveryWins
  <2>4. Behind'
    BY <2>1 DEF Behind, RowsOf
  <2>5. Ahead'
    <3>1. DOMAIN Pipeline = 1..Len(Pipeline) /\ Len(Pipeline) \in Nat /\ Len(chan) \in Nat
      BY PipelineTyped, LenProperties DEF TypeOK
    <3>2. ASSUME NEW i \in DOMAIN Pipeline, Pipeline[i] \in written
          PROVE  i <= Chunk /\ i + Len(chan') <= Len(Pipeline)
      <4>1. i <= Chunk /\ i + Len(chan) <= Len(Pipeline) /\ i \in Nat
        BY <2>1, <3>1, <3>2 DEF Ahead
      <4>2. QED BY <3>1, <4>1
    <3>3. QED BY <3>2 DEF Ahead
  <2>6. QED BY <2>3, <2>4, <2>5
<1>3. QED BY <1>1, <1>2 DEF WrittenInv

\* A delivery is newer than everything written.
LEMMA SendKeepsWritten ==
    ASSUME TypeOK, TypeOK', PipelineInv, WrittenInv, NEW k \in Keys, Send(k)
    PROVE  WrittenInv'
<1> DEFINE row == [key |-> k, n |-> sent + 1]
<1>1. /\ row \in Row /\ row.n = sent + 1 /\ sent \in Nat /\ sent' = sent + 1
      /\ UNCHANGED <<buffer, pending, retry, table, written, split>>
  BY MaxSentAssumption DEF Send, TypeOK, Row, task, db
<1>2. chan' = Append(chan, row) \/ chan' = chan
  BY DEF Send
<1> HIDE DEF row
<1>3. \A r \in written : r.n \in Nat /\ r.n <= sent
  <2>1. \A r \in Row : r.n \in Nat
    BY MaxSentAssumption DEF Row
  <2>2. written \subseteq Row
    BY DEF TypeOK
  <2>3. \A r \in written : r.n <= sent
    BY DEF WrittenInv
  <2>4. QED BY <2>1, <2>2, <2>3
<1>4. row \notin written /\ \A r \in written : r.n < row.n /\ r.n <= sent'
  BY <1>1, <1>3
<1>5. CASE chan' = Append(chan, row)
  <2>1. Pipeline' = Append(Pipeline, row)
    BY <1>1, <1>5, SendAppends
  <2>2. /\ Len(Pipeline') = Len(Pipeline) + 1 /\ Pipeline'[Len(Pipeline) + 1] = row
        /\ \A i \in 1..Len(Pipeline) : Pipeline'[i] = Pipeline[i]
        /\ DOMAIN Pipeline = 1..Len(Pipeline) /\ Len(Pipeline) \in Nat
        /\ DOMAIN Pipeline' = 1..(Len(Pipeline) + 1)
    BY <1>1, <2>1, PipelineTyped, AppendProperties, LenProperties
  <2>3. Len(chan') = Len(chan) + 1 /\ Len(chan) \in Nat
    BY <1>1, <1>5, AppendProperties, LenProperties DEF TypeOK
  <2>4. RowsOf(Pipeline') \subseteq RowsOf(Pipeline) \cup {row} /\ RowsOf(Pipeline) \subseteq RowsOf(Pipeline')
    BY <2>2 DEF RowsOf
  <2>5. ASSUME ~split PROVE LatestDeliveryWins' /\ Ahead' /\ Behind'
    <3>1. LatestDeliveryWins /\ Ahead /\ Behind
      BY <2>5 DEF WrittenInv
    <3>2. LatestDeliveryWins'
      BY <1>1, <3>1 DEF LatestDeliveryWins
    <3>3. Ahead'
      <4>1. ASSUME NEW i \in DOMAIN Pipeline', Pipeline'[i] \in written
            PROVE  i <= Chunk /\ i + Len(chan') <= Len(Pipeline')
        <5>1. i # Len(Pipeline) + 1
          BY <1>4, <2>2, <4>1
        <5>2. i \in 1..Len(Pipeline) /\ Pipeline[i] \in written
          BY <2>2, <4>1, <5>1
        <5>3. i <= Chunk /\ i + Len(chan) <= Len(Pipeline)
          BY <2>2, <3>1, <5>2 DEF Ahead
        <5>4. QED BY <2>2, <2>3, <5>2, <5>3
      <4>2. QED BY <1>1, <4>1 DEF Ahead
    <3>4. Behind'
      <4>1. ASSUME NEW r \in written \ RowsOf(Pipeline'), NEW q \in RowsOf(Pipeline')
            PROVE  r.n < q.n
        BY <1>4, <2>4, <3>1 DEF Behind
      <4>2. QED BY <1>1, <4>1 DEF Behind, RowsOf
    <3>5. QED BY <3>2, <3>3, <3>4
  <2>6. QED BY <1>1, <1>4, <2>5 DEF WrittenInv
<1>6. CASE chan' = chan
  <2>1. Pipeline' = Pipeline
    BY <1>1, <1>6 DEF Pipeline
  <2>2. ASSUME ~split PROVE LatestDeliveryWins' /\ Ahead' /\ Behind'
    BY <1>1, <1>6, <2>1, <2>2 DEF WrittenInv, LatestDeliveryWins, Ahead, Behind, RowsOf
  <2>3. QED BY <1>1, <1>4, <2>2 DEF WrittenInv
<1>7. QED BY <1>2, <1>5, <1>6

\* The first chunk of a flush in the pipeline: the rows written before are in
\* it, or have left memory and are older.
LEMMA FirstChunk ==
    ASSUME TypeOK, PipelineInv, Ahead, Behind, pc = "flush", pending # <<>>, retry = <<>>
    PROVE  /\ ThisChunk \in Seq(Row) /\ RestChunks \o chan \in Seq(Row)
           /\ Pipeline = ThisChunk \o (RestChunks \o chan)
           /\ Len(ThisChunk) <= Chunk /\ Len(ThisChunk) + Len(chan) <= Len(Pipeline)
           /\ \A i \in DOMAIN Pipeline : Pipeline[i] \in written => i <= Len(ThisChunk)
           /\ \A r \in written \cap RowsOf(Pipeline) : r \in RowsOf(ThisChunk)
           /\ \A r \in written, q \in RowsOf(ThisChunk) : r \in RowsOf(ThisChunk) \/ r.n < q.n
<1>1. /\ ThisChunk \in Seq(Row) /\ RestChunks \o chan \in Seq(Row)
      /\ Pipeline = (retry \o ThisChunk) \o (RestChunks \o chan)
      /\ RowsOf(ThisChunk) \subseteq InFlight
  BY ChunkInPipeline
<1>2. Pipeline = ThisChunk \o (RestChunks \o chan)
  BY <1>1, EmptyParts
<1>3. Pipeline = pending \o chan /\ pending \in Seq(Row) /\ chan \in Seq(Row)
  BY EmptyParts DEF Pipeline, PipelineInv, Shape, TypeOK
<1>4. /\ Len(pending) \in Nat /\ Len(chan) \in Nat /\ Len(Pipeline) = Len(pending) + Len(chan)
      /\ DOMAIN Pipeline = 1..Len(Pipeline) /\ Chunk \in Nat
  BY <1>3, PipelineTyped, ConcatProperties, LenProperties, ChunkAssumption
<1>5. Len(ThisChunk) = IF Len(pending) < Chunk THEN Len(pending) ELSE Chunk
  BY <1>3, ChunkSplit
<1>6. ASSUME NEW i \in DOMAIN Pipeline, Pipeline[i] \in written PROVE i <= Len(ThisChunk)
  <2>1. i \in Nat /\ i <= Chunk /\ i + Len(chan) <= Len(Pipeline)
    BY <1>4, <1>6 DEF Ahead
  <2>2. QED BY <1>4, <1>5, <2>1
<1>7. ASSUME NEW r \in written \cap RowsOf(Pipeline) PROVE r \in RowsOf(ThisChunk)
  <2>1. PICK i \in DOMAIN Pipeline : r = Pipeline[i]
    BY DEF RowsOf
  <2>2. i \in 1..Len(ThisChunk) /\ DOMAIN ThisChunk = 1..Len(ThisChunk)
    BY <1>1, <1>4, <1>6, <2>1, LenProperties
  <2>3. Pipeline[i] = ThisChunk[i]
    <3>1. \A j \in 1..(Len(ThisChunk) + Len(RestChunks \o chan)) :
            (ThisChunk \o (RestChunks \o chan))[j]
              = IF j <= Len(ThisChunk) THEN ThisChunk[j]
                ELSE (RestChunks \o chan)[j - Len(ThisChunk)]
      BY <1>1, ConcatProperties
    <3>2. i \in 1..(Len(ThisChunk) + Len(RestChunks \o chan)) /\ i <= Len(ThisChunk)
      BY <1>1, <2>2, LenProperties
    <3>3. QED BY <1>2, <3>1, <3>2
  <2>4. QED BY <2>1, <2>2, <2>3 DEF RowsOf
<1>8. ASSUME NEW r \in written, NEW q \in RowsOf(ThisChunk), r \notin RowsOf(ThisChunk)
      PROVE  r.n < q.n
  <2>1. q \in RowsOf(Pipeline)
    BY <1>1, InFlightIsPipeline
  <2>2. r \notin RowsOf(Pipeline)
    BY <1>7, <1>8
  <2>3. QED BY <2>1, <2>2 DEF Behind
<1>9. Len(ThisChunk) <= Chunk /\ Len(ThisChunk) + Len(chan) <= Len(Pipeline)
  BY <1>4, <1>5
<1>10. QED BY <1>1, <1>2, <1>6, <1>7, <1>8, <1>9

\* Such a chunk leaves the latest delivery of every key in the table.
LEMMA FirstChunkLatest ==
    ASSUME TypeOK, PipelineInv, LatestDeliveryWins, Ahead, Behind, pc = "flush",
           pending # <<>>, retry = <<>>, Applied
    PROVE  LatestDeliveryWins'
<1>1. /\ table' = Store!Upserted(table, RowsOf(ThisChunk))
      /\ written' = written \cup RowsOf(ThisChunk)
  BY AppliedIsStores DEF Applied
<1>2. /\ ThisChunk \in Seq(Row)
      /\ \A r \in written, q \in RowsOf(ThisChunk) : r \in RowsOf(ThisChunk) \/ r.n < q.n
  BY FirstChunk
<1>3. RowsOf(ThisChunk) \subseteq Row /\ written \subseteq Row /\ \A r \in Row : r.n \in Nat /\ r.key \in Keys
  <2>1. RowsOf(ThisChunk) \subseteq Row
    BY <1>2, RowsOfTyped
  <2>2. written \subseteq Row
    BY DEF TypeOK
  <2>3. \A r \in Row : r.n \in Nat /\ r.key \in Keys
    BY MaxSentAssumption DEF Row
  <2>4. QED BY <2>1, <2>2, <2>3
<1>4. Increasing(ThisChunk)
  <2>1. /\ retry \in Seq(Row) /\ RestChunks \o chan \in Seq(Row)
        /\ Increasing((retry \o ThisChunk) \o (RestChunks \o chan))
    BY ChunkInPipeline DEF TypeOK, PipelineInv
  <2>2. QED BY <1>2, <2>1, PartIncreasing
<1>5. ASSUME NEW r \in written' PROVE table'[r.key] = 0 \/ r.n <= table'[r.key]
  <2>1. r \in Row /\ r.key \in Keys /\ r.n \in Nat
    BY <1>1, <1>3
  <2>2. CASE \E q \in RowsOf(ThisChunk) : q.key = r.key
    <3>1. PICK i \in DOMAIN ThisChunk : /\ ThisChunk[i].key = r.key
                                        /\ \A l \in DOMAIN ThisChunk : l > i => ThisChunk[l].key # r.key
      <4>1. \E i \in DOMAIN ThisChunk : ThisChunk[i].key = r.key
        BY <2>2 DEF RowsOf
      <4>2. QED BY <1>2, <4>1, LastIndex
    <3>2. ThisChunk[i] \in Store!Latest(RowsOf(ThisChunk))
      <4>1. ThisChunk[i] \in LastOfKey(ThisChunk)
        BY <3>1 DEF LastOfKey
      <4>2. QED BY <1>2, <1>4, <4>1, LastIsLatest
    <3>3. PICK c \in Store!Latest(RowsOf(ThisChunk)) : c.key = r.key /\ table'[r.key] = c.n
      BY <1>1, <2>1, <2>2, <3>1, <3>2 DEF Store!Upserted
    <3>4. /\ c \in RowsOf(ThisChunk) /\ c.n \in Nat
          /\ \A q \in RowsOf(ThisChunk) : q.key = r.key => q.n <= c.n
      BY <1>3, <3>3 DEF Store!Latest
    <3>5. r.n <= c.n
      BY <1>1, <1>2, <2>1, <3>4
    <3>6. QED BY <3>3, <3>5
  <2>3. CASE ~\E q \in RowsOf(ThisChunk) : q.key = r.key
    <3>1. r \in written /\ table'[r.key] = table[r.key]
      BY <1>1, <2>1, <2>3 DEF Store!Upserted
    <3>2. QED BY <3>1 DEF LatestDeliveryWins
  <2>4. QED BY <2>2, <2>3
<1>6. QED BY <1>5 DEF LatestDeliveryWins

\* What a statement writes was delivered before.
LEMMA WrittenBounded ==
    ASSUME TypeOK, PipelineInv, WrittenInv, pc = "flush", pending # <<>>, Applied, sent' = sent
    PROVE  \A r \in written' : r.n <= sent'
<1>1. RowsOf(ThisChunk) \subseteq RowsOf(Pipeline)
  BY ChunkInPipeline, InFlightIsPipeline
<1>2. \A r \in RowsOf(Pipeline) : r.n <= sent
  BY DEF PipelineInv, Bounded, RowsOf
<1>3. QED BY <1>1, <1>2 DEF WrittenInv, Applied

\* The rows of the first chunk are older than the rest of the pipeline.
LEMMA ChunkFirst ==
    ASSUME TypeOK, PipelineInv, Ahead, Behind, pc = "flush", pending # <<>>, retry = <<>>
    PROVE  /\ \A x \in RowsOf(ThisChunk), y \in RowsOf(RestChunks \o chan) : x.n < y.n
           /\ RowsOf(Pipeline) = RowsOf(ThisChunk) \cup RowsOf(RestChunks \o chan)
<1>1. /\ retry \in Seq(Row) /\ ThisChunk \in Seq(Row) /\ RestChunks \o chan \in Seq(Row)
      /\ Increasing((retry \o ThisChunk) \o (RestChunks \o chan))
  BY ChunkInPipeline DEF TypeOK, PipelineInv
<1>2. \A x \in RowsOf(ThisChunk), y \in RowsOf(RestChunks \o chan) : x.n < y.n
  BY <1>1, PartIncreasing
<1>3. Pipeline = ThisChunk \o (RestChunks \o chan)
  BY FirstChunk
<1>4. QED BY <1>1, <1>2, <1>3, RowsOfConcat

\* An acknowledged chunk.
LEMMA AckKeepsWritten ==
    ASSUME TypeOK, TypeOK', PipelineInv, WrittenInv, InsertOk
    PROVE  WrittenInv'
<1>1. pc = "flush" /\ pending # <<>> /\ Applied /\ sent' = sent
  BY DEF InsertOk
<1>2. \A r \in written' : r.n <= sent'
  BY <1>1, WrittenBounded
<1>3. ASSUME ~split' PROVE LatestDeliveryWins' /\ Ahead' /\ Behind'
  <2>1. retry = <<>> /\ LatestDeliveryWins /\ Ahead /\ Behind
    BY <1>1, <1>3 DEF Applied, WrittenInv
  <2>2. LatestDeliveryWins'
    BY <1>1, <2>1, FirstChunkLatest
  <2>3. Pipeline' = RestChunks \o chan
    <3>1. RestChunks \o chan \in Seq(Row)
      BY <1>1, ChunkInPipeline
    <3>2. QED BY <2>1, <3>1, AckCuts, EmptyParts
  <2>4. /\ \A x \in RowsOf(ThisChunk), y \in RowsOf(Pipeline') : x.n < y.n
        /\ RowsOf(Pipeline) = RowsOf(ThisChunk) \cup RowsOf(Pipeline')
    BY <1>1, <2>1, <2>3, ChunkFirst
  <2>5. \A r \in written \cap RowsOf(Pipeline) : r \in RowsOf(ThisChunk)
    BY <1>1, <2>1, FirstChunk
  <2>6. \A y \in RowsOf(Pipeline') : y.n \in Nat
    <3>1. Pipeline' \in Seq(Row)
      BY <1>1, <2>3, ChunkInPipeline
    <3>2. RowsOf(Pipeline') \subseteq Row
      BY <3>1, RowsOfTyped
    <3>3. QED BY <3>2, MaxSentAssumption DEF Row
  <2>7. written' = written \cup RowsOf(ThisChunk)
    BY <1>1 DEF Applied
  <2>8. \A y \in RowsOf(Pipeline') : y \notin written'
    <3>1. \A y \in RowsOf(Pipeline') : y \notin RowsOf(ThisChunk)
      BY <2>4, <2>6
    <3>2. QED BY <2>4, <2>5, <2>7, <3>1
  <2>9. Ahead'
    BY <2>8 DEF Ahead, RowsOf
  <2>10. \A r \in written', q \in RowsOf(Pipeline') : r.n < q.n
    BY <2>1, <2>4, <2>5, <2>7 DEF Behind
  <2>11. Behind'
    BY <2>10 DEF Behind, RowsOf
  <2>12. QED BY <2>2, <2>9, <2>11
<1>4. QED BY <1>2, <1>3 DEF WrittenInv

\* A chunk that was applied and is retained all the same.
LEMMA UnackedKeepsWritten ==
    ASSUME TypeOK, TypeOK', PipelineInv, WrittenInv, InsertUnacked
    PROVE  WrittenInv'
<1>1. pc = "flush" /\ pending # <<>> /\ Applied /\ RetainChunk /\ sent' = sent /\ chan' = chan
  BY DEF InsertUnacked, RetainChunk
<1>2. \A r \in written' : r.n <= sent'
  BY <1>1, WrittenBounded
<1>3. Pipeline' = Pipeline
  BY <1>1, QuietStep DEF PipelineInv
<1>4. ASSUME ~split' PROVE LatestDeliveryWins' /\ Ahead' /\ Behind'
  <2>1. retry = <<>> /\ LatestDeliveryWins /\ Ahead /\ Behind
    BY <1>1, <1>4 DEF Applied, WrittenInv
  <2>2. LatestDeliveryWins'
    BY <1>1, <2>1, FirstChunkLatest
  <2>3. written' = written \cup RowsOf(ThisChunk)
    BY <1>1 DEF Applied
  <2>4. /\ ThisChunk \in Seq(Row) /\ RestChunks \o chan \in Seq(Row)
        /\ Pipeline = ThisChunk \o (RestChunks \o chan)
        /\ Len(ThisChunk) <= Chunk /\ Len(ThisChunk) + Len(chan) <= Len(Pipeline)
        /\ \A i \in DOMAIN Pipeline : Pipeline[i] \in written => i <= Len(ThisChunk)
    BY <1>1, <2>1, FirstChunk
  <2>5. /\ Len(ThisChunk) \in Nat /\ Len(chan) \in Nat /\ Len(Pipeline) \in Nat
        /\ DOMAIN Pipeline = 1..Len(Pipeline) /\ Chunk \in Nat
    BY <2>4, LenProperties, PipelineTyped, ChunkAssumption DEF TypeOK
  <2>6. ASSUME NEW i \in DOMAIN Pipeline, Pipeline[i] \in RowsOf(ThisChunk)
        PROVE  i <= Len(ThisChunk)
    <3>1. PICK b \in Seq(Row) : b = RestChunks \o chan
      BY <2>4
    <3>2. SUFFICES ASSUME i > Len(ThisChunk) PROVE FALSE
      BY <2>5
    <3>3. /\ Len(b) \in Nat /\ DOMAIN b = 1..Len(b) /\ Len(Pipeline) = Len(ThisChunk) + Len(b)
          /\ \A j \in 1..(Len(ThisChunk) + Len(b)) :
                Pipeline[j] = IF j <= Len(ThisChunk) THEN ThisChunk[j] ELSE b[j - Len(ThisChunk)]
      BY <2>4, <3>1, LenProperties, ConcatProperties
    <3>4. Pipeline[i] = b[i - Len(ThisChunk)] /\ i - Len(ThisChunk) \in 1..Len(b)
      BY <2>5, <3>2, <3>3
    <3>5. Pipeline[i] \in RowsOf(b)
      BY <3>3, <3>4 DEF RowsOf
    <3>6. Pipeline[i].n < Pipeline[i].n
      BY <1>1, <2>1, <2>6, <3>1, <3>5, ChunkFirst
    <3>7. Pipeline[i].n \in Nat
      <4>1. Pipeline[i] \in Row
        BY PipelineTyped, ElementOfSeq, <2>5
      <4>2. QED BY <4>1, MaxSentAssumption DEF Row
    <3>8. QED BY <3>6, <3>7
  <2>7. Ahead'
    <3>1. ASSUME NEW i \in DOMAIN Pipeline, Pipeline[i] \in written'
          PROVE  i <= Chunk /\ i + Len(chan) <= Len(Pipeline)
      <4>1. i \in Nat /\ i <= Len(ThisChunk)
        BY <2>3, <2>4, <2>5, <2>6, <3>1
      <4>2. QED BY <2>4, <2>5, <4>1
    <3>2. QED BY <1>1, <1>3, <3>1 DEF Ahead
  <2>8. RowsOf(ThisChunk) \subseteq RowsOf(Pipeline)
    BY <1>1, ChunkInPipeline, InFlightIsPipeline
  <2>9. Behind'
    BY <1>3, <2>1, <2>3, <2>8 DEF Behind, RowsOf
  <2>10. QED BY <2>2, <2>7, <2>9
<1>5. QED BY <1>2, <1>4 DEF WrittenInv

\* No step breaks the invariant.
LEMMA StepKeepsWritten ==
    ASSUME TypeOK, TypeOK', PipelineInv, WrittenInv, [Next]_vars
    PROVE  WrittenInv'
<1>1. ASSUME NEW k \in Keys, Send(k) PROVE WrittenInv'
  BY <1>1, SendKeepsWritten
<1>2. CASE InsertOk
  BY <1>2, AckKeepsWritten
<1>3. CASE InsertUnacked
  BY <1>3, UnackedKeepsWritten
<1>4. Len(chan) \in Nat /\ Len(chan') \in Nat
  BY LenProperties DEF TypeOK
<1>5. CASE Tick \/ Recv \/ RecvClosed \/ InsertFails \/ FlushDone \/ DrainOne \/ DrainEnd
  <2>1. Tick \/ Recv \/ RecvClosed \/ RetainChunk \/ FlushDone \/ DrainOne \/ DrainEnd
    BY <1>5 DEF InsertFails
  <2>2. Pipeline' = Pipeline
    BY <2>1, QuietStep DEF PipelineInv
  <2>3. UNCHANGED <<written, split, sent, table>>
    BY <1>5 DEF Tick, Recv, RecvClosed, InsertFails, RetainChunk, FlushDone, DrainOne, DrainEnd, db, hist
  <2>4. chan' = chan \/ (chan # <<>> /\ chan' = Tail(chan))
    BY <2>1 DEF Tick, Recv, RecvClosed, RetainChunk, FlushDone, DrainOne, DrainEnd
  <2>5. Len(chan') <= Len(chan)
    BY <1>4, <2>4, HeadTailProperties DEF TypeOK
  <2>6. QED BY <1>4, <2>2, <2>3, <2>5, QuietKeepsWritten
<1>6. CASE StopRunning \/ DropSenders \/ UNCHANGED vars
  <2>1. UNCHANGED <<chan, buffer, pending, retry, written, split, sent, table>>
    BY <1>6 DEF StopRunning, DropSenders, vars, task, db, hist
  <2>2. Pipeline' = Pipeline
    BY <2>1 DEF Pipeline
  <2>3. QED BY <1>4, <2>1, <2>2, QuietKeepsWritten
<1>7. ASSUME NEW h \in 1..MaxSent, Prune(h) PROVE WrittenInv'
  <2>1. UNCHANGED <<chan, buffer, pending, retry, written, split, sent>>
    BY <1>7 DEF Prune, task, hist
  <2>2. Pipeline' = Pipeline
    BY <2>1 DEF Pipeline
  <2>3. \A k \in Keys : table'[k] = table[k] \/ table'[k] = 0
    BY <1>7 DEF Prune
  <2>4. QED BY <1>4, <2>1, <2>2, <2>3, QuietKeepsWritten
<1>8. CASE TaskEnds
  <2>1. Pipeline' = <<>> /\ UNCHANGED <<written, split, sent, table>>
    BY <1>8, EndKeeps, StepKeepsLeaving DEF TaskEnds, db, PipelineInv
  <2>2. QED BY <2>1 DEF WrittenInv, LatestDeliveryWins, Ahead, Behind, RowsOf
<1>9. QED BY <1>1, <1>2, <1>3, <1>5, <1>6, <1>7, <1>8 DEF Next, Inserter, InsertChunk

(* While no flush has written past a failed chunk, what was written        *)
(* unacknowledged waits in the next first chunk (flush_buffer retains it   *)
(* in front), and what left memory is older than what is still there.      *)
THEOREM WrittenInductive == Spec => []WrittenInv
<1>1. Init => WrittenInv
  <2>1. ASSUME Init PROVE written = {} /\ Pipeline = <<>>
    BY <2>1, EmptyParts, EmptySeq DEF Init, Pipeline
  <2>2. QED BY <2>1 DEF Init, WrittenInv, LatestDeliveryWins, Ahead, Behind
<1>2. TypeOK /\ TypeOK' /\ PipelineInv /\ WrittenInv /\ [Next]_vars => WrittenInv'
  BY StepKeepsWritten
<1>3. QED BY <1>1, <1>2, TypeCorrect, PipelineInductive, PTL DEF Spec

(* coalesce_duplicate_rows keeps the later of two rows of a key: the table *)
(* goes back to an older delivery only after flush_buffer wrote a chunk    *)
(* although an earlier chunk of the same flush had failed.                 *)
THEOREM StaleCorrect == Spec => []StaleOnlyAfterSplit
<1>1. WrittenInv => StaleOnlyAfterSplit
  BY DEF WrittenInv, StaleOnlyAfterSplit
<1>2. QED BY <1>1, WrittenInductive, PTL

=============================================================================
