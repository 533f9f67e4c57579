-------------------------- MODULE AmmHandlerProofs --------------------------
(***************************************************************************)
(* Proofs about the PumpSwap handler, for every set of transactions, every *)
(* layout of their instructions, every whitelist and every number of       *)
(* deliveries and refreshes.                                               *)
(***************************************************************************)
EXTENDS AmmHandler, SequenceTheorems, WellFoundedInduction, TLAPS

-----------------------------------------------------------------------------
(* The inductive invariant.                                                *)

HopsOf(i) == InstrsOf[tx][i].hops
FillsSet  == {fills[i] : i \in DOMAIN fills}

\* Where the handler may be.
Places ==
    /\ hpc \in {"hops", "emit"} => /\ ip \in DOMAIN InstrsOf[tx] /\ Instr.kind = "multi_hop"
                                   /\ hop <= Len(Instr.hops) + 1
    /\ hpc = "emit" => hop > Len(Instr.hops)
    /\ hpc \in {"idle", "scan"} => fills = <<>>
    /\ hpc = "idle" /\ deliveries > 0 => ip > Len(InstrsOf[tx])
    /\ hpc # "idle" => whitelist \in lists

\* What was emitted, or is about to be, passed the filters under some list.
Listed(x) == x \in Recordable(tx) /\ \E w \in lists : MintOf[x] \in w

Sound == \A x \in EmittedSet \cup FillsSet : Listed(x)

\* A trade the filters keep, under every list since the delivery began.
Wanted(i, j) ==
    /\ j \in DOMAIN HopsOf(i) /\ HopsOf(i)[j] \notin Filtered
    /\ \/ InstrsOf[tx][i].kind = "trade"
       \/ InstrsOf[tx][i].kind = "multi_hop" /\ HopsOf(i)[j] \notin NoAmounts
    /\ \A w \in lists : MintOf[HopsOf(i)[j]] \in w

Complete ==
    /\ \A i \in DOMAIN InstrsOf[tx] : i < ip =>
          \A j \in DOMAIN HopsOf(i) : Wanted(i, j) => HopsOf(i)[j] \in EmittedSet
    /\ hpc \in {"hops", "emit"} =>
          \A j \in DOMAIN HopsOf(ip) :
              j < hop /\ Wanted(ip, j) => HopsOf(ip)[j] \in EmittedSet \cup FillsSet

\* RowsByPosition at one row.
Emitters(t, i) == {d \in DOMAIN accepted[t] : Len(accepted[t][d]) >= i}

RowRight(t, i) ==
    IF Emitters(t, i) = {} THEN i > Len(table[t])
    ELSE /\ i <= Len(table[t])
         /\ table[t][i] = accepted[t][CHOOSE d \in Emitters(t, i) :
                                         \A e \in Emitters(t, i) : e <= d][i]

\* During a delivery the first tradeIndex rows are its own.
RowsInv ==
    ~Readonly => \A t \in Txs, i \in Nat \ {0} :
        IF hpc # "idle" /\ t = tx /\ i <= tradeIndex
        THEN i <= Len(table[tx]) /\ table[tx][i] = emitted[i]
        ELSE RowRight(t, i)

Inv == TypeOK /\ Places /\ (~Readonly => Sound /\ Complete) /\ RowsInv

-----------------------------------------------------------------------------
(* Facts about the constants and about sequences.                          *)

LEMMA InstrsTyped ==
    ASSUME NEW t \in Txs
    PROVE  /\ Len(InstrsOf[t]) \in Nat /\ DOMAIN InstrsOf[t] = 1..Len(InstrsOf[t])
           /\ \A i \in DOMAIN InstrsOf[t] :
                /\ InstrsOf[t][i].kind \in Kinds /\ InstrsOf[t][i].hops \in Seq(Trades)
                /\ Len(InstrsOf[t][i].hops) \in Nat
                /\ DOMAIN InstrsOf[t][i].hops = 1..Len(InstrsOf[t][i].hops)
                /\ InstrsOf[t][i].kind = "trade" => Len(InstrsOf[t][i].hops) = 1
<1> DEFINE Ix == [kind: Kinds, hops: Seq(Trades)]
<1>1. InstrsOf[t] \in Seq(Ix)
  BY InstrsAssumption
<1>2. Len(InstrsOf[t]) \in Nat /\ DOMAIN InstrsOf[t] = 1..Len(InstrsOf[t])
  BY <1>1, LenProperties
<1>3. \A i \in DOMAIN InstrsOf[t] : InstrsOf[t][i] \in Ix
  BY <1>1, <1>2, ElementOfSeq
<1>4. \A i \in DOMAIN InstrsOf[t] :
        InstrsOf[t][i].kind \in Kinds /\ InstrsOf[t][i].hops \in Seq(Trades)
  BY <1>3
<1>5. QED BY <1>2, <1>4, LenProperties, InstrsAssumption

\* The elements of a sequence one longer, and of one without its head.
LEMMA SetOfAppend ==
    ASSUME NEW s \in Seq(Trades), NEW x \in Trades
    PROVE  /\ Append(s, x) \in Seq(Trades) /\ Len(Append(s, x)) = Len(s) + 1
           /\ {Append(s, x)[i] : i \in DOMAIN Append(s, x)} = {s[i] : i \in DOMAIN s} \cup {x}
<1>1. /\ Append(s, x) \in Seq(Trades) /\ Len(Append(s, x)) = Len(s) + 1 /\ Len(s) \in Nat
      /\ \A i \in 1..Len(s) : Append(s, x)[i] = s[i]
      /\ Append(s, x)[Len(s) + 1] = x
      /\ DOMAIN s = 1..Len(s) /\ DOMAIN Append(s, x) = 1..(Len(s) + 1)
  BY AppendProperties, LenProperties
<1>2. QED BY <1>1

LEMMA SetOfTail ==
    ASSUME NEW s \in Seq(Trades), s # <<>>
    PROVE  /\ Head(s) \in Trades /\ Tail(s) \in Seq(Trades)
           /\ {s[i] : i \in DOMAIN s} = {Tail(s)[i] : i \in DOMAIN Tail(s)} \cup {Head(s)}
<1>1. /\ Head(s) \in Trades /\ Tail(s) \in Seq(Trades) /\ Len(Tail(s)) = Len(s) - 1
      /\ \A i \in 1..Len(Tail(s)) : Tail(s)[i] = s[i + 1]
  BY HeadTailProperties
<1>2. Len(s) \in Nat /\ Len(s) # 0 /\ DOMAIN s = 1..Len(s) /\ DOMAIN Tail(s) = 1..(Len(s) - 1)
      /\ Head(s) = s[1]
  BY <1>1, LenProperties, EmptySeq
<1>3. ASSUME NEW i \in DOMAIN s PROVE s[i] \in {Tail(s)[j] : j \in DOMAIN Tail(s)} \cup {Head(s)}
  <2>1. CASE i = 1
    BY <1>2, <2>1
  <2>2. CASE i # 1
    <3>1. i - 1 \in DOMAIN Tail(s) /\ Tail(s)[i - 1] = s[(i - 1) + 1] /\ (i - 1) + 1 = i
      BY <1>1, <1>2, <2>2
    <3>2. QED BY <3>1
  <2>3. QED BY <2>1, <2>2
<1>4. ASSUME NEW j \in DOMAIN Tail(s) PROVE Tail(s)[j] \in {s[i] : i \in DOMAIN s}
  <2>1. j + 1 \in DOMAIN s /\ Tail(s)[j] = s[j + 1]
    BY <1>1, <1>2
  <2>2. QED BY <2>1
<1>5. Head(s) \in {s[i] : i \in DOMAIN s}
  <2>1. 1 \in DOMAIN s
    BY <1>2
  <2>2. QED BY <1>2, <2>1
<1>6. QED BY <1>1, <1>3, <1>4, <1>5

\* A set of positions that has an element has a last one.
LEMMA LastPosition ==
    ASSUME NEW n \in Nat, NEW D, D \subseteq 1..n, D # {}
    PROVE  \E d \in D : \A e \in D : e <= d
<1> DEFINE S == {n - d : d \in D}
<1>1. S \subseteq Nat /\ S # {}
  <2>1. ASSUME NEW d \in D PROVE n - d \in Nat
    <3>1. d \in 1..n
      OBVIOUS
    <3>2. QED BY <3>1
  <2>2. QED BY <2>1
<1>2. PICK x \in S : \A y \in S : ~(<<y, x>> \in OpToRel(<, Nat))
  BY <1>1, NatLessThanWellFounded, WFMin
<1>3. \A y \in S : ~(y < x)
  BY <1>1, <1>2 DEF OpToRel
<1>4. PICK d \in D : x = n - d
  BY <1>2
<1>5. ASSUME NEW e \in D PROVE e <= d
  <2>1. ~(n - e < n - d)
    BY <1>3, <1>4
  <2>2. e \in Nat /\ d \in Nat
    OBVIOUS
  <2>3. QED BY <2>1, <2>2
<1>6. QED BY <1>5

-----------------------------------------------------------------------------
(* Rows.                                                                   *)

LEMMA RowsKept ==
    ASSUME RowsInv, UNCHANGED <<table, accepted, emitted, tradeIndex, tx>>,
           hpc' = "idle" <=> hpc = "idle"
    PROVE  RowsInv'
<1>1. ASSUME NEW t, NEW i PROVE RowRight(t, i)' <=> RowRight(t, i)
  BY DEF RowRight, Emitters
<1>2. QED BY <1>1 DEF RowsInv

\* emit: the row goes to the place its number in the delivery gives it.
LEMMA EmitKeepsRows ==
    ASSUME TypeOK, RowsInv, NEW x \in Trades, Emit(x), hpc # "idle", hpc' # "idle",
           UNCHANGED <<tx, accepted>>
    PROVE  /\ emitted' \in Seq(Trades) /\ tradeIndex' = Len(emitted')
           /\ EmittedSet' = EmittedSet \cup {x}
           /\ table' \in [Txs -> Seq(Trades)]
           /\ RowsInv'
<1>1. /\ emitted' = Append(emitted, x) /\ tradeIndex' = tradeIndex + 1
      /\ emitted \in Seq(Trades) /\ tradeIndex = Len(emitted) /\ tradeIndex \in Nat
      /\ tx \in Txs /\ table \in [Txs -> Seq(Trades)]
  <2>1. emitted' = Append(emitted, x) /\ tradeIndex' = tradeIndex + 1
    BY DEF Emit
  <2>2. /\ emitted \in Seq(Trades) /\ tradeIndex = Len(emitted)
        /\ tx \in Txs /\ table \in [Txs -> Seq(Trades)]
    BY DEF TypeOK
  <2>3. \A s \in Seq(Trades) : Len(s) \in Nat
    BY LenProperties
  <2>4. QED BY <2>1, <2>2, <2>3
<1>2. emitted' \in Seq(Trades) /\ tradeIndex' = Len(emitted') /\ EmittedSet' = EmittedSet \cup {x}
  <2>1. Append(emitted, x) \in Seq(Trades) /\ Len(Append(emitted, x)) = Len(emitted) + 1
    BY <1>1, AppendProperties
  <2>2. emitted' \in Seq(Trades) /\ tradeIndex' = Len(emitted')
    BY <1>1, <2>1
  <2>3. EmittedSet' = EmittedSet \cup {x}
    <3>1. EmittedSet' = {Append(emitted, x)[i] : i \in DOMAIN Append(emitted, x)}
      BY <1>1, Zenon DEF EmittedSet
    <3>2. {Append(emitted, x)[i] : i \in DOMAIN Append(emitted, x)}
             = {emitted[i] : i \in DOMAIN emitted} \cup {x}
      BY <1>1, SetOfAppend
    <3>3. QED BY <3>1, <3>2, Zenon DEF EmittedSet
  <2>4. QED BY <2>2, <2>3
<1>3. emitted'[tradeIndex + 1] = x /\ \A i \in 1..tradeIndex : emitted'[i] = emitted[i]
  BY <1>1, AppendProperties
<1>4. CASE Readonly
  BY <1>1, <1>2, <1>4 DEF Emit, RowsInv
<1>5. CASE ~Readonly
  <2> DEFINE rows0 == table[tx]
             rows1 == IF tradeIndex < Len(rows0) THEN [rows0 EXCEPT ![tradeIndex + 1] = x]
                                                 ELSE Append(rows0, x)
  <2>1. rows0 \in Seq(Trades) /\ Len(rows0) \in Nat /\ DOMAIN rows0 = 1..Len(rows0)
    BY <1>1, LenProperties
  <2>2. table' = [table EXCEPT ![tx] = rows1]
    BY <1>5 DEF Emit
  <2>3. tradeIndex <= Len(rows0)
    <3>1. CASE tradeIndex = 0
      BY <2>1, <3>1
    <3>2. CASE tradeIndex # 0
      BY <1>1, <1>5, <3>2 DEF RowsInv
    <3>3. QED BY <3>1, <3>2
  <2>4. /\ rows1 \in Seq(Trades)
        /\ Len(rows1) = IF tradeIndex < Len(rows0) THEN Len(rows0) ELSE Len(rows0) + 1
        /\ rows1[tradeIndex + 1] = x
        /\ \A i \in 1..Len(rows0) : i # tradeIndex + 1 => rows1[i] = rows0[i]
    <3>1. CASE tradeIndex < Len(rows0)
      <4>1. rows1 = [rows0 EXCEPT ![tradeIndex + 1] = x]
        BY <3>1
      <4>2. tradeIndex + 1 \in 1..Len(rows0)
        BY <1>1, <2>1, <3>1
      <4>3. rows1 \in Seq(Trades) /\ Len(rows1) = Len(rows0)
        BY <2>1, <4>1, <4>2, ExceptSeq
      <4>4. rows1[tradeIndex + 1] = x /\ \A i \in 1..Len(rows0) : i # tradeIndex + 1 => rows1[i] = rows0[i]
        BY <2>1, <4>1, <4>2
      <4>5. QED BY <3>1, <4>3, <4>4
    <3>2. CASE ~(tradeIndex < Len(rows0))
      <4>1. rows1 = Append(rows0, x)
        BY <3>2
      <4>2. tradeIndex = Len(rows0)
        <5>1. tradeIndex \in Nat /\ Len(rows0) \in Nat
          BY <1>1, <2>1
        <5>2. ASSUME NEW m \in Nat, NEW n \in Nat, m <= n, ~(m < n) PROVE m = n
          BY <5>2
        <5> HIDE DEF rows0
        <5>3. QED BY <2>3, <3>2, <5>1, <5>2
      <4>3. QED BY <2>1, <3>2, <4>1, <4>2, AppendProperties
    <3>3. QED BY <3>1, <3>2
  <2>5. table' \in [Txs -> Seq(Trades)] /\ table'[tx] = rows1
        /\ \A t \in Txs \ {tx} : table'[t] = table[t]
    BY <1>1, <2>2, <2>4
  <2> HIDE DEF rows1
  <2>6. ASSUME NEW t \in Txs, NEW i \in Nat \ {0}
        PROVE  IF t = tx /\ i <= tradeIndex + 1
               THEN i <= Len(table'[tx]) /\ table'[tx][i] = emitted'[i]
               ELSE RowRight(t, i)'
    <3>1. CASE t # tx
      <4>1. RowRight(t, i)
        BY <1>5, <3>1 DEF RowsInv
      <4>2. RowRight(t, i)'
        BY <2>5, <3>1, <4>1 DEF RowRight, Emitters
      <4>3. QED BY <3>1, <4>2
    <3>2. CASE t = tx /\ i = tradeIndex + 1
      <4>1. i <= Len(rows1)
        BY <1>1, <2>1, <2>3, <2>4, <3>2
      <4>2. QED BY <1>3, <2>4, <2>5, <3>2, <4>1
    <3>3. CASE t = tx /\ i <= tradeIndex
      <4>1. i <= Len(rows0) /\ rows0[i] = emitted[i]
        BY <1>5, <3>3 DEF RowsInv
      <4>2. i \in 1..Len(rows0) /\ i # tradeIndex + 1 /\ i \in 1..tradeIndex
        BY <1>1, <2>1, <3>3, <4>1
      <4>3. i <= Len(rows1)
        BY <2>1, <2>4, <4>2
      <4>4. QED BY <1>1, <1>3, <2>4, <2>5, <3>3, <4>1, <4>2, <4>3
    <3>4. CASE t = tx /\ i > tradeIndex + 1
      <4>1. RowRight(tx, i)
        BY <1>1, <1>5, <3>4 DEF RowsInv
      <4>2. i <= Len(rows1) <=> i <= Len(rows0)
        BY <1>1, <2>1, <2>3, <2>4, <3>4
      <4>3. i > Len(rows0) => i > Len(rows1)
        BY <1>1, <2>1, <2>3, <2>4, <3>4
      <4>4. i <= Len(rows0) => rows1[i] = rows0[i]
        BY <1>1, <2>1, <2>4, <3>4
      <4>5. (Emitters(tx, i))' = Emitters(tx, i)
        BY DEF Emitters
      <4>6. RowRight(t, i)'
        BY <2>5, <3>4, <4>1, <4>2, <4>3, <4>4, <4>5 DEF RowRight
      <4>7. QED BY <1>1, <3>4, <4>6
    <3>5. QED BY <1>1, <3>1, <3>2, <3>3, <3>4
  <2>7. RowsInv'
    BY <1>1, <1>5, <2>6 DEF RowsInv
  <2>8. QED BY <1>2, <2>5, <2>7
<1>6. QED BY <1>4, <1>5

\* A delivery that ends: its trades are the latest rows of their positions.
LEMMA ReturnKeepsRows ==
    ASSUME TypeOK, RowsInv, Return
    PROVE  accepted' \in [Txs -> Seq(Seq(Trades))] /\ RowsInv'
<1>1. /\ hpc # "idle" /\ hpc' = "idle" /\ UNCHANGED <<tx, table, tradeIndex, emitted>>
      /\ accepted' = [accepted EXCEPT ![tx] = Append(accepted[tx], emitted)]
      /\ tx \in Txs /\ accepted \in [Txs -> Seq(Seq(Trades))] /\ emitted \in Seq(Trades)
      /\ tradeIndex = Len(emitted) /\ tradeIndex \in Nat
  BY LenProperties DEF Return, TypeOK
<1>2. PICK n \in Nat : n = Len(accepted[tx]) /\ accepted[tx] \in Seq(Seq(Trades))
  BY <1>1, LenProperties
<1>3. /\ accepted'[tx] = Append(accepted[tx], emitted)
      /\ \A t \in Txs \ {tx} : accepted'[t] = accepted[t]
  BY <1>1
<1>4. /\ accepted'[tx] \in Seq(Seq(Trades)) /\ DOMAIN accepted'[tx] = 1..(n + 1)
      /\ DOMAIN accepted[tx] = 1..n /\ accepted'[tx][n + 1] = emitted
      /\ \A d \in 1..n : accepted'[tx][d] = accepted[tx][d]
  BY <1>1, <1>2, <1>3, AppendProperties, LenProperties
<1>5. accepted' \in [Txs -> Seq(Seq(Trades))]
  BY <1>1, <1>3, <1>4
<1>6. ASSUME NEW t \in Txs, NEW i \in Nat \ {0}, ~Readonly PROVE RowRight(t, i)'
  <2>1. CASE t # tx
    <3>1. RowRight(t, i) /\ accepted'[t] = accepted[t]
      BY <1>3, <1>6, <2>1 DEF RowsInv
    <3>2. QED BY <1>1, <3>1 DEF RowRight, Emitters
  <2>2. CASE t = tx /\ i <= tradeIndex
    <3>1. i <= Len(table[t]) /\ table[t][i] = emitted[i]
      BY <1>1, <1>6, <2>2 DEF RowsInv
    <3>2. n + 1 \in Emitters(t, i)' /\ \A e \in Emitters(t, i)' : e \in 1..(n + 1)
      BY <1>1, <1>2, <1>4, <2>2 DEF Emitters
    <3>3. PICK c : c = CHOOSE d \in Emitters(t, i)' : \A e \in Emitters(t, i)' : e <= d
      OBVIOUS
    <3>4. c \in Emitters(t, i)' /\ \A e \in Emitters(t, i)' : e <= c
      <4>1. \A e \in Emitters(t, i)' : e <= n + 1
        BY <1>2, <3>2
      <4>2. QED BY <3>2, <3>3, <4>1
    <3>5. c = n + 1
      BY <1>2, <3>2, <3>4
    <3>6. accepted'[t][c][i] = emitted[i] /\ Emitters(t, i)' # {}
      BY <1>4, <2>2, <3>2, <3>5
    <3>7. QED BY <1>1, <3>1, <3>3, <3>6 DEF RowRight
  <2>3. CASE t = tx /\ ~(i <= tradeIndex)
    <3>1. RowRight(t, i)
      BY <1>6, <2>3 DEF RowsInv
    <3>2. Emitters(t, i)' = Emitters(t, i) /\ Emitters(t, i) \subseteq 1..n
      <4>1. ~(Len(accepted'[t][n + 1]) >= i)
        BY <1>1, <1>4, <2>3
      <4>2. \A d \in 1..(n + 1) : d \in 1..n \/ d = n + 1
        BY <1>2
      <4>3. 1..n \subseteq 1..(n + 1)
        BY <1>2
      <4>4. /\ Emitters(t, i)' = {d \in 1..(n + 1) : Len(accepted'[t][d]) >= i}
            /\ Emitters(t, i) = {d \in 1..n : Len(accepted[t][d]) >= i}
        BY <1>4, <2>3 DEF Emitters
      <4>5. \A d \in 1..n : accepted'[t][d] = accepted[t][d]
        BY <1>4, <2>3
      <4>6. QED BY <4>1, <4>2, <4>3, <4>4, <4>5
    <3>3. CASE Emitters(t, i) = {}
      BY <1>1, <3>1, <3>2, <3>3 DEF RowRight
    <3>4. CASE Emitters(t, i) # {}
      <4>1. PICK c : c = CHOOSE d \in Emitters(t, i) : \A e \in Emitters(t, i) : e <= d
        OBVIOUS
      <4>2. \E d \in Emitters(t, i) : \A e \in Emitters(t, i) : e <= d
        BY <1>2, <3>2, <3>4, LastPosition
      <4>3. c \in Emitters(t, i)
        BY <4>1, <4>2
      <4>4. accepted'[t][c] = accepted[t][c]
        BY <1>4, <2>3, <3>2, <4>3
      <4>5. i <= Len(table[t]) /\ table[t][i] = accepted[t][c][i]
        BY <3>1, <3>4, <4>1 DEF RowRight
      <4>6. QED BY <1>1, <3>2, <3>4, <4>1, <4>4, <4>5 DEF RowRight
    <3>5. QED BY <3>3, <3>4
  <2>4. QED BY <2>1, <2>2, <2>3
<1>7. RowsInv'
  BY <1>1, <1>6 DEF RowsInv
<1>8. QED BY <1>5, <1>7

\* A delivery that begins has no rows of its own yet.
LEMMA DeliverKeepsRows ==
    ASSUME RowsInv, NEW t \in Txs, Deliver(t)
    PROVE  RowsInv'
<1>1. hpc = "idle" /\ tradeIndex' = 0 /\ UNCHANGED <<table, accepted>>
  BY DEF Deliver
<1>2. ASSUME NEW u \in Txs, NEW i \in Nat \ {0}, ~Readonly PROVE RowRight(u, i)' /\ ~(i <= tradeIndex')
  <2>1. RowRight(u, i)
    BY <1>1, <1>2 DEF RowsInv
  <2>2. RowRight(u, i)'
    BY <1>1, <2>1 DEF RowRight, Emitters
  <2>3. QED BY <1>1, <2>2
<1>3. QED BY <1>2 DEF RowsInv

-----------------------------------------------------------------------------
(* Scope.                                                                  *)

\* A trade that passes the filters now is one the delivery may emit.
LEMMA EligibleListed ==
    ASSUME ~Readonly, whitelist \in lists, NEW i \in DOMAIN InstrsOf[tx],
           NEW j \in DOMAIN HopsOf(i), HopsOf(i)[j] \in Trades, Eligible(HopsOf(i)[j]),
           \/ InstrsOf[tx][i].kind = "trade"
           \/ InstrsOf[tx][i].kind = "multi_hop" /\ HopsOf(i)[j] \notin NoAmounts
    PROVE  Listed(HopsOf(i)[j])
<1>1. HopsOf(i)[j] \in Recordable(tx)
  BY DEF Recordable, Eligible, HopsOf
<1>2. QED BY <1>1 DEF Listed, Eligible

\* A trade that is wanted passes the filters now.
LEMMA WantedEligible ==
    ASSUME ~Readonly, whitelist \in lists, NEW i, NEW j, Wanted(i, j)
    PROVE  /\ Eligible(HopsOf(i)[j])
           /\ InstrsOf[tx][i].kind = "multi_hop" => HopsOf(i)[j] \notin NoAmounts
BY DEF Wanted, Eligible

\* The lists only grow during a delivery.
LEMMA ListedKept ==
    ASSUME tx' = tx, lists \subseteq lists', NEW x, Listed(x)
    PROVE  Listed(x)'
BY DEF Listed, Recordable

LEMMA WantedKept ==
    ASSUME tx' = tx, lists \subseteq lists', NEW i, NEW j, Wanted(i, j)'
    PROVE  Wanted(i, j) /\ HopsOf(i)' = HopsOf(i)
BY DEF Wanted, HopsOf

LEMMA ScopeKept ==
    ASSUME Sound, Complete, UNCHANGED <<tx, ip, hop, fills, emitted>>, lists \subseteq lists',
           hpc' = hpc \/ hpc' = "idle" \/ (hpc = "hops" /\ hpc' = "emit")
    PROVE  Sound' /\ Complete'
<1>1. EmittedSet' = EmittedSet /\ FillsSet' = FillsSet
  BY DEF EmittedSet, FillsSet
<1>2. Sound'
  BY <1>1, ListedKept DEF Sound
<1>3. ASSUME NEW i \in DOMAIN InstrsOf[tx], i < ip, NEW j \in DOMAIN HopsOf(i), Wanted(i, j)'
      PROVE  HopsOf(i)[j] \in EmittedSet
  BY <1>3, WantedKept DEF Complete
<1>4. ASSUME hpc \in {"hops", "emit"}, NEW j \in DOMAIN HopsOf(ip), j < hop, Wanted(ip, j)'
      PROVE  HopsOf(ip)[j] \in EmittedSet \cup FillsSet
  BY <1>4, WantedKept DEF Complete, Wanted, HopsOf
<1>5. Complete'
  BY <1>1, <1>3, <1>4 DEF Complete, HopsOf
<1>6. QED BY <1>2, <1>5

-----------------------------------------------------------------------------
(* The actions.                                                            *)

\* The instruction the handler is at.
LEMMA InstrTyped ==
    ASSUME TypeOK, ip <= Len(InstrsOf[tx])
    PROVE  /\ tx \in Txs /\ ip \in Nat /\ ip \in DOMAIN InstrsOf[tx]
           /\ Len(InstrsOf[tx]) \in Nat /\ DOMAIN InstrsOf[tx] = 1..Len(InstrsOf[tx])
           /\ ip + 1 \in 1..(Len(InstrsOf[tx]) + 1)
           /\ Instr.kind \in Kinds /\ Instr.hops \in Seq(Trades) /\ HopsOf(ip) = Instr.hops
           /\ Len(Instr.hops) \in Nat /\ DOMAIN Instr.hops = 1..Len(Instr.hops)
           /\ \A j \in DOMAIN Instr.hops : Instr.hops[j] \in Trades
           /\ Instr.kind = "trade" => Len(Instr.hops) = 1
<1>1. tx \in Txs /\ ip \in 1..(Len(InstrsOf[tx]) + 1)
  BY DEF TypeOK
<1>2. Len(InstrsOf[tx]) \in Nat /\ DOMAIN InstrsOf[tx] = 1..Len(InstrsOf[tx])
  BY <1>1, InstrsTyped
<1>3. ip \in Nat /\ ip \in DOMAIN InstrsOf[tx] /\ ip + 1 \in 1..(Len(InstrsOf[tx]) + 1)
  BY <1>1, <1>2
<1>4. /\ Instr.kind \in Kinds /\ Instr.hops \in Seq(Trades) /\ Len(Instr.hops) \in Nat
      /\ DOMAIN Instr.hops = 1..Len(Instr.hops)
      /\ Instr.kind = "trade" => Len(Instr.hops) = 1
  BY <1>1, <1>3, InstrsTyped DEF Instr
<1>5. \A j \in DOMAIN Instr.hops : Instr.hops[j] \in Trades
  BY <1>4, ElementOfSeq
<1>6. QED BY <1>1, <1>2, <1>3, <1>4, <1>5 DEF HopsOf, Instr

LEMMA RefreshKeeps == ASSUME Inv, Refresh PROVE Inv'
<1>1. /\ UNCHANGED <<hpc, tx, ip, hop, fills, tradeIndex, table, deliveries, emitted, accepted>>
      /\ lists' = IF hpc = "idle" THEN lists ELSE lists \cup {whitelist'}
      /\ queried' = IF hpc = "idle" THEN queried ELSE queried \cup {loaded'}
      /\ overlap' = IF hpc = "idle" THEN overlap ELSE overlap \/ wpc' # "idle"
  BY DEF Refresh, scope
<1>2. /\ allMints' \subseteq Mints /\ whitelist' \subseteq Mints /\ rows' \subseteq Mints
      /\ loaded' \subseteq Mints /\ prev' \subseteq Mints
      /\ wpc' \in {"idle", "clear", "insert"} /\ changes' \in 0..MaxChanges
  <2>1. CASE ChangeMints
    BY <2>1, ChangesAssumption DEF ChangeMints, Inv, TypeOK
  <2>2. CASE QueryMints
    BY <2>2 DEF QueryMints, Inv, TypeOK
  <2>3. CASE Clear
    BY <2>3 DEF Clear, Inv, TypeOK
  <2>4. CASE Insert
    BY <2>4 DEF Insert, Inv, TypeOK
  <2>5. QED BY <2>1, <2>2, <2>3, <2>4 DEF Refresh, WNext
<1>3. TypeOK'
  <2>1. overlap' \in BOOLEAN
    BY <1>1, Zenon DEF Inv, TypeOK
  <2>2. lists' \subseteq SUBSET Mints /\ queried' \subseteq SUBSET Mints
    BY <1>1, <1>2 DEF Inv, TypeOK
  <2>3. QED BY <1>1, <1>2, <2>1, <2>2 DEF Inv, TypeOK
<1>4. Places'
  BY <1>1 DEF Inv, Places, Instr
<1>5. ~Readonly => Sound' /\ Complete'
  <2>1. lists \subseteq lists'
    BY <1>1
  <2>2. QED BY <1>1, <2>1, ScopeKept DEF Inv
<1>6. RowsInv'
  BY <1>1, RowsKept DEF Inv
<1>7. QED BY <1>3, <1>4, <1>5, <1>6 DEF Inv

LEMMA DeliverKeeps == ASSUME Inv, NEW t \in Txs, Deliver(t) PROVE Inv'
<1>1. /\ hpc = "idle" /\ deliveries < MaxDeliveries /\ deliveries' = deliveries + 1
      /\ hpc' = "scan" /\ tx' = t /\ ip' = 1 /\ tradeIndex' = 0
      /\ emitted' = <<>> /\ lists' = {whitelist} /\ overlap' = (wpc # "idle")
      /\ queried' = IF wpc = "clear" THEN {prev, loaded} ELSE {loaded}
      /\ UNCHANGED <<allMints, whitelist, wpc, rows, changes, loaded, prev, hop, fills, table, accepted>>
  BY DEF Deliver, ScopeAtStart, wvars
<1>2. TypeOK'
  <2>1. deliveries' \in 0..MaxDeliveries
    BY <1>1, HandlerAssumption DEF Inv, TypeOK
  <2>2. ip' \in 1..(Len(InstrsOf[tx']) + 1)
    BY <1>1, InstrsTyped
  <2>3. emitted' \in Seq(Trades) /\ tradeIndex' = Len(emitted')
    BY <1>1, EmptySeq
  <2>4. lists' \subseteq SUBSET Mints /\ queried' \subseteq SUBSET Mints /\ overlap' \in BOOLEAN
    BY <1>1 DEF Inv, TypeOK
  <2>5. QED BY <1>1, <2>1, <2>2, <2>3, <2>4 DEF Inv, TypeOK
<1>3. fills' = <<>>
  BY <1>1 DEF Inv, Places
<1>4. Places'
  BY <1>1, <1>3 DEF Places
<1>5. Sound'
  BY <1>1, <1>3 DEF Sound, EmittedSet, FillsSet
<1>6. Complete'
  <2>1. \A i \in DOMAIN InstrsOf[tx'] : ~(i < 1)
    BY <1>1, InstrsTyped
  <2>2. QED BY <1>1, <2>1 DEF Complete
<1>7. RowsInv'
  BY DeliverKeepsRows DEF Inv
<1>8. QED BY <1>2, <1>4, <1>5, <1>6, <1>7 DEF Inv

\* Moving on to the next instruction, when all that is wanted of this one
\* has been emitted.
LEMMA NextInstr ==
    ASSUME Inv, ~Readonly, ip <= Len(InstrsOf[tx]), tx' = tx, ip' = ip + 1, hpc' = "scan",
           lists' = lists, EmittedSet \subseteq EmittedSet',
           \A j \in DOMAIN HopsOf(ip) : Wanted(ip, j) => HopsOf(ip)[j] \in EmittedSet'
    PROVE  Complete'
<1>1. ip \in Nat /\ DOMAIN InstrsOf[tx] = 1..Len(InstrsOf[tx]) /\ Len(InstrsOf[tx]) \in Nat
  BY InstrTyped DEF Inv
<1>2. ASSUME NEW i \in DOMAIN InstrsOf[tx], i < ip + 1, NEW j \in DOMAIN HopsOf(i), Wanted(i, j)
      PROVE  HopsOf(i)[j] \in EmittedSet'
  <2>1. i < ip \/ i = ip
    BY <1>1, <1>2
  <2>2. QED BY <1>2, <2>1 DEF Inv, Complete
<1>3. ASSUME NEW i, NEW j PROVE (Wanted(i, j)' <=> Wanted(i, j)) /\ HopsOf(i)' = HopsOf(i)
  BY DEF Wanted, HopsOf
<1>4. QED BY <1>2, <1>3 DEF Complete

LEMMA SkipKeeps == ASSUME Inv, SkipInstr PROVE Inv'
<1>1. /\ hpc = "scan" /\ ip <= Len(InstrsOf[tx]) /\ ip' = ip + 1 /\ hpc' = "scan"
      /\ UNCHANGED <<allMints, whitelist, wpc, rows, changes, loaded, prev, tx, hop, fills, tradeIndex,
                     table, deliveries, emitted, lists, queried, overlap, accepted>>
  BY DEF SkipInstr, wvars, scope
<1>2. TypeOK'
  BY <1>1, InstrTyped DEF Inv, TypeOK
<1>3. Places'
  BY <1>1 DEF Inv, Places
<1>4. RowsInv'
  BY <1>1, RowsKept DEF Inv
<1>5. ASSUME ~Readonly PROVE Sound' /\ Complete'
  <2>1. EmittedSet' = EmittedSet /\ FillsSet' = FillsSet
    BY <1>1 DEF EmittedSet, FillsSet
  <2>2. Sound'
    BY <1>1, <1>5, <2>1, ListedKept DEF Inv, Sound
  <2>3. ASSUME NEW j \in DOMAIN HopsOf(ip), Wanted(ip, j) PROVE FALSE
    <3>1. Eligible(HopsOf(ip)[j]) /\ whitelist \in lists
      BY <1>1, <1>5, <2>3, WantedEligible DEF Inv, Places
    <3>2. Instr.kind = "trade" => j = 1
      BY <1>1, InstrTyped DEF Inv
    <3>3. Instr.kind # "other"
      BY <2>3 DEF Wanted, Instr
    <3>4. HopsOf(ip) = Instr.hops
      BY DEF HopsOf, Instr
    <3>5. QED BY <3>1, <3>2, <3>3, <3>4 DEF SkipInstr
  <2>4. Complete'
    BY <1>1, <1>5, <2>1, <2>3, NextInstr
  <2>5. QED BY <2>2, <2>4
<1>6. QED BY <1>2, <1>3, <1>4, <1>5 DEF Inv

LEMMA TradeKeeps == ASSUME Inv, EmitTrade PROVE Inv'
<1>1. /\ hpc = "scan" /\ ip <= Len(InstrsOf[tx]) /\ ip' = ip + 1 /\ hpc' = "scan"
      /\ Instr.kind = "trade" /\ Eligible(Instr.hops[1]) /\ Emit(Instr.hops[1])
      /\ UNCHANGED <<allMints, whitelist, wpc, rows, changes, loaded, prev, tx, hop, fills, deliveries, lists, queried, overlap, accepted>>
  BY DEF EmitTrade, wvars, scope
<1>2. /\ Instr.hops[1] \in Trades /\ DOMAIN Instr.hops = 1..1 /\ HopsOf(ip) = Instr.hops
      /\ ip \in DOMAIN InstrsOf[tx] /\ ip + 1 \in 1..(Len(InstrsOf[tx]) + 1)
  BY <1>1, InstrTyped DEF Inv
<1>3. /\ emitted' \in Seq(Trades) /\ tradeIndex' = Len(emitted')
      /\ EmittedSet' = EmittedSet \cup {Instr.hops[1]}
      /\ table' \in [Txs -> Seq(Trades)] /\ RowsInv'
  BY <1>1, <1>2, EmitKeepsRows DEF Inv
<1>4. TypeOK'
  BY <1>1, <1>2, <1>3 DEF Inv, TypeOK
<1>5. Places'
  BY <1>1 DEF Inv, Places
<1>6. ASSUME ~Readonly PROVE Sound' /\ Complete'
  <2>1. FillsSet' = FillsSet
    BY <1>1 DEF FillsSet
  <2>2. Listed(Instr.hops[1])
    <3>1. /\ whitelist \in lists /\ 1 \in DOMAIN HopsOf(ip) /\ HopsOf(ip)[1] \in Trades
          /\ Eligible(HopsOf(ip)[1]) /\ InstrsOf[tx][ip].kind = "trade"
      BY <1>1, <1>2 DEF Inv, Places, Instr
    <3>2. Listed(HopsOf(ip)[1])
      BY <1>2, <1>6, <3>1, EligibleListed
    <3>3. QED BY <1>2, <3>2
  <2>3. \A x \in EmittedSet' \cup FillsSet' : Listed(x)
    BY <1>3, <1>6, <2>1, <2>2 DEF Inv, Sound
  <2>4. Sound'
    BY <1>1, <2>3, ListedKept DEF Sound
  <2>5. Complete'
    BY <1>1, <1>2, <1>3, <1>6, NextInstr
  <2>6. QED BY <2>4, <2>5
<1>7. QED BY <1>3, <1>4, <1>5, <1>6 DEF Inv

LEMMA StartKeeps == ASSUME Inv, StartHops PROVE Inv'
<1>1. /\ hpc = "scan" /\ ip <= Len(InstrsOf[tx]) /\ Instr.kind = "multi_hop"
      /\ hpc' = "hops" /\ hop' = 1 /\ fills' = <<>>
      /\ UNCHANGED <<allMints, whitelist, wpc, rows, changes, loaded, prev, tx, ip, tradeIndex, table,
                     deliveries, emitted, lists, queried, overlap, accepted>>
  BY DEF StartHops, wvars, scope
<1>2. ip \in DOMAIN InstrsOf[tx] /\ Len(Instr.hops) \in Nat /\ DOMAIN HopsOf(ip) = 1..Len(Instr.hops)
  BY <1>1, InstrTyped DEF Inv
<1>3. TypeOK'
  BY <1>1, EmptySeq DEF Inv, TypeOK
<1>4. Places'
  BY <1>1, <1>2 DEF Inv, Places, Instr
<1>5. RowsInv'
  BY <1>1, RowsKept DEF Inv
<1>6. ASSUME ~Readonly PROVE Sound' /\ Complete'
  <2>1. EmittedSet' = EmittedSet /\ FillsSet' = {}
    BY <1>1 DEF EmittedSet, FillsSet
  <2>2. Sound'
    BY <1>1, <1>6, <2>1, ListedKept DEF Inv, Sound
  <2>3. \A j \in DOMAIN HopsOf(ip) : ~(j < 1)
    BY <1>2
  <2>4. Complete'
    BY <1>1, <1>6, <2>1, <2>3 DEF Inv, Complete, Wanted, HopsOf
  <2>5. QED BY <2>2, <2>4
<1>7. QED BY <1>3, <1>4, <1>5, <1>6 DEF Inv

LEMMA CollectKeeps == ASSUME Inv, CollectHop PROVE Inv'
<1>1. /\ hpc = "hops" /\ hpc' = "hops" /\ hop <= Len(Instr.hops) /\ hop' = hop + 1
      /\ fills' = IF Eligible(Instr.hops[hop]) /\ Instr.hops[hop] \notin NoAmounts
                  THEN Append(fills, Instr.hops[hop]) ELSE fills
      /\ UNCHANGED <<allMints, whitelist, wpc, rows, changes, loaded, prev, tx, ip, tradeIndex, table,
                     deliveries, emitted, lists, queried, overlap, accepted>>
  BY DEF CollectHop, wvars, scope
<1>2. /\ ip \in DOMAIN InstrsOf[tx] /\ Instr.kind = "multi_hop" /\ whitelist \in lists
      /\ hop \in Nat \ {0} /\ fills \in Seq(Trades)
  BY <1>1 DEF Inv, Places, TypeOK
<1>3. /\ Instr.hops[hop] \in Trades /\ hop \in DOMAIN HopsOf(ip) /\ HopsOf(ip) = Instr.hops
      /\ Len(Instr.hops) \in Nat /\ DOMAIN HopsOf(ip) = 1..Len(Instr.hops)
  <2>1. ip <= Len(InstrsOf[tx])
    BY <1>2, InstrsTyped DEF Inv, TypeOK
  <2>2. /\ Len(Instr.hops) \in Nat /\ DOMAIN Instr.hops = 1..Len(Instr.hops)
        /\ HopsOf(ip) = Instr.hops /\ \A j \in DOMAIN Instr.hops : Instr.hops[j] \in Trades
    BY <2>1, InstrTyped DEF Inv
  <2>3. hop \in DOMAIN Instr.hops
    BY <1>1, <1>2, <2>2
  <2>4. QED BY <2>2, <2>3
<1>4. /\ fills' \in Seq(Trades) /\ FillsSet \subseteq FillsSet'
      /\ \/ FillsSet' = FillsSet
         \/ /\ FillsSet' = FillsSet \cup {Instr.hops[hop]}
            /\ Eligible(Instr.hops[hop]) /\ Instr.hops[hop] \notin NoAmounts
      /\ Eligible(Instr.hops[hop]) /\ Instr.hops[hop] \notin NoAmounts => Instr.hops[hop] \in FillsSet'
  <2> DEFINE h == Instr.hops[hop]
             keep == Eligible(h) /\ h \notin NoAmounts
  <2>1. CASE keep
    <3>1. fills' = Append(fills, h) /\ h \in Trades
      BY <1>1, <1>3, <2>1
    <3>2. fills' \in Seq(Trades)
      BY <1>2, <3>1, SetOfAppend
    <3>3. FillsSet' = {Append(fills, h)[i] : i \in DOMAIN Append(fills, h)}
      BY <3>1, Zenon DEF FillsSet
    <3> HIDE DEF h
    <3>4. {Append(fills, h)[i] : i \in DOMAIN Append(fills, h)}
             = {fills[i] : i \in DOMAIN fills} \cup {h}
      BY <1>2, <3>1, SetOfAppend
    <3>5. FillsSet' = FillsSet \cup {h}
      BY <3>3, <3>4, Zenon DEF FillsSet
    <3>6. QED BY <2>1, <3>2, <3>5 DEF h
  <2>2. CASE ~keep
    <3>1. fills' = fills
      BY <1>1, <2>2
    <3>2. FillsSet' = FillsSet
      BY <3>1 DEF FillsSet
    <3>3. QED BY <1>2, <2>2, <3>1, <3>2
  <2>3. QED BY <2>1, <2>2
<1>5. TypeOK'
  BY <1>1, <1>2, <1>4 DEF Inv, TypeOK
<1>6. Places'
  <2>1. hop' <= Len(Instr.hops) + 1
    BY <1>1, <1>2, <1>3
  <2>2. Instr' = Instr
    BY <1>1 DEF Instr
  <2>3. QED BY <1>1, <1>2, <2>1, <2>2 DEF Inv, Places
<1>7. RowsInv'
  BY <1>1, RowsKept DEF Inv
<1>8. ASSUME ~Readonly PROVE Sound' /\ Complete'
  <2>1. EmittedSet' = EmittedSet
    BY <1>1 DEF EmittedSet
  <2>2. Eligible(Instr.hops[hop]) /\ Instr.hops[hop] \notin NoAmounts => Listed(Instr.hops[hop])
    <3>1. InstrsOf[tx][ip].kind = "multi_hop"
      BY <1>2 DEF Instr
    <3>2. QED BY <1>2, <1>3, <1>8, <3>1, EligibleListed
  <2>3. \A x \in EmittedSet' \cup FillsSet' : Listed(x)
    BY <1>4, <1>8, <2>1, <2>2 DEF Inv, Sound
  <2>4. Sound'
    BY <1>1, <2>3, ListedKept DEF Sound
  <2>5. ASSUME NEW j \in DOMAIN HopsOf(ip), j < hop + 1, Wanted(ip, j)
        PROVE  HopsOf(ip)[j] \in EmittedSet \cup FillsSet'
    <3>1. j < hop \/ j = hop
      BY <1>2, <1>3, <2>5
    <3>2. CASE j < hop
      BY <1>1, <1>4, <1>8, <2>5, <3>2 DEF Inv, Complete
    <3>3. CASE j = hop
      <4>1. Eligible(HopsOf(ip)[j]) /\ HopsOf(ip)[j] \notin NoAmounts
        BY <1>2, <1>8, <2>5, WantedEligible DEF Instr
      <4>2. QED BY <1>3, <1>4, <3>3, <4>1
    <3>4. QED BY <3>1, <3>2, <3>3
  <2>6. ASSUME NEW i, NEW j PROVE (Wanted(i, j)' <=> Wanted(i, j)) /\ HopsOf(i)' = HopsOf(i)
    BY <1>1 DEF Wanted, HopsOf
  <2>7. /\ \A i \in DOMAIN InstrsOf[tx] : i < ip =>
              \A j \in DOMAIN HopsOf(i) : Wanted(i, j) => HopsOf(i)[j] \in EmittedSet
    BY <1>8 DEF Inv, Complete
  <2>8. ASSUME NEW i, i = ip
        PROVE  \A j \in DOMAIN HopsOf(i)' : j < hop' /\ Wanted(i, j)'
                    => HopsOf(i)'[j] \in EmittedSet' \cup FillsSet'
    BY <1>1, <2>1, <2>5, <2>6, <2>8
  <2>9. Complete'
    BY <1>1, <2>1, <2>6, <2>7, <2>8 DEF Complete
  <2>10. QED BY <2>4, <2>9
<1>9. QED BY <1>5, <1>6, <1>7, <1>8 DEF Inv

LEMMA CollectedKeeps == ASSUME Inv, HopsCollected PROVE Inv'
<1>1. /\ hpc = "hops" /\ hpc' = "emit" /\ hop > Len(Instr.hops)
      /\ UNCHANGED <<allMints, whitelist, wpc, rows, changes, loaded, prev, tx, ip, hop, fills, tradeIndex,
                     table, deliveries, emitted, lists, queried, overlap, accepted>>
  BY DEF HopsCollected, wvars, scope
<1>2. TypeOK'
  BY <1>1 DEF Inv, TypeOK
<1>3. Places'
  BY <1>1 DEF Inv, Places, Instr
<1>4. RowsInv'
  BY <1>1, RowsKept DEF Inv
<1>5. ~Readonly => Sound' /\ Complete'
  BY <1>1, ScopeKept DEF Inv
<1>6. QED BY <1>2, <1>3, <1>4, <1>5 DEF Inv

LEMMA FillKeeps == ASSUME Inv, EmitFill PROVE Inv'
<1>1. /\ hpc = "emit" /\ ip \in DOMAIN InstrsOf[tx] /\ Instr.kind = "multi_hop"
      /\ hop > Len(Instr.hops) /\ fills \in Seq(Trades)
      /\ UNCHANGED <<allMints, whitelist, wpc, rows, changes, loaded, prev, tx, hop, deliveries, lists, queried, overlap, accepted>>
  BY DEF EmitFill, Inv, Places, TypeOK, wvars, scope
<1>2. CASE fills # <<>>
  <2>1. Emit(Head(fills)) /\ fills' = Tail(fills) /\ hpc' = "emit" /\ ip' = ip
    BY <1>1, <1>2 DEF EmitFill
  <2>2. /\ Head(fills) \in Trades /\ fills' \in Seq(Trades)
        /\ FillsSet = FillsSet' \cup {Head(fills)}
    BY <1>1, <1>2, <2>1, SetOfTail DEF FillsSet
  <2>3. /\ emitted' \in Seq(Trades) /\ tradeIndex' = Len(emitted')
        /\ EmittedSet' = EmittedSet \cup {Head(fills)}
        /\ table' \in [Txs -> Seq(Trades)] /\ RowsInv'
    BY <1>1, <2>1, <2>2, EmitKeepsRows DEF Inv
  <2>4. EmittedSet' \cup FillsSet' = EmittedSet \cup FillsSet /\ EmittedSet \subseteq EmittedSet'
    BY <2>2, <2>3
  <2>5. TypeOK'
    BY <1>1, <2>1, <2>2, <2>3 DEF Inv, TypeOK
  <2>6. Places'
    BY <1>1, <2>1 DEF Inv, Places, Instr
  <2>7. ASSUME ~Readonly PROVE Sound' /\ Complete'
    <3>1. Sound'
      BY <1>1, <2>4, <2>7, ListedKept DEF Inv, Sound
    <3>2. ASSUME NEW i, NEW j PROVE (Wanted(i, j)' <=> Wanted(i, j)) /\ HopsOf(i)' = HopsOf(i)
      BY <1>1 DEF Wanted, HopsOf
    <3>3. \A i \in DOMAIN InstrsOf[tx] : i < ip =>
            \A j \in DOMAIN HopsOf(i) : Wanted(i, j) => HopsOf(i)[j] \in EmittedSet
      BY <2>7 DEF Inv, Complete
    <3>4. \A j \in DOMAIN HopsOf(ip) :
            j < hop /\ Wanted(ip, j) => HopsOf(ip)[j] \in EmittedSet \cup FillsSet
      BY <1>1, <2>7 DEF Inv, Complete
    <3>5. ASSUME NEW i, i = ip
          PROVE  \A j \in DOMAIN HopsOf(i)' : j < hop' /\ Wanted(i, j)'
                      => HopsOf(i)'[j] \in EmittedSet' \cup FillsSet'
      BY <1>1, <2>4, <3>2, <3>4, <3>5
    <3>6. Complete'
      BY <1>1, <2>1, <2>4, <3>2, <3>3, <3>5 DEF Complete
    <3>7. QED BY <3>1, <3>6
  <2>8. QED BY <2>3, <2>5, <2>6, <2>7 DEF Inv
<1>3. CASE fills = <<>>
  <2>1. hpc' = "scan" /\ ip' = ip + 1 /\ UNCHANGED <<fills, tradeIndex, table, emitted>>
    BY <1>1, <1>3 DEF EmitFill
  <2>2. ip <= Len(InstrsOf[tx])
    BY <1>1, InstrsTyped DEF Inv, TypeOK
  <2>3. /\ ip + 1 \in 1..(Len(InstrsOf[tx]) + 1)
        /\ Len(Instr.hops) \in Nat /\ DOMAIN HopsOf(ip) = 1..Len(Instr.hops)
    BY <2>2, InstrTyped DEF Inv
  <2>4. TypeOK'
    BY <1>1, <2>1, <2>3 DEF Inv, TypeOK
  <2>5. Places'
    BY <1>1, <1>3, <2>1 DEF Inv, Places
  <2>6. RowsInv'
    BY <1>1, <2>1, RowsKept DEF Inv
  <2>7. ASSUME ~Readonly PROVE Sound' /\ Complete'
    <3>1. EmittedSet' = EmittedSet /\ FillsSet' = FillsSet /\ FillsSet = {}
      BY <1>3, <2>1 DEF EmittedSet, FillsSet
    <3>2. Sound'
      BY <1>1, <2>7, <3>1, ListedKept DEF Inv, Sound
    <3>3. \A j \in DOMAIN HopsOf(ip) : j < hop
      BY <1>1, <2>3 DEF Inv, TypeOK
    <3>4. \A j \in DOMAIN HopsOf(ip) : Wanted(ip, j) => HopsOf(ip)[j] \in EmittedSet
      BY <1>1, <2>7, <3>1, <3>3 DEF Inv, Complete
    <3>5. Complete'
      BY <1>1, <2>1, <2>2, <2>7, <3>1, <3>4, NextInstr
    <3>6. QED BY <3>2, <3>5
  <2>8. QED BY <2>4, <2>5, <2>6, <2>7 DEF Inv
<1>4. QED BY <1>2, <1>3

LEMMA ReturnKeeps == ASSUME Inv, Return PROVE Inv'
<1>1. /\ hpc = "scan" /\ hpc' = "idle" /\ ip > Len(InstrsOf[tx])
      /\ UNCHANGED <<allMints, whitelist, wpc, rows, changes, loaded, prev, tx, ip, hop, fills, tradeIndex,
                     table, deliveries, emitted, lists, queried, overlap>>
  BY DEF Return, wvars, scope
<1>2. accepted' \in [Txs -> Seq(Seq(Trades))] /\ RowsInv'
  BY ReturnKeepsRows DEF Inv
<1>3. TypeOK'
  BY <1>1, <1>2 DEF Inv, TypeOK
<1>4. Places'
  BY <1>1 DEF Inv, Places
<1>5. ~Readonly => Sound' /\ Complete'
  BY <1>1, ScopeKept DEF Inv
<1>6. QED BY <1>2, <1>3, <1>4, <1>5 DEF Inv

-----------------------------------------------------------------------------
(* The theorems.                                                           *)

\* The invariant is inductive.
THEOREM InvCorrect == Spec => []Inv
<1>1. Init => Inv
  <2> SUFFICES ASSUME Init PROVE Inv
    OBVIOUS
  <2>1. /\ hpc = "idle" /\ tx \in Txs /\ ip = 1 /\ hop = 1 /\ fills = <<>> /\ tradeIndex = 0
        /\ deliveries = 0 /\ table = [t \in Txs |-> <<>>] /\ emitted = <<>> /\ lists = {}
        /\ queried = {} /\ overlap = FALSE
        /\ accepted = [t \in Txs |-> <<>>]
    BY DEF Init
  <2>2. TypeOK
    <3>1. <<>> \in Seq(Trades) /\ <<>> \in Seq(Seq(Trades)) /\ Len(<<>>) = 0
      BY EmptySeq
    <3>2. 1 \in 1..(Len(InstrsOf[tx]) + 1)
      BY <2>1, InstrsTyped
    <3>3. /\ allMints \subseteq Mints /\ whitelist \subseteq Mints /\ rows \subseteq Mints
          /\ loaded \subseteq Mints /\ prev \subseteq Mints
          /\ wpc = "idle" /\ changes \in 0..MaxChanges
      BY ChangesAssumption DEF Init, WInit
    <3>4. 0 \in 0..MaxDeliveries
      BY HandlerAssumption
    <3>5. lists \subseteq SUBSET Mints /\ queried \subseteq SUBSET Mints /\ overlap \in BOOLEAN
      BY <2>1
    <3>6. QED BY <2>1, <3>1, <3>2, <3>3, <3>4, <3>5 DEF TypeOK
  <2>3. Places
    BY <2>1 DEF Places
  <2>4. Sound
    BY <2>1 DEF Sound, EmittedSet, FillsSet
  <2>5. Complete
    <3>1. \A i \in DOMAIN InstrsOf[tx] : ~(i < 1)
      BY <2>1, InstrsTyped
    <3>2. QED BY <2>1, <3>1 DEF Complete
  <2>6. RowsInv
    <3>1. ASSUME NEW t \in Txs, NEW i \in Nat \ {0} PROVE RowRight(t, i)
      <4>1. Emitters(t, i) = {} /\ Len(table[t]) = 0
        BY <2>1, EmptySeq DEF Emitters
      <4>2. QED BY <4>1 DEF RowRight
    <3>2. QED BY <2>1, <3>1 DEF RowsInv
  <2>7. QED BY <2>2, <2>3, <2>4, <2>5, <2>6 DEF Inv
<1>2. Inv /\ [Next]_vars => Inv'
  <2> SUFFICES ASSUME Inv, [Next]_vars PROVE Inv'
    OBVIOUS
  <2>1. CASE UNCHANGED vars
    <3>1. UNCHANGED <<allMints, whitelist, wpc, rows, changes, loaded, prev, hpc, tx, ip, hop, fills, tradeIndex,
                      table, deliveries, emitted, lists, queried, overlap, accepted>>
      BY <2>1 DEF vars, wvars, hvars, scope
    <3>2. TypeOK' /\ Places'
      BY <3>1 DEF Inv, TypeOK, Places, Instr
    <3>3. ~Readonly => Sound' /\ Complete'
      BY <3>1, ScopeKept DEF Inv
    <3>4. RowsInv'
      BY <3>1, RowsKept DEF Inv
    <3>5. QED BY <3>2, <3>3, <3>4 DEF Inv
  <2>2. QED BY <2>1, DeliverKeeps, SkipKeeps, TradeKeeps, StartKeeps, CollectKeeps, CollectedKeeps,
               FillKeeps, ReturnKeeps, RefreshKeeps DEF Next
<1>3. QED BY <1>1, <1>2, PTL DEF Spec

(* Type correctness: in particular trade_index is the number of trades the *)
(* delivery under way has emitted.                                         *)
THEOREM TypeCorrect == Spec => []TypeOK
<1>1. Inv => TypeOK
  BY DEF Inv
<1>2. QED BY <1>1, InvCorrect, PTL

\* What the DashSet holds against what the queries returned: the last result
\* between refreshes, a part of the one before or of the last one during one.
ScopeInv ==
    /\ wpc = "idle" => whitelist = loaded
    /\ wpc = "clear" => whitelist \subseteq prev /\ rows = loaded
    /\ wpc = "insert" => whitelist \cup rows = loaded
    /\ hpc # "idle" => /\ loaded \in queried
                       /\ wpc = "clear" => prev \in queried
                       /\ wpc # "idle" => overlap
    /\ \A w \in lists : \E q \in queried : w \subseteq q
    /\ ~overlap => lists \subseteq queried

LEMMA RefreshKeepsScope == ASSUME TypeOK, ScopeInv, Refresh PROVE ScopeInv'
<1>1. /\ UNCHANGED hpc
      /\ lists' = IF hpc = "idle" THEN lists ELSE lists \cup {whitelist'}
      /\ queried' = IF hpc = "idle" THEN queried ELSE queried \cup {loaded'}
      /\ overlap' = IF hpc = "idle" THEN overlap ELSE overlap \/ wpc' # "idle"
  BY DEF Refresh, scope
<1>2. /\ wpc' = "idle" => whitelist' = loaded'
      /\ wpc' = "clear" => whitelist' \subseteq prev' /\ rows' = loaded'
      /\ wpc' = "insert" => whitelist' \cup rows' = loaded'
      /\ wpc' = "clear" /\ hpc # "idle" => prev' \in queried
      /\ wpc' = "idle" => UNCHANGED loaded
  <2>1. CASE ChangeMints
    BY <2>1 DEF ChangeMints, ScopeInv
  <2>2. CASE QueryMints
    BY <2>2 DEF QueryMints, ScopeInv
  <2>3. CASE Clear
    BY <2>3 DEF Clear, ScopeInv
  <2>4. CASE Insert
    BY <2>4 DEF Insert, ScopeInv
  <2>5. QED BY <2>1, <2>2, <2>3, <2>4 DEF Refresh, WNext
<1>3. CASE hpc = "idle"
  BY <1>1, <1>2, <1>3 DEF ScopeInv
<1>4. CASE hpc # "idle"
  <2>1. loaded' \in queried' /\ queried \subseteq queried' /\ (wpc' # "idle" => overlap')
    BY <1>1, <1>4
  <2>2. \E q \in queried' : whitelist' \subseteq q
    <3>1. wpc' \in {"idle", "clear", "insert"}
      BY DEF Refresh, WNext, ChangeMints, QueryMints, Clear, Insert, TypeOK
    <3>2. QED BY <1>2, <1>4, <2>1, <3>1
  <2>3. \A w \in lists' : \E q \in queried' : w \subseteq q
    BY <1>1, <1>4, <2>1, <2>2 DEF ScopeInv
  <2>4. ~overlap' => lists' \subseteq queried'
    BY <1>1, <1>2, <1>4, <2>1 DEF ScopeInv
  <2>5. QED BY <1>1, <1>2, <1>4, <2>1, <2>3, <2>4 DEF ScopeInv
<1>5. QED BY <1>3, <1>4

THEOREM ScopeCorrect == Spec => []ScopeInv
<1>1. Init => ScopeInv
  BY DEF Init, WInit, ScopeInv
<1>2. TypeOK /\ ScopeInv /\ [Next]_vars => ScopeInv'
  <2> SUFFICES ASSUME TypeOK, ScopeInv, [Next]_vars PROVE ScopeInv'
    OBVIOUS
  <2>1. ASSUME NEW t \in Txs, Deliver(t) PROVE ScopeInv'
    <3>1. /\ lists' = {whitelist} /\ overlap' = (wpc # "idle")
          /\ queried' = IF wpc = "clear" THEN {prev, loaded} ELSE {loaded}
          /\ UNCHANGED <<whitelist, wpc, rows, loaded, prev>>
      BY <2>1 DEF Deliver, ScopeAtStart, wvars
    <3>2. wpc \in {"idle", "clear", "insert"}
      BY DEF TypeOK
    <3>3. \E q \in queried' : whitelist \subseteq q
      BY <3>1, <3>2 DEF ScopeInv
    <3>4. (wpc # "idle" => overlap') /\ (~overlap' => wpc = "idle")
      BY <3>1
    <3>5. loaded \in queried' /\ (wpc = "clear" => prev \in queried')
      BY <3>1
    <3>6. ~overlap' => lists' \subseteq queried'
      BY <3>1, <3>4, <3>5 DEF ScopeInv
    <3>7. QED BY <3>1, <3>3, <3>4, <3>5, <3>6 DEF ScopeInv
  <2>2. CASE SkipInstr \/ EmitTrade \/ StartHops \/ CollectHop \/ HopsCollected \/ EmitFill
             \/ Return \/ UNCHANGED vars
    <3>1. /\ UNCHANGED <<whitelist, wpc, rows, loaded, prev, lists, queried, overlap>>
          /\ hpc' # "idle" => hpc # "idle"
      BY <2>2 DEF SkipInstr, EmitTrade, StartHops, CollectHop, HopsCollected, EmitFill, Return,
                  vars, wvars, hvars, scope
    <3>2. QED BY <3>1 DEF ScopeInv
  <2>3. QED BY <2>1, <2>2, RefreshKeepsScope DEF Next
<1>3. QED BY <1>1, <1>2, TypeCorrect, PTL DEF Spec

(* process_pump_swap_tx emits every recordable trade whose mint the last   *)
(* query returned and no other, unless a refresh was at work meanwhile;    *)
(* then it can drop trades of mints that clear() had taken out, and still  *)
(* emits none whose mint no query returned.                                *)
THEOREM EmitsByScopeCorrect == Spec => []EmitsByScope
<1>1. Inv /\ ScopeInv => EmitsByScope
  <2> SUFFICES ASSUME Inv, ScopeInv, Returned, ~Readonly
               PROVE  /\ \A t \in EmittedSet :
                            t \in Recordable(tx) /\ \E q \in queried : MintOf[t] \in q
                      /\ \A t \in Recordable(tx) \ EmittedSet :
                            /\ \E w \in lists : MintOf[t] \notin w
                            /\ overlap \/ \E q \in queried : MintOf[t] \notin q
    BY DEF EmitsByScope
  <2>1. ip > Len(InstrsOf[tx]) /\ tx \in Txs /\ ip \in 1..(Len(InstrsOf[tx]) + 1)
    BY DEF Inv, Places, Returned, TypeOK
  <2>2. ASSUME NEW t \in Recordable(tx), \A w \in lists : MintOf[t] \in w
        PROVE  t \in EmittedSet
    <3>1. PICK i \in DOMAIN InstrsOf[tx] :
              /\ \E j \in DOMAIN InstrsOf[tx][i].hops : InstrsOf[tx][i].hops[j] = t
              /\ t \notin Filtered
              /\ \/ InstrsOf[tx][i].kind = "trade"
                 \/ InstrsOf[tx][i].kind = "multi_hop" /\ t \notin NoAmounts
      BY DEF Recordable
    <3>2. PICK j \in DOMAIN InstrsOf[tx][i].hops : InstrsOf[tx][i].hops[j] = t
      BY <3>1
    <3>3. i < ip
      BY <2>1, InstrsTyped
    <3>4. Wanted(i, j) /\ HopsOf(i)[j] = t
      BY <2>2, <3>1, <3>2 DEF Wanted, HopsOf
    <3>5. QED BY <3>3, <3>4 DEF Inv, Complete, HopsOf
  <2>3. ASSUME NEW t \in EmittedSet
        PROVE  t \in Recordable(tx) /\ \E q \in queried : MintOf[t] \in q
    <3>1. t \in Recordable(tx) /\ \E w \in lists : MintOf[t] \in w
      BY DEF Inv, Sound, Listed
    <3>2. QED BY <3>1 DEF ScopeInv
  <2>4. ASSUME NEW t \in Recordable(tx) \ EmittedSet
        PROVE  /\ \E w \in lists : MintOf[t] \notin w
               /\ overlap \/ \E q \in queried : MintOf[t] \notin q
    <3>1. PICK w \in lists : MintOf[t] \notin w
      BY <2>2
    <3>2. ~overlap => w \in queried
      BY DEF ScopeInv
    <3>3. QED BY <3>1, <3>2
  <2>5. QED BY <2>3, <2>4
<1>2. QED BY <1>1, InvCorrect, ScopeCorrect, PTL

(* The row under (signature, i) is the i-th trade of the last delivery of  *)
(* the transaction that emitted so many: replays overwrite by position.    *)
THEOREM RowsByPositionCorrect == Spec => []RowsByPosition
<1>1. Inv => RowsByPosition
  <2> SUFFICES ASSUME Inv, hpc = "idle", ~Readonly, NEW t \in Txs, NEW i \in 1..Cardinality(Trades)
               PROVE  RowRight(t, i)
    BY DEF RowsByPosition, RowRight, Emitters
  <2>1. i \in Nat \ {0}
    OBVIOUS
  <2>2. QED BY <2>1 DEF Inv, RowsInv
<1>2. QED BY <1>1, InvCorrect, PTL

=============================================================================
