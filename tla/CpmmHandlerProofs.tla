------------------------- MODULE CpmmHandlerProofs -------------------------
(***************************************************************************)
(* Proofs about the CPMM handler and the refresh of alt_mints it races,    *)
(* for every set of mints, pools and transactions of any length, however   *)
(* the logs are cut, and every width of the amounts.                       *)
(***************************************************************************)
EXTENDS CpmmHandler, FiniteSetTheorems, SequenceTheorems, TLAPS

-----------------------------------------------------------------------------
(* The refresh of alt_mints.                                               *)

AltTypeOK ==
    /\ altDb \in AltMap /\ altMints \in AltMap /\ fresh \in AltMap /\ before \in AltMap
    /\ apc \in {"idle", "retain", "insert"} /\ todo \subseteq TrackedMints
    /\ altChanges \in 0..MaxAltChanges

\* Between the retain and the last insert, only the mints to do may differ
\* from the rows that were fetched, and they are in scope.
AltInv ==
    /\ AltTypeOK
    /\ \A m \in TrackedMints : altMints[m] \in {before[m], fresh[m]}
    /\ apc = "idle" => altMints = fresh
    /\ apc = "insert" => \A m \in TrackedMints \ todo : altMints[m] = fresh[m]

LEMMA AltStep == AltInv /\ ANext => AltInv'
<1> SUFFICES ASSUME AltInv, ANext PROVE AltInv'
  OBVIOUS
<1>0. /\ altDb \in AltMap /\ altMints \in AltMap /\ fresh \in AltMap /\ before \in AltMap
      /\ MaxAltChanges \in Nat /\ Absent \notin Infos
  BY AltAssumption DEF AltInv, AltTypeOK
<1>1. CASE ChangeAltDb
  <2>1. altDb' \in AltMap
    BY <1>0, <1>1 DEF ChangeAltDb, AltMap
  <2>2. altChanges' \in 0..MaxAltChanges
    BY <1>0, <1>1 DEF ChangeAltDb, AltInv, AltTypeOK
  <2>3. QED BY <1>1, <2>1, <2>2 DEF ChangeAltDb, AltInv, AltTypeOK
<1>2. CASE Fetch
  BY <1>2 DEF Fetch, AltInv, AltTypeOK
<1>3. CASE Retain
  <2>1. CASE \E m \in Rows(altMints) \ Rows(fresh) : altMints' = [altMints EXCEPT ![m] = Absent]
    <3>1. PICK m \in Rows(altMints) \ Rows(fresh) : altMints' = [altMints EXCEPT ![m] = Absent]
      BY <2>1
    <3>2. m \in TrackedMints /\ fresh[m] = Absent /\ UNCHANGED <<altDb, fresh, before, altChanges>>
      BY <1>3, <3>1 DEF Rows, Retain
    <3>3. altMints' \in AltMap
      BY <1>0, <3>1 DEF AltMap
    <3>4. \A l \in TrackedMints : altMints'[l] = IF l = m THEN Absent ELSE altMints[l]
      BY <1>0, <3>1 DEF AltMap
    <3>5. apc = "retain"
      BY <1>3 DEF Retain
    <3>6. CASE UNCHANGED <<apc, todo>>
      BY <3>2, <3>3, <3>4, <3>5, <3>6 DEF AltInv, AltTypeOK
    <3>7. CASE Rows(altMints) \ Rows(fresh) = {}
      BY <3>1, <3>7
    <3>8. QED BY <1>3, <3>6, <3>7 DEF Retain
  <2>2. CASE Rows(altMints) \ Rows(fresh) = {} /\ apc' = "insert" /\ todo' = Rows(fresh) /\ altMints' = altMints
    <3>1. UNCHANGED <<altDb, fresh, before, altChanges>>
      BY <1>3 DEF Retain
    <3>2. \A m \in TrackedMints \ todo' : altMints[m] = Absent /\ fresh[m] = Absent
      BY <2>2 DEF Rows
    <3>3. todo' \subseteq TrackedMints
      BY <2>2 DEF Rows
    <3>4. QED BY <2>2, <3>1, <3>2, <3>3 DEF AltInv, AltTypeOK
  <2>3. QED BY <1>3, <2>1, <2>2 DEF Retain
<1>4. CASE InsertInfo
  <2>1. apc = "insert" /\ UNCHANGED <<altDb, fresh, altChanges, before>>
    BY <1>4 DEF InsertInfo
  <2>2. ASSUME NEW m \in todo, altMints' = [altMints EXCEPT ![m] = fresh[m]],
               todo' = todo \ {m}, UNCHANGED apc
        PROVE  AltInv'
    <3>1. m \in TrackedMints
      BY DEF AltInv, AltTypeOK
    <3>2. altMints' \in AltMap /\ \A l \in TrackedMints : altMints'[l] = IF l = m THEN fresh[m] ELSE altMints[l]
      BY <1>0, <2>2, <3>1 DEF AltMap
    <3>3. QED BY <2>1, <2>2, <3>1, <3>2 DEF AltInv, AltTypeOK
  <2>3. ASSUME todo = {}, apc' = "idle", UNCHANGED <<altMints, todo>> PROVE AltInv'
    <3>1. \A m \in TrackedMints : altMints[m] = fresh[m]
      BY <2>1, <2>3 DEF AltInv
    <3>2. altMints = fresh
      BY <1>0, <3>1 DEF AltMap
    <3>3. QED BY <2>1, <2>3, <3>2 DEF AltInv, AltTypeOK
  <2>4. QED BY <1>4, <2>2, <2>3 DEF InsertInfo
<1>5. QED BY <1>1, <1>2, <1>3, <1>4 DEF ANext

(* refresh_alt_mints replaces the map "atomically per key": a handler that *)
(* looks a mint up meanwhile finds its old row or its new one.             *)
THEOREM AtomicPerKeyCorrect == Spec => []AtomicPerKey
<1>1. Init => AltInv
  BY AltAssumption DEF Init, AInit, AltInv, AltTypeOK
<1>2. AltInv /\ [Next]_vars => AltInv'
  <2> SUFFICES ASSUME AltInv, [Next]_vars PROVE AltInv'
    OBVIOUS
  <2>1. CASE Refresh
    BY <2>1, AltStep DEF Refresh
  <2>2. CASE UNCHANGED avars
    BY <2>2 DEF avars, AltInv, AltTypeOK
  <2>3. QED BY <2>1, <2>2 DEF Next, vars, Deliver, Skip, Send, SendFromLog, SendFromCpi,
                              SendFromVaults, SendRequested, Return
<1>3. AltInv => AtomicPerKey
  BY DEF AltInv, AtomicPerKey
<1>4. QED BY <1>1, <1>2, <1>3, PTL DEF Spec

-----------------------------------------------------------------------------
(* The order of the instructions.                                          *)

LEMMA FunctionIsSeq ==
    ASSUME NEW S, NEW k \in Nat, NEW f \in [1..k -> S]
    PROVE  f \in Seq(S) /\ Len(f) = k
OBVIOUS

\* InOrder lists the members of the set, each once: the ranks of n different
\* numbers are the numbers below n.
LEMMA InOrderLists ==
    ASSUME NEW S \in SUBSET Nat, IsFiniteSet(S)
    PROVE  /\ Cardinality(S) \in Nat
           /\ InOrder(S) \in [1..Cardinality(S) -> S]
           /\ \A x \in S : \E i \in 1..Cardinality(S) : InOrder(S)[i] = x
<1> DEFINE n == Cardinality(S)
           Below(x) == {y \in S : y < x}
           rank == [x \in S |-> Cardinality(Below(x))]
<1>1. n \in Nat
  BY FS_CardinalityType
<1>2. ASSUME NEW x \in S PROVE rank[x] \in 0..(n - 1)
  <2>1. Below(x) \in SUBSET S /\ x \notin Below(x)
    OBVIOUS
  <2>2. IsFiniteSet(Below(x)) /\ Cardinality(Below(x)) <= n /\ n # Cardinality(Below(x))
    BY <2>1, FS_Subset
  <2>3. Cardinality(Below(x)) \in Nat
    BY <2>2, FS_CardinalityType
  <2>4. QED BY <1>1, <2>2, <2>3
<1>3. ASSUME NEW x \in S, NEW y \in S, x < y PROVE rank[x] # rank[y]
  <2>1. Below(x) \in SUBSET Below(y) /\ x \in Below(y) /\ x \notin Below(x)
    <3>1. x \in Nat /\ y \in Nat /\ \A z \in S : z \in Nat
      OBVIOUS
    <3>2. \A z \in S : z < x => z < y
      BY <1>3, <3>1
    <3>3. Below(x) \subseteq Below(y)
      BY <3>2
    <3>4. x \in Below(y) /\ x \notin Below(x)
      BY <1>3, <3>1
    <3>5. QED BY <3>3, <3>4
  <2>2. IsFiniteSet(Below(y))
    <3>1. Below(y) \in SUBSET S
      OBVIOUS
    <3>2. QED BY <3>1, FS_Subset
  <2>3. Cardinality(Below(y)) # Cardinality(Below(x))
    BY <2>1, <2>2, FS_Subset
  <2>4. QED BY <2>3
<1>4. ASSUME NEW x \in S, NEW y \in S, rank[x] = rank[y] PROVE x = y
  <2>1. x \in Nat /\ y \in Nat
    OBVIOUS
  <2>2. ~(x < y) /\ ~(y < x)
    BY <1>3, <1>4
  <2>3. QED BY <2>1, <2>2
<1> HIDE DEF rank
<1>5. rank \in Injection(S, 0..(n - 1))
  <2>1. rank \in [S -> 0..(n - 1)]
    BY <1>2 DEF rank
  <2>2. QED BY <1>4, <2>1 DEF Injection, IsInjective
<1>6. IsFiniteSet(0..(n - 1)) /\ Cardinality(0..(n - 1)) = n
  <2>1. n - 1 \in Int /\ 0 \in Int
    BY <1>1
  <2>2. /\ IsFiniteSet(0..(n - 1))
        /\ Cardinality(0..(n - 1)) = IF 0 > n - 1 THEN 0 ELSE (n - 1) - 0 + 1
    BY <2>1, FS_Interval
  <2>3. QED BY <1>1, <2>2
<1>7. rank \in Surjection(S, 0..(n - 1))
  BY <1>5, <1>6, FS_Injection
<1>8. ASSUME NEW i \in 1..n
      PROVE  InOrder(S)[i] \in S /\ rank[InOrder(S)[i]] = i - 1
  <2>1. i - 1 \in 0..(n - 1)
    BY <1>1
  <2>2. PICK x \in S : rank[x] = i - 1
    BY <1>7, <2>1 DEF Surjection
  <2>3. \A y \in S : rank[y] = Cardinality({z \in S : z < y})
    BY DEF rank
  <2>4. \E y \in S : Cardinality({z \in S : z < y}) = i - 1
    BY <2>2, <2>3
  <2>5. /\ InOrder(S)[i] \in S
        /\ Cardinality({z \in S : z < InOrder(S)[i]}) = i - 1
    BY <2>4 DEF InOrder
  <2>6. QED BY <2>3, <2>5
<1>9. InOrder(S) \in [1..n -> S]
  <2> DEFINE pick(i) == CHOOSE x \in S : Cardinality({y \in S : y < x}) = i - 1
  <2>1. InOrder(S) = [i \in 1..n |-> pick(i)]
    BY Zenon DEF InOrder
  <2>2. ASSUME NEW i \in 1..n PROVE pick(i) \in S
    <3>1. InOrder(S)[i] = pick(i)
      BY <2>1, Zenon
    <3>2. QED BY <1>8, <3>1, Zenon
  <2> HIDE DEF pick
  <2>3. QED BY <2>1, <2>2, Zenon
<1>10. ASSUME NEW x \in S PROVE \E i \in 1..n : InOrder(S)[i] = x
  <2>1. rank[x] + 1 \in 1..n /\ (rank[x] + 1) - 1 = rank[x]
    <3>1. rank[x] \in 0..(n - 1)
      BY <1>2
    <3>2. \A k \in 0..(n - 1) : k + 1 \in 1..n /\ (k + 1) - 1 = k
      BY <1>1
    <3>3. QED BY <3>1, <3>2
  <2>2. InOrder(S)[rank[x] + 1] \in S /\ rank[InOrder(S)[rank[x] + 1]] = rank[x]
    BY <1>8, <2>1
  <2>3. InOrder(S)[rank[x] + 1] = x
    BY <1>4, <2>2
  <2>4. QED BY <2>1, <2>3
<1>11. QED BY <1>1, <1>9, <1>10

\* The list has every instruction, the top-level ones and the CPIs.
LEMMA ListedAll ==
    ASSUME NEW t \in Seq(Swaps)
    PROVE  {Listed(t)[i] : i \in DOMAIN Listed(t)} = DOMAIN t
<1> DEFINE A == {i \in DOMAIN t : ~t[i].cpi}
           B == {i \in DOMAIN t : t[i].cpi}
           f == InOrder(A)
           g == InOrder(B)
<1>1. Len(t) \in Nat /\ DOMAIN t = 1..Len(t)
  OBVIOUS
<1>2. IsFiniteSet(DOMAIN t) /\ A \in SUBSET DOMAIN t /\ B \in SUBSET DOMAIN t
  BY <1>1, FS_Interval
<1>3. IsFiniteSet(A) /\ IsFiniteSet(B) /\ A \in SUBSET Nat /\ B \in SUBSET Nat
  BY <1>1, <1>2, FS_Subset
<1>4. /\ Cardinality(A) \in Nat /\ f \in [1..Cardinality(A) -> A]
      /\ \A x \in A : \E i \in 1..Cardinality(A) : f[i] = x
  BY <1>3, InOrderLists
<1>5. /\ Cardinality(B) \in Nat /\ g \in [1..Cardinality(B) -> B]
      /\ \A x \in B : \E i \in 1..Cardinality(B) : g[i] = x
  BY <1>3, InOrderLists
<1>6. DOMAIN t = A \cup B
  OBVIOUS
<1>7. Listed(t) = f \o g
  BY DEF Listed
<1> HIDE DEF A, B, f, g
<1>8. /\ f \in Seq(DOMAIN t) /\ Len(f) = Cardinality(A)
      /\ g \in Seq(DOMAIN t) /\ Len(g) = Cardinality(B)
  <2>1. f \in [1..Cardinality(A) -> DOMAIN t] /\ g \in [1..Cardinality(B) -> DOMAIN t]
    BY <1>4, <1>5, <1>6
  <2>2. QED BY <1>4, <1>5, <2>1, FunctionIsSeq
<1>9. /\ DOMAIN (f \o g) = 1..(Len(f) + Len(g))
      /\ \A i \in 1..(Len(f) + Len(g)) :
            (f \o g)[i] = IF i <= Len(f) THEN f[i] ELSE g[i - Len(f)]
  <2>1. /\ f \o g \in Seq(DOMAIN t) /\ Len(f \o g) = Len(f) + Len(g)
        /\ \A i \in 1..(Len(f) + Len(g)) :
            (f \o g)[i] = IF i <= Len(f) THEN f[i] ELSE g[i - Len(f)]
    BY <1>8, ConcatProperties
  <2>2. DOMAIN (f \o g) = 1..Len(f \o g)
    BY <2>1, LenProperties
  <2>3. QED BY <2>1, <2>2
<1>10. ASSUME NEW i \in DOMAIN (f \o g) PROVE (f \o g)[i] \in DOMAIN t
  <2>1. CASE i <= Len(f)
    BY <1>4, <1>6, <1>8, <1>9, <2>1
  <2>2. CASE ~(i <= Len(f))
    <3>1. i - Len(f) \in 1..Cardinality(B)
      BY <1>4, <1>5, <1>8, <1>9, <2>2
    <3>2. QED BY <1>5, <1>6, <1>9, <2>2, <3>1
  <2>3. QED BY <2>1, <2>2
<1>11. ASSUME NEW x \in A PROVE \E i \in DOMAIN (f \o g) : (f \o g)[i] = x
  <2>1. PICK i \in 1..Cardinality(A) : f[i] = x
    BY <1>4
  <2>2. i \in 1..(Len(f) + Len(g)) /\ i <= Len(f)
    BY <1>4, <1>5, <1>8
  <2>3. QED BY <1>9, <2>1, <2>2
<1>12. ASSUME NEW x \in B PROVE \E i \in DOMAIN (f \o g) : (f \o g)[i] = x
  <2>1. PICK i \in 1..Cardinality(B) : g[i] = x
    BY <1>5
  <2>2. /\ i + Len(f) \in 1..(Len(f) + Len(g)) /\ ~(i + Len(f) <= Len(f))
        /\ (i + Len(f)) - Len(f) = i
    BY <1>4, <1>5, <1>8
  <2>3. (f \o g)[i + Len(f)] = x
    BY <1>9, <2>1, <2>2
  <2>4. QED BY <1>9, <2>2, <2>3
<1>13. QED BY <1>6, <1>7, <1>10, <1>11, <1>12

\* Sorted, the instructions are in execution order, whichever are CPIs.
LEMMA OrderIs ==
    ASSUME NEW t \in Seq(Swaps)
    PROVE  ExecutionOrder(Listed(t)) = [i \in 1..Len(t) |-> i]
<1> DEFINE n == Len(t)
<1>1. n \in Nat /\ DOMAIN t = 1..n
  OBVIOUS
<1>2. ExecutionOrder(Listed(t)) = InOrder(1..n)
  BY <1>1, ListedAll DEF ExecutionOrder
<1> HIDE DEF n
<1>3. Cardinality(1..n) = n
  BY <1>1, FS_Interval
<1>4. ASSUME NEW x \in 1..n PROVE Cardinality({y \in 1..n : y < x}) = x - 1
  <2>1. {y \in 1..n : y < x} = 1..(x - 1)
    BY <1>1
  <2>2. x - 1 \in Int /\ 1 \in Int
    BY <1>1
  <2>3. Cardinality(1..(x - 1)) = IF 1 > x - 1 THEN 0 ELSE (x - 1) - 1 + 1
    BY <2>2, FS_Interval
  <2>4. Cardinality({y \in 1..n : y < x}) = Cardinality(1..(x - 1))
    BY <2>1, Zenon
  <2>5. QED BY <1>1, <2>3, <2>4
<1>5. ASSUME NEW i \in 1..n
      PROVE  (CHOOSE x \in 1..n : Cardinality({y \in 1..n : y < x}) = i - 1) = i
  <2> DEFINE c == CHOOSE x \in 1..n : Cardinality({y \in 1..n : y < x}) = i - 1
  <2>1. \E x \in 1..n : Cardinality({y \in 1..n : y < x}) = i - 1
    BY <1>4
  <2>2. c \in 1..n /\ Cardinality({y \in 1..n : y < c}) = i - 1
    BY <2>1
  <2> HIDE DEF c
  <2>3. c - 1 = i - 1
    BY <1>4, <2>2
  <2>4. c = i
    BY <1>1, <2>2, <2>3
  <2>5. QED BY <2>4 DEF c
<1>6. QED BY <1>2, <1>3, <1>5 DEF InOrder, n

-----------------------------------------------------------------------------
(* Amounts.                                                                *)

LEMMA MinOfTwo ==
    ASSUME NEW m \in Int, NEW n \in Int
    PROVE  Min({m, n}) = IF m <= n THEN m ELSE n
<1>1. CASE m <= n
  <2>1. m \in {m, n} /\ \A y \in {m, n} : m <= y
    BY <1>1
  <2>2. \A x \in {m, n} : (\A y \in {m, n} : x <= y) => x = m
    BY <1>1
  <2>3. QED BY <1>1, <2>1, <2>2 DEF Min
<1>2. CASE ~(m <= n)
  <2>1. n \in {m, n} /\ \A y \in {m, n} : n <= y
    BY <1>2
  <2>2. \A x \in {m, n} : (\A y \in {m, n} : x <= y) => x = n
    BY <1>2
  <2>3. QED BY <1>2, <2>1, <2>2 DEF Min
<1>3. QED BY <1>1, <1>2

\* The market cap of any three amounts: the floor of the exact quotient, or
\* U64Max where that does not fit; the u128 product never saturates.
CapIs(cap, quote, base, supply) ==
    IF base = 0 THEN cap = 0
    ELSE /\ cap * base <= quote * supply /\ cap <= U64Max
         /\ cap < U64Max => (cap + 1) * base > quote * supply

LEMMA MarketCapIs ==
    ASSUME NEW quote \in Amounts, NEW base \in Amounts, NEW supply \in Amounts
    PROVE  CapIs(MarketCap(quote, base, supply), quote, base, supply)
<1>0. /\ U64Max \in Nat /\ quote \in Nat /\ base \in Nat /\ supply \in Nat
      /\ quote <= U64Max /\ supply <= U64Max
  BY CpmmAssumption DEF Amounts
<1>1. CASE base = 0
  BY <1>1 DEF MarketCap, CapIs
<1>2. CASE base # 0
  <2> DEFINE value == quote * supply
             wide  == (U64Max + 1) * (U64Max + 1) - 1
             d     == value \div base
  <2>1. value \in Nat /\ wide \in Nat
    BY <1>0
  <2>2. value <= wide
    <3>1. quote * supply <= quote * U64Max
      BY <1>0
    <3>2. quote * U64Max <= U64Max * U64Max
      BY <1>0
    <3>3. U64Max * U64Max <= (U64Max + 1) * (U64Max + 1) - 1
      BY <1>0
    <3>4. QED BY <1>0, <3>1, <3>2, <3>3
  <2>3. Min({value, wide}) = value
    BY <2>1, <2>2, MinOfTwo
  <2>4. MarketCap(quote, base, supply) = Min({d, U64Max})
    BY <1>2, <2>3 DEF MarketCap
  <2> HIDE DEF value
  <2>5. d \in Nat /\ d * base <= value /\ (d + 1) * base > value
    BY <1>0, <1>2, <2>1
  <2> HIDE DEF d
  <2>6. MarketCap(quote, base, supply) = IF d <= U64Max THEN d ELSE U64Max
    BY <1>0, <2>4, <2>5, MinOfTwo
  <2>7. CASE d <= U64Max
    BY <1>2, <2>5, <2>6, <2>7 DEF CapIs, value
  <2>8. CASE ~(d <= U64Max)
    <3>1. U64Max * base <= d * base
      BY <1>0, <2>5, <2>8
    <3>2. U64Max * base <= value
      BY <1>0, <2>1, <2>5, <3>1
    <3>3. QED BY <1>0, <1>2, <2>6, <2>8, <3>2 DEF CapIs, value
  <2>9. QED BY <2>7, <2>8
<1>3. QED BY <1>1, <1>2

-----------------------------------------------------------------------------
(* What a record says of its swap.                                         *)

Alone(i) == \A j \in DOMAIN tx : SamePool(j, i) => j = i

\* A record of swap i, but for whose event it was made from.
RecordFits(i, got) ==
    /\ got.source \in Sources /\ got.side.base \in Amounts /\ got.side.quote \in Amounts
    /\ \A cap \in got.cap : CapIs(cap, got.side.quoteAfter, got.side.baseAfter,
                                  Supply[BaseOf[tx[i].pool]])
    /\ got.source = "vault_balances" /\ Alone(i) => got.side = VaultTruth(i)

\* The pool's two mints differ, as they do on every pool that Accepts lets by.
TwoMints(pool) == BaseOf[pool] # QuoteOf[pool]

LEMMA AcceptedTwoMints == ASSUME NEW map, NEW p, Accepts(map, p) PROVE TwoMints(p)
BY DEF Accepts, TwoMints

LEMMA TxTyped ==
    ASSUME tx \in Transactions \cup {<<>>}
    PROVE  /\ tx \in Seq(Swaps) /\ Len(tx) \in Nat /\ DOMAIN tx = 1..Len(tx)
           /\ \A i \in DOMAIN tx :
                /\ tx[i] \in Swaps /\ tx[i].pool \in Pools
                /\ tx[i].reserves \in Pair /\ After(tx[i]) \in Pair
                /\ Vaults(tx[i].pool, tx[i].reserves) \in Pair
                /\ Vaults(tx[i].pool, After(tx[i])) \in Pair
                /\ Supply[BaseOf[tx[i].pool]] \in Amounts
<1>1. tx \in Seq(Swaps)
  <2>1. <<>> \in Seq(Swaps)
    OBVIOUS
  <2>2. QED BY <2>1, SwapsAssumption
<1>2. Len(tx) \in Nat /\ DOMAIN tx = 1..Len(tx)
  BY <1>1, LenProperties
<1>3. ASSUME NEW i \in DOMAIN tx
      PROVE  /\ tx[i] \in Swaps /\ tx[i].pool \in Pools
             /\ tx[i].reserves \in Pair /\ After(tx[i]) \in Pair
             /\ Vaults(tx[i].pool, tx[i].reserves) \in Pair
             /\ Vaults(tx[i].pool, After(tx[i])) \in Pair
             /\ Supply[BaseOf[tx[i].pool]] \in Amounts
  <2>1. tx[i] \in Swaps
    BY <1>1, <1>2, ElementOfSeq
  <2>2. tx[i].pool \in Pools /\ tx[i].reserves \in Pair
    BY <2>1 DEF Swaps
  <2>3. tx \in Transactions
    <3>1. CASE tx = <<>>
      <4>1. DOMAIN tx = {}
        BY <3>1
      <4>2. QED BY <4>1
    <3>2. QED BY <3>1
  <2>4. QED BY <2>1, <2>2, <2>3, SwapsAssumption
<1>4. QED BY <1>1, <1>2, <1>3

\* cpmm_resolve_side on an event of the pool: the tracked mint's leg, and the
\* reserves after the swap, saturated.
SideOf(s, held, moved) ==
    [buy |-> s.buy, base |-> moved.base, quote |-> moved.quote, fee |-> moved.fee,
     baseAfter  |-> IF s.buy THEN SatSub(held.base, moved.base) ELSE SatAdd(held.base, moved.base),
     quoteAfter |-> IF s.buy THEN SatAdd(held.quote, moved.quote)
                    ELSE SatSub(held.quote, moved.quote)]

LEMMA ResolvedSide ==
    ASSUME NEW s \in Swaps, TwoMints(s.pool), NEW held \in Pair, NEW moved,
           moved.base \in Amounts, moved.quote \in Amounts
    PROVE  LET side == ResolveSide(SwapEvent(s, held, moved), BaseOf[s.pool])
           IN  /\ side = SideOf(s, held, moved)
               /\ side.baseAfter \in Amounts /\ side.quoteAfter \in Amounts
<1>1. ResolveSide(SwapEvent(s, held, moved), BaseOf[s.pool]) = SideOf(s, held, moved)
  <2> DEFINE e == SwapEvent(s, held, moved)
  <2>1. CASE s.buy
    <3>1. /\ e.input # BaseOf[s.pool] /\ e.inBefore = held.quote /\ e.outBefore = held.base
          /\ e.inAmount = moved.quote /\ e.outAmount = moved.base /\ e.outFee = moved.fee
      BY <2>1 DEF SwapEvent, TwoMints
    <3> HIDE DEF e
    <3>2. ResolveSide(e, BaseOf[s.pool]) = SideOf(s, held, moved)
      BY <2>1, <3>1 DEF ResolveSide, SideOf, Swaps
    <3>3. QED BY <3>2 DEF e
  <2>2. CASE ~s.buy
    <3>1. /\ e.input = BaseOf[s.pool] /\ e.inBefore = held.base /\ e.outBefore = held.quote
          /\ e.inAmount = moved.base /\ e.outAmount = moved.quote /\ e.inFee = moved.fee
      BY <2>2 DEF SwapEvent
    <3> HIDE DEF e
    <3>2. ResolveSide(e, BaseOf[s.pool]) = SideOf(s, held, moved)
      BY <2>2, <3>1 DEF ResolveSide, SideOf, Swaps
    <3>3. QED BY <3>2 DEF e
  <2>3. QED BY <2>1, <2>2
<1>2. \A m, n \in Amounts : SatAdd(m, n) \in Amounts /\ SatSub(m, n) \in Amounts
  BY CpmmAssumption DEF Amounts, SatAdd, SatSub
<1>3. held.base \in Amounts /\ held.quote \in Amounts
  BY DEF Pair
<1>4. /\ SideOf(s, held, moved).baseAfter \in Amounts
      /\ SideOf(s, held, moved).quoteAfter \in Amounts
  BY <1>2, <1>3 DEF SideOf
<1>5. QED BY <1>1, <1>4

\* Where the vaults do not leave u64, the reserves are exact.
LEMMA SideExact ==
    ASSUME NEW s \in Swaps, NEW held \in Pair, NEW after \in Pair,
           after = IF s.buy THEN [base |-> held.base - s.base, quote |-> held.quote + s.quote]
                   ELSE [base |-> held.base + s.base, quote |-> held.quote - s.quote],
           NEW moved, moved.base = s.base, moved.quote = s.quote
    PROVE  SideOf(s, held, moved) = [buy |-> s.buy, base |-> s.base, quote |-> s.quote,
                                     fee |-> moved.fee, baseAfter |-> after.base,
                                     quoteAfter |-> after.quote]
<1>1. /\ U64Max \in Nat /\ s.base \in Amounts /\ s.quote \in Amounts
      /\ held.base \in Amounts /\ held.quote \in Amounts
      /\ after.base \in Amounts /\ after.quote \in Amounts
  BY CpmmAssumption DEF Swaps, Pair
<1>2. CASE s.buy
  <2>1. after.base = held.base - s.base /\ after.quote = held.quote + s.quote
    BY <1>2
  <2>2. SatSub(held.base, s.base) = after.base /\ SatAdd(held.quote, s.quote) = after.quote
    BY <1>1, <2>1 DEF SatSub, SatAdd, Amounts
  <2>3. QED BY <1>2, <2>2 DEF SideOf
<1>3. CASE ~s.buy
  <2>1. after.base = held.base + s.base /\ after.quote = held.quote - s.quote
    BY <1>3
  <2>2. SatAdd(held.base, s.base) = after.base /\ SatSub(held.quote, s.quote) = after.quote
    BY <1>1, <2>1 DEF SatSub, SatAdd, Amounts
  <2>3. QED BY <1>3, <2>2 DEF SideOf
<1>4. QED BY <1>2, <1>3

\* The event of a swap, resolved, is what the swap did.
LEMMA OwnEvent ==
    ASSUME tx \in Transactions \cup {<<>>}, NEW i \in DOMAIN tx, TwoMints(tx[i].pool)
    PROVE  ResolveSide(EventOf(i), BaseOf[tx[i].pool]) = Truth(i)
<1>1. tx[i] \in Swaps /\ tx[i].reserves \in Pair /\ After(tx[i]) \in Pair
  BY TxTyped
<1>2. tx[i].base \in Amounts /\ tx[i].quote \in Amounts
  BY <1>1 DEF Swaps
<1>3. ResolveSide(EventOf(i), BaseOf[tx[i].pool]) = SideOf(tx[i], tx[i].reserves, tx[i])
  BY <1>1, <1>2, ResolvedSide DEF EventOf
<1>4. QED BY <1>1, <1>3, SideExact DEF After, Truth

\* A record made from the event of any swap on the pool.
LEMMA EventFits ==
    ASSUME tx \in Transactions \cup {<<>>}, NEW i \in DOMAIN tx, NEW j \in DOMAIN tx,
           tx[j].pool = tx[i].pool, TwoMints(tx[i].pool)
    PROVE  RecordFits(i, Executed("event", tx[i], EventOf(j)))
<1>1. tx[j] \in Swaps /\ tx[j].reserves \in Pair /\ Supply[BaseOf[tx[i].pool]] \in Amounts
  BY TxTyped
<1>2. tx[j].base \in Amounts /\ tx[j].quote \in Amounts
  BY <1>1 DEF Swaps
<1> DEFINE side == ResolveSide(EventOf(j), BaseOf[tx[i].pool])
<1>3. side = SideOf(tx[j], tx[j].reserves, tx[j]) /\ side.baseAfter \in Amounts /\ side.quoteAfter \in Amounts
  BY <1>1, <1>2, ResolvedSide DEF EventOf
<1>4. side.base \in Amounts /\ side.quote \in Amounts
  BY <1>2, <1>3 DEF SideOf
<1> HIDE DEF side
<1>5. CapIs(MarketCap(side.quoteAfter, side.baseAfter, Supply[BaseOf[tx[i].pool]]),
            side.quoteAfter, side.baseAfter, Supply[BaseOf[tx[i].pool]])
  BY <1>1, <1>3, MarketCapIs
<1>6. Executed("event", tx[i], EventOf(j)) =
        [source |-> "event", side |-> side,
         cap |-> {MarketCap(side.quoteAfter, side.baseAfter, Supply[BaseOf[tx[i].pool]])}]
  BY DEF Executed, side
<1>7. QED BY <1>4, <1>5, <1>6 DEF RecordFits, Sources

\* The first and the last of some of the positions 1..n.
LEMMA Ends ==
    ASSUME NEW n \in Nat, NEW S \in SUBSET (1..n), S # {}
    PROVE  /\ Min(S) \in S /\ \A y \in S : Min(S) <= y
           /\ Max(S) \in S /\ \A y \in S : Max(S) >= y
<1>1. ASSUME NEW T \in SUBSET Nat, T # {} PROVE \E x \in T : \A y \in T : x <= y
  <2>1. PICK x \in T : \A y \in T : ~(<<y, x>> \in OpToRel(<, Nat))
    BY <1>1, NatLessThanWellFounded, WFMin
  <2>2. \A y \in T : ~(y < x)
    BY <2>1 DEF OpToRel
  <2>3. QED BY <2>2
<1>2. \E x \in S : \A y \in S : x <= y
  <2>1. S \in SUBSET Nat
    OBVIOUS
  <2>2. QED BY <1>1, <2>1
<1>3. \E x \in S : \A y \in S : x >= y
  <2> DEFINE T == {n - x : x \in S}
  <2>1. T \in SUBSET Nat /\ T # {}
    <3>1. \A x \in S : n - x \in Nat
      OBVIOUS
    <3>2. PICK x \in S : TRUE
      OBVIOUS
    <3>3. n - x \in T
      OBVIOUS
    <3>4. QED BY <3>1, <3>3
  <2>2. PICK d \in T : \A e \in T : d <= e
    BY <1>1, <2>1
  <2>3. PICK x \in S : d = n - x
    BY <2>2
  <2>4. ASSUME NEW y \in S PROVE x >= y
    <3>1. n - x <= n - y
      BY <2>2, <2>3
    <3>2. x \in Nat /\ y \in Nat
      OBVIOUS
    <3>3. QED BY <3>1, <3>2
  <2>5. QED BY <2>4
<1>4. QED BY <1>2, <1>3 DEF Min, Max

\* A record made from the balances of the vaults.
LEMMA VaultFits ==
    ASSUME tx \in Transactions \cup {<<>>}, NEW i \in DOMAIN tx, TwoMints(tx[i].pool),
           NEW e \in VaultAmounts(tx[i])
    PROVE  RecordFits(i, Executed("vault_balances", tx[i], e))
<1> DEFINE s     == tx[i]
           pre   == PreBalances(s.pool)
           post  == PostBalances(s.pool)
           base  == IF s.buy THEN pre.base - post.base ELSE post.base - pre.base
           quote == IF s.buy THEN post.quote - pre.quote ELSE pre.quote - post.quote
           moved == [base |-> base, quote |-> quote, fee |-> 0]
           supply == Supply[BaseOf[s.pool]]
<1>1. s \in Swaps /\ supply \in Amounts /\ s.reserves \in Pair /\ After(s) \in Pair
  BY TxTyped
<1>2. e = SwapEvent(s, pre, moved) /\ base > 0 /\ quote > 0
  BY DEF VaultAmounts
<1>3. i \in SwapsOn(s.pool) /\ SwapsOn(s.pool) \in SUBSET (1..Len(tx)) /\ Len(tx) \in Nat
  BY TxTyped DEF SwapsOn
<1>4. Min(SwapsOn(s.pool)) \in SwapsOn(s.pool) /\ Max(SwapsOn(s.pool)) \in SwapsOn(s.pool)
  BY <1>3, Ends
<1>5. pre \in Pair /\ post \in Pair
  <2>1. \A j \in SwapsOn(s.pool) : j \in DOMAIN tx /\ tx[j].pool = s.pool
    BY DEF SwapsOn
  <2>2. \A j \in SwapsOn(s.pool) : Vaults(s.pool, tx[j].reserves) \in Pair
    BY <2>1, TxTyped
  <2>3. \A j \in SwapsOn(s.pool) : Vaults(s.pool, After(tx[j])) \in Pair
    BY <2>1, TxTyped
  <2>4. QED BY <1>4, <2>2, <2>3 DEF PreBalances, PostBalances
<1>6. base \in Amounts /\ quote \in Amounts
  <2>1. /\ pre.base \in Amounts /\ pre.quote \in Amounts
        /\ post.base \in Amounts /\ post.quote \in Amounts /\ U64Max \in Nat
    BY <1>5, CpmmAssumption DEF Pair
  <2> HIDE DEF pre, post
  <2>2. base = pre.base - post.base \/ base = post.base - pre.base
    OBVIOUS
  <2>3. quote = post.quote - pre.quote \/ quote = pre.quote - post.quote
    OBVIOUS
  <2>4. base > 0 /\ quote > 0
    BY <1>2
  <2> HIDE DEF base, quote
  <2>5. base \in Amounts
    BY <2>1, <2>2, <2>4 DEF Amounts
  <2>6. quote \in Amounts
    BY <2>1, <2>3, <2>4 DEF Amounts
  <2>7. QED BY <2>5, <2>6
<1> DEFINE side == ResolveSide(e, BaseOf[s.pool])
<1>7. /\ side = SideOf(s, pre, moved)
      /\ side.baseAfter \in Amounts /\ side.quoteAfter \in Amounts
  <2>1. moved.base \in Amounts /\ moved.quote \in Amounts
    BY <1>6
  <2> HIDE DEF moved, pre
  <2>2. QED BY <1>1, <1>2, <1>5, <2>1, ResolvedSide
<1>8. side.base \in Amounts /\ side.quote \in Amounts
  BY <1>6, <1>7 DEF SideOf
<1>9. CapIs(MarketCap(side.quoteAfter, side.baseAfter, supply),
            side.quoteAfter, side.baseAfter, supply)
  <2> HIDE DEF side, supply
  <2>1. QED BY <1>1, <1>7, MarketCapIs
<1>10. ASSUME Alone(i) PROVE side = VaultTruth(i)
  <2>1. SwapsOn(s.pool) = {i}
    BY <1>3, <1>10 DEF SwapsOn, Alone, SamePool
  <2>2. Min(SwapsOn(s.pool)) = i /\ Max(SwapsOn(s.pool)) = i
    BY <1>4, <2>1
  <2>3. pre = Vaults(s.pool, s.reserves) /\ post = Vaults(s.pool, After(s))
    BY <2>2 DEF PreBalances, PostBalances
  <2>4. /\ U64Max \in Nat /\ s.base \in Int /\ s.quote \in Int
        /\ s.reserves.base \in Int /\ s.reserves.quote \in Int
        /\ Accrued[s.pool].base \in Int /\ Accrued[s.pool].quote \in Int /\ s.buy \in BOOLEAN
    <3>1. U64Max \in Nat /\ Amounts \subseteq Int
      BY CpmmAssumption DEF Amounts
    <3>2. /\ s.pool \in Pools /\ s.buy \in BOOLEAN /\ s.base \in Amounts
          /\ s.quote \in Amounts /\ s.reserves \in Pair
      BY <1>1 DEF Swaps
    <3>3. Accrued[s.pool] \in Pair
      BY <3>2, SwapsAssumption
    <3> HIDE DEF s
    <3>4. /\ s.reserves.base \in Amounts /\ s.reserves.quote \in Amounts
          /\ Accrued[s.pool].base \in Amounts /\ Accrued[s.pool].quote \in Amounts
      BY <3>2, <3>3 DEF Pair
    <3>5. QED BY <3>1, <3>2, <3>4
  <2>5. post = IF s.buy THEN [base |-> pre.base - s.base, quote |-> pre.quote + s.quote]
               ELSE [base |-> pre.base + s.base, quote |-> pre.quote - s.quote]
    <3>1. CASE s.buy
      <4>1. /\ After(s).base = s.reserves.base - s.base
            /\ After(s).quote = s.reserves.quote + s.quote
        BY <3>1 DEF After
      <4>2. QED BY <2>3, <2>4, <3>1, <4>1 DEF Vaults
    <3>2. CASE ~s.buy
      <4>1. /\ After(s).base = s.reserves.base + s.base
            /\ After(s).quote = s.reserves.quote - s.quote
        BY <3>2 DEF After
      <4>2. QED BY <2>3, <2>4, <3>2, <4>1 DEF Vaults
    <3>3. QED BY <3>1, <3>2
  <2>6. pre.base \in Int /\ pre.quote \in Int
    BY <1>5, <2>4 DEF Pair, Amounts
  <2> HIDE DEF pre, post, s
  <2>7. base = s.base /\ quote = s.quote
    BY <2>4, <2>5, <2>6
  <2>8. moved.base = s.base /\ moved.quote = s.quote /\ moved.fee = 0
    BY <2>7
  <2> HIDE DEF moved
  <2>9. side = [buy |-> s.buy, base |-> s.base, quote |-> s.quote, fee |-> 0,
                baseAfter |-> post.base, quoteAfter |-> post.quote]
    BY <1>1, <1>5, <1>7, <2>5, <2>8, SideExact
  <2>10. QED BY <2>3, <2>9 DEF VaultTruth, s
<1>11. Executed("vault_balances", tx[i], e) =
         [source |-> "vault_balances", side |-> side,
          cap |-> {MarketCap(side.quoteAfter, side.baseAfter, supply)}]
  BY DEF Executed
<1> HIDE DEF side, supply
<1>12. QED BY <1>8, <1>9, <1>10, <1>11 DEF RecordFits, Sources, supply, s

\* A record made from the arguments of the instruction.
LEMMA RequestFits ==
    ASSUME tx \in Transactions \cup {<<>>}, NEW i \in DOMAIN tx, NEW whole \in BOOLEAN
    PROVE  LET got == Requested(tx[i], whole) IN
           RecordFits(i, got) /\ got.source = "instruction_request"
<1> DEFINE got == Requested(tx[i], whole)
<1>1. tx[i].base \in Amounts /\ tx[i].quote \in Amounts
  BY TxTyped DEF Swaps
<1>2. /\ got.source = "instruction_request" /\ got.cap = {}
      /\ got.side.base \in Amounts /\ got.side.quote \in Amounts
  <2>1. 0 \in Amounts
    BY CpmmAssumption DEF Amounts
  <2>2. QED BY <1>1, <2>1 DEF Requested
<1> HIDE DEF got
<1>3. QED BY <1>2 DEF RecordFits, Sources, got

-----------------------------------------------------------------------------
(* The inductive invariant.                                                *)

IsSequence(s) == s \in Seq({s[i] : i \in DOMAIN s})

\* The types that are left, and the instructions in execution order.
HandlerTypeOK ==
    /\ txs \in 0..MaxTxs /\ hpc \in {"idle", "scan"} /\ tx \in Transactions \cup {<<>>}
    /\ success \in BOOLEAN /\ emitCpi \in BOOLEAN /\ balances \in BOOLEAN
    /\ logged \in 0..Len(tx) /\ (~success => logged = 0)
    /\ order = [i \in 1..Len(tx) |-> i] /\ ip \in 1..(Len(tx) + 1)
    /\ hpc = "idle" => ip = Len(tx) + 1
    /\ events \in Seq(1..logged) /\ maps \subseteq AltMap /\ IsSequence(records)

\* Every record is of a swap the scan has passed, in order, and fits it.
RecordsInv ==
    /\ \A i \in DOMAIN records : /\ records[i].swap \in 1..(ip - 1)
                                 /\ RecordFits(records[i].swap, records[i].got)
    /\ \A i, j \in DOMAIN records : i < j => records[i].swap < records[j].swap

\* The earlier swaps on the pool were all recorded.
Clean(pool) == \A j \in 1..(ip - 1) : tx[j].pool = pool => j \in Recorded

EventSet == {events[i] : i \in DOMAIN events}

\* The events left are in execution order; of a clean pool, those of the
\* swaps still to come are left and no others.
EventsLeft ==
    /\ \A i, j \in DOMAIN events : i < j => events[i] < events[j]
    /\ \A l \in 1..logged : Clean(tx[l].pool) => (l \in EventSet <=> l >= ip)

\* RecordsByScope for the swaps passed so far.
ScopeInv ==
    /\ hpc = "scan" => altMints \in maps
    /\ \A j \in 1..(ip - 1) : (\A m \in maps : Accepts(m, tx[j].pool)) => j \in Recorded
    /\ \A j \in Recorded : \E m \in maps : Accepts(m, tx[j].pool)

\* Until alt_mints changes there is one map.
OneMap == altChanges = 0 => altMints = altDb /\ fresh = altDb /\ maps \subseteq {altDb}

Inv == /\ AltInv /\ HandlerTypeOK /\ RecordsInv /\ EventsAreOwn /\ EventsLeft
       /\ ScopeInv /\ OneMap

-----------------------------------------------------------------------------
(* Steps.                                                                  *)

LEMMA AppendAny ==
    ASSUME NEW s, IsSequence(s), NEW x
    PROVE  /\ Len(s) \in Nat /\ DOMAIN s = 1..Len(s)
           /\ IsSequence(Append(s, x)) /\ DOMAIN Append(s, x) = 1..(Len(s) + 1)
           /\ Append(s, x)[Len(s) + 1] = x
           /\ \A i \in 1..Len(s) : Append(s, x)[i] = s[i]
<1> DEFINE R == {s[i] : i \in DOMAIN s}
           S == R \cup {x}
           t == Append(s, x)
<1>1. s \in Seq(R) /\ Len(s) \in Nat /\ DOMAIN s = 1..Len(s)
  BY LenProperties DEF IsSequence
<1>2. s \in Seq(S)
  <2>1. s \in [1..Len(s) -> S]
    BY <1>1, ElementOfSeq
  <2>2. QED BY <1>1, <2>1, FunctionIsSeq
<1> HIDE DEF S, R
<1>3. x \in S
  BY DEF S
<1>4. /\ t \in Seq(S) /\ Len(t) = Len(s) + 1 /\ t[Len(s) + 1] = x
      /\ \A i \in 1..Len(s) : t[i] = s[i]
  BY <1>2, <1>3, AppendProperties
<1>5. DOMAIN t = 1..(Len(s) + 1) /\ t \in [1..Len(t) -> S]
  BY <1>4, LenProperties
<1> HIDE DEF t
<1>6. t \in [1..Len(t) -> {t[i] : i \in DOMAIN t}]
  BY <1>4, <1>5
<1>7. Len(t) \in Nat
  BY <1>1, <1>4
<1>8. IsSequence(t)
  BY <1>6, <1>7, FunctionIsSeq DEF IsSequence
<1>9. QED BY <1>1, <1>4, <1>5, <1>8 DEF t

\* The instruction the scan is at.
LEMMA AtSwap ==
    ASSUME Inv, hpc = "scan", ip <= Len(order)
    PROVE  /\ Len(tx) \in Nat /\ DOMAIN tx = 1..Len(tx) /\ Len(order) = Len(tx)
           /\ ip \in 1..Len(tx) /\ order[ip] = ip /\ Swap = tx[ip] /\ ip + 1 \in 1..(Len(tx) + 1)
<1>1. Len(tx) \in Nat /\ DOMAIN tx = 1..Len(tx)
  BY TxTyped DEF Inv, HandlerTypeOK
<1>2. Len(order) = Len(tx)
  <2>1. order \in [1..Len(tx) -> Nat]
    BY <1>1 DEF Inv, HandlerTypeOK
  <2>2. QED BY <1>1, <2>1, FunctionIsSeq
<1>3. ip \in 1..Len(tx)
  BY <1>1, <1>2 DEF Inv, HandlerTypeOK
<1>4. order[ip] = ip
  BY <1>3 DEF Inv, HandlerTypeOK
<1>5. QED BY <1>1, <1>2, <1>3, <1>4 DEF Swap

\* What a record says does not change while its transaction is handled.
LEMMA FitsKept ==
    ASSUME tx' = tx, NEW i, NEW got
    PROVE  /\ RecordFits(i, got) => RecordFits(i, got)'
           /\ Truth(i)' = Truth(i)
BY DEF RecordFits, Alone, SamePool, VaultTruth, Truth, Sources, CapIs

LEMMA RecordNext ==
    ASSUME tx' = tx, NEW i, NEW s, NEW got, records'[i].swap = s, records'[i].got = got
    PROVE  /\ RecordFits(s, got) => RecordFits(records[i].swap, records[i].got)'
           /\ Truth(records[i].swap)' = Truth(s)
           /\ \A j : SamePool(j, records[i].swap)' <=> SamePool(j, s)
BY DEF RecordFits, Alone, SamePool, VaultTruth, Truth, Sources, CapIs

LEMMA SkipKeeps == ASSUME Inv, Skip PROVE Inv'
<1>1. /\ hpc = "scan" /\ ip <= Len(order) /\ ~Accepts(altMints, Swap.pool) /\ ip' = ip + 1
      /\ UNCHANGED <<avars, hpc, tx, success, logged, emitCpi, balances, order, events,
                     records, txs, maps>>
  BY DEF Skip
<1>2. /\ Len(tx) \in Nat /\ DOMAIN tx = 1..Len(tx) /\ ip \in 1..Len(tx) /\ Swap = tx[ip]
      /\ ip + 1 \in 1..(Len(tx) + 1) /\ order[ip] = ip
  BY <1>1, AtSwap
<1>3. AltInv' /\ OneMap'
  BY <1>1 DEF Inv, AltInv, AltTypeOK, OneMap, avars
<1>4. HandlerTypeOK'
  BY <1>1, <1>2 DEF Inv, HandlerTypeOK
<1>5. Recorded' = Recorded
  BY <1>1 DEF Recorded
<1>6. \A j \in Recorded : j \in 1..(ip - 1)
  BY DEF Inv, RecordsInv, Recorded
<1>7. RecordsInv'
  <2>1. ASSUME NEW i \in DOMAIN records
        PROVE  records[i].swap \in 1..(ip' - 1) /\ RecordFits(records[i].swap, records[i].got)'
    <3>1. records[i].swap \in 1..(ip - 1) /\ RecordFits(records[i].swap, records[i].got)
      BY DEF Inv, RecordsInv
    <3>2. records[i].swap \in 1..(ip' - 1)
      BY <1>1, <1>2, <3>1
    <3>3. RecordFits(records[i].swap, records[i].got)'
      BY <1>1, <3>1, FitsKept
    <3>4. QED BY <3>2, <3>3
  <2>2. QED BY <1>1, <2>1 DEF Inv, RecordsInv
<1>8. EventsAreOwn'
  BY <1>1, <1>5, FitsKept DEF Inv, EventsAreOwn, SamePool
<1>9. EventsLeft'
  <2>1. EventSet' = EventSet /\ logged' = logged /\ events' = events
    BY <1>1 DEF EventSet
  <2>2. ASSUME NEW l \in 1..logged, Clean(tx[l].pool)' PROVE l \in EventSet <=> l >= ip + 1
    <3>1. l \in Nat /\ ip \in Nat
      BY <1>2 DEF Inv, HandlerTypeOK
    <3>2. \A j \in 1..ip : tx[j].pool = tx[l].pool => j \in Recorded
      BY <1>1, <1>2, <1>5, <2>2 DEF Clean
    <3>3. Clean(tx[l].pool) /\ l # ip
      <4>1. \A j \in 1..(ip - 1) : j \in 1..ip
        BY <3>1
      <4>2. ip \in 1..ip /\ ip \notin Recorded
        BY <1>2, <1>6, <3>1
      <4>3. QED BY <3>2, <4>1, <4>2 DEF Clean
    <3>4. l \in EventSet <=> l >= ip
      BY <3>3 DEF Inv, EventsLeft
    <3>5. QED BY <3>1, <3>3, <3>4
  <2>3. QED BY <1>1, <2>1, <2>2 DEF Inv, EventsLeft
<1>10. ScopeInv'
  <2>1. altMints \in maps /\ altMints' = altMints /\ maps' = maps
    BY <1>1 DEF Inv, ScopeInv, avars
  <2>2. ASSUME NEW j \in 1..(ip' - 1), \A m \in maps : Accepts(m, tx[j].pool) PROVE j \in Recorded
    <3>1. j # ip
      BY <1>1, <1>2, <2>1, <2>2
    <3>2. j \in 1..(ip - 1)
      BY <1>1, <1>2, <3>1
    <3>3. QED BY <2>2, <3>2 DEF Inv, ScopeInv
  <2>3. QED BY <1>1, <1>5, <2>1, <2>2 DEF Inv, ScopeInv, Accepts, Tracked
<1>11. QED BY <1>3, <1>4, <1>7, <1>8, <1>9, <1>10 DEF Inv

\* What every way of sending a record does.
LEMMA SendDoes ==
    ASSUME Inv, NEW got, Send(got)
    PROVE  /\ hpc = "scan" /\ ip <= Len(order) /\ Accepts(altMints, tx[ip].pool) /\ ip' = ip + 1
           /\ UNCHANGED <<avars, hpc, tx, success, logged, emitCpi, balances, order, txs, maps>>
           /\ Len(tx) \in Nat /\ DOMAIN tx = 1..Len(tx) /\ ip \in 1..Len(tx)
           /\ Len(records) \in Nat /\ DOMAIN records = 1..Len(records)
           /\ IsSequence(records') /\ DOMAIN records' = 1..(Len(records) + 1)
           /\ records'[Len(records) + 1] = [swap |-> ip, got |-> got]
           /\ \A i \in DOMAIN records : records'[i] = records[i]
           /\ Recorded' = Recorded \cup {ip} /\ \A j \in Recorded : j \in 1..(ip - 1)
<1>1. /\ hpc = "scan" /\ ip <= Len(order) /\ Accepts(altMints, Swap.pool) /\ ip' = ip + 1
      /\ records' = Append(records, [swap |-> order[ip], got |-> got])
      /\ UNCHANGED <<avars, hpc, tx, success, logged, emitCpi, balances, order, txs, maps>>
  BY DEF Send
<1>2. /\ Len(tx) \in Nat /\ DOMAIN tx = 1..Len(tx) /\ ip \in 1..Len(tx) /\ Swap = tx[ip]
      /\ order[ip] = ip
  BY <1>1, AtSwap
<1>3. IsSequence(records) /\ records' = Append(records, [swap |-> ip, got |-> got])
  BY <1>1, <1>2 DEF Inv, HandlerTypeOK
<1>4. /\ Len(records) \in Nat /\ DOMAIN records = 1..Len(records)
      /\ IsSequence(records') /\ DOMAIN records' = 1..(Len(records) + 1)
      /\ records'[Len(records) + 1] = [swap |-> ip, got |-> got]
      /\ \A i \in DOMAIN records : records'[i] = records[i]
  BY <1>3, AppendAny
<1>5. Recorded' = Recorded \cup {ip}
  <2>1. \A i \in 1..(Len(records) + 1) : i \in 1..Len(records) \/ i = Len(records) + 1
    BY <1>4
  <2>2. Len(records) + 1 \in DOMAIN records' /\ \A i \in 1..Len(records) : i \in DOMAIN records'
    BY <1>4
  <2>3. ASSUME NEW x \in Recorded' PROVE x \in Recorded \cup {ip}
    <3>1. PICK i \in DOMAIN records' : x = records'[i].swap
      BY DEF Recorded
    <3>2. CASE i = Len(records) + 1
      BY <1>4, <3>1, <3>2
    <3>3. CASE i \in 1..Len(records)
      BY <1>4, <3>1, <3>3 DEF Recorded
    <3>4. QED BY <1>4, <2>1, <3>2, <3>3
  <2>4. ASSUME NEW x \in Recorded PROVE x \in Recorded'
    <3>1. PICK i \in DOMAIN records : x = records[i].swap
      BY DEF Recorded
    <3>2. i \in DOMAIN records' /\ x = records'[i].swap
      BY <1>4, <2>2, <3>1
    <3>3. QED BY <3>2 DEF Recorded
  <2>5. ip \in Recorded'
    <3>1. records'[Len(records) + 1].swap = ip
      BY <1>4
    <3>2. QED BY <2>2, <3>1 DEF Recorded
  <2>6. QED BY <2>3, <2>4, <2>5
<1>6. \A j \in Recorded : j \in 1..(ip - 1)
  BY DEF Inv, RecordsInv, Recorded
<1>7. QED BY <1>1, <1>2, <1>4, <1>5, <1>6

LEMMA SendKeeps ==
    ASSUME Inv, NEW got, Send(got), RecordFits(ip, got),
           got.source = "event" /\ Clean(tx[ip].pool) => got.side = Truth(ip),
           events' \in Seq(1..logged), EventsLeft'
    PROVE  Inv'
<1> DEFINE n == Len(records) + 1
<1>1. /\ hpc = "scan" /\ ip <= Len(order) /\ Accepts(altMints, tx[ip].pool) /\ ip' = ip + 1
      /\ UNCHANGED <<avars, hpc, tx, success, logged, emitCpi, balances, order, txs, maps>>
      /\ Len(tx) \in Nat /\ DOMAIN tx = 1..Len(tx) /\ ip \in 1..Len(tx)
      /\ Len(records) \in Nat /\ DOMAIN records = 1..Len(records)
      /\ IsSequence(records') /\ DOMAIN records' = 1..n
      /\ records'[n] = [swap |-> ip, got |-> got]
      /\ \A i \in DOMAIN records : records'[i] = records[i]
      /\ Recorded' = Recorded \cup {ip} /\ \A j \in Recorded : j \in 1..(ip - 1)
  BY SendDoes
<1>2. \A i \in 1..n : i \in DOMAIN records \/ i = n
  BY <1>1
<1>3. ip \in Nat /\ ip' - 1 = ip /\ ip + 1 \in 1..(Len(tx) + 1)
  BY <1>1
<1> HIDE DEF n
<1>4. AltInv' /\ OneMap'
  BY <1>1 DEF Inv, AltInv, AltTypeOK, OneMap, avars
<1>5. HandlerTypeOK'
  <2>1. UNCHANGED <<hpc, tx, success, logged, emitCpi, balances, order, txs, maps>>
    BY <1>1
  <2>2. ip' \in 1..(Len(tx) + 1)
    BY <1>1, <1>3
  <2>3. hpc' # "idle"
    BY <1>1
  <2>4. IsSequence(records')
    BY <1>1
  <2>5. HandlerTypeOK
    BY DEF Inv
  <2>6. IsSequence(records)'
    BY <2>4 DEF IsSequence
  <2>7. QED BY <2>1, <2>2, <2>3, <2>5, <2>6 DEF HandlerTypeOK
<1>6. ASSUME NEW i \in DOMAIN records
      PROVE  /\ records[i].swap \in 1..(ip - 1) /\ records[i].swap \in 1..ip
             /\ records[i].swap < ip /\ RecordFits(records[i].swap, records[i].got)
  <2>1. records[i].swap \in 1..(ip - 1) /\ RecordFits(records[i].swap, records[i].got)
    BY DEF Inv, RecordsInv
  <2>2. QED BY <1>3, <2>1
<1>7. RecordsInv'
  <2>1. ASSUME NEW i \in DOMAIN records'
        PROVE  /\ records'[i].swap \in 1..(ip' - 1)
               /\ RecordFits(records[i].swap, records[i].got)'
    <3>1. CASE i \in DOMAIN records
      <4>1. PICK w, g : w = records[i].swap /\ g = records[i].got
        OBVIOUS
      <4>2. records'[i].swap = w /\ records'[i].got = g
        BY <1>1, <3>1, <4>1
      <4>3. w \in 1..ip /\ RecordFits(w, g)
        BY <1>6, <3>1, <4>1
      <4>4. RecordFits(records[i].swap, records[i].got)'
        BY <1>1, <4>2, <4>3, RecordNext
      <4>5. QED BY <1>3, <4>2, <4>3, <4>4
    <3>2. CASE i = n
      <4>1. PICK w : w = ip
        OBVIOUS
      <4>2. records'[i].swap = w /\ records'[i].got = got
        BY <1>1, <3>2, <4>1
      <4>3. RecordFits(w, got) /\ w \in 1..(ip' - 1)
        BY <1>1, <1>3, <4>1
      <4>4. RecordFits(records[i].swap, records[i].got)'
        BY <1>1, <4>2, <4>3, RecordNext
      <4>5. QED BY <4>2, <4>3, <4>4
    <3>3. QED BY <1>1, <1>2, <3>1, <3>2
  <2>2. ASSUME NEW i \in DOMAIN records', NEW j \in DOMAIN records', i < j
        PROVE  records'[i].swap < records'[j].swap
    <3>1. i \in DOMAIN records
      BY <1>1, <1>2, <2>2 DEF n
    <3>2. CASE j \in DOMAIN records
      BY <1>1, <2>2, <3>1, <3>2 DEF Inv, RecordsInv
    <3>3. CASE j = n
      BY <1>1, <1>6, <3>1, <3>3
    <3>4. QED BY <1>1, <1>2, <3>2, <3>3
  <2>3. QED BY <2>1, <2>2 DEF RecordsInv
<1>8. EventsAreOwn'
  <2>1. ASSUME NEW i \in DOMAIN records', records'[i].got.source = "event",
               \A j \in 1..(records'[i].swap - 1) :
                  SamePool(j, records[i].swap)' => j \in Recorded'
        PROVE  records'[i].got.side = Truth(records[i].swap)'
    <3>1. CASE i \in DOMAIN records
      <4>1. PICK w, g : w = records[i].swap /\ g = records[i].got
        OBVIOUS
      <4>2. records'[i].swap = w /\ records'[i].got = g
        BY <1>1, <3>1, <4>1
      <4>3. ASSUME NEW j \in 1..(w - 1), SamePool(j, w) PROVE j \in Recorded
        <5>1. j # ip
          BY <1>3, <1>6, <3>1, <4>1
        <5>2. SamePool(j, records[i].swap)'
          BY <1>1, <4>2, <4>3, RecordNext
        <5>3. QED BY <1>1, <2>1, <4>2, <5>1, <5>2
      <4>4. g.side = Truth(w)
        BY <2>1, <3>1, <4>1, <4>2, <4>3 DEF Inv, EventsAreOwn
      <4>5. QED BY <1>1, <4>2, <4>4, RecordNext
    <3>2. CASE i = n
      <4>1. PICK w : w = ip
        OBVIOUS
      <4>2. records'[i].swap = w /\ records'[i].got = got
        BY <1>1, <3>2, <4>1
      <4>3. Clean(tx[ip].pool)
        <5>1. ASSUME NEW j \in 1..(ip - 1), tx[j].pool = tx[ip].pool PROVE j \in Recorded
          <6>1. j # ip
            BY <1>3
          <6>2. SamePool(j, w)
            BY <4>1, <5>1 DEF SamePool
          <6>3. SamePool(j, records[i].swap)'
            BY <1>1, <4>2, <6>2, RecordNext
          <6>4. QED BY <1>1, <2>1, <4>1, <4>2, <6>1, <6>3
        <5>2. QED BY <5>1 DEF Clean
      <4>4. got.side = Truth(w)
        BY <2>1, <4>1, <4>2, <4>3
      <4>5. QED BY <1>1, <4>2, <4>4, RecordNext
    <3>3. QED BY <1>1, <1>2, <3>1, <3>2
  <2>2. QED BY <2>1 DEF EventsAreOwn
<1>9. ScopeInv'
  <2>1. altMints \in maps /\ altMints' = altMints /\ maps' = maps
    BY <1>1 DEF Inv, ScopeInv, avars
  <2>2. ASSUME NEW j \in 1..(ip' - 1), \A m \in maps : Accepts(m, tx[j].pool) PROVE j \in Recorded'
    <3>1. CASE j = ip
      BY <1>1, <3>1
    <3>2. CASE j # ip
      <4>1. j \in 1..(ip - 1)
        BY <1>1, <1>3, <3>2
      <4>2. QED BY <1>1, <2>2, <4>1 DEF Inv, ScopeInv
    <3>3. QED BY <3>1, <3>2
  <2>3. ASSUME NEW j \in Recorded' PROVE \E m \in maps : Accepts(m, tx[j].pool)
    BY <1>1, <2>1 DEF Inv, ScopeInv
  <2>4. tx' = tx /\ hpc' = hpc
    BY <1>1
  <2>5. (hpc = "scan" => altMints \in maps)'
    BY <2>1
  <2>6. \A j \in 1..(ip' - 1) : (\A m \in maps' : Accepts(m, tx'[j].pool)) => j \in Recorded'
    BY <2>1, <2>2, <2>4
  <2>7. \A j \in Recorded' : \E m \in maps' : Accepts(m, tx'[j].pool)
    BY <2>1, <2>3, <2>4
  <2>8. QED BY <2>5, <2>6, <2>7 DEF ScopeInv, Accepts, Tracked
<1>10. QED BY <1>4, <1>5, <1>7, <1>8, <1>9 DEF Inv

\* The pools that are clean after a record were clean before it.
LEMMA CleanBefore ==
    ASSUME Inv, NEW got, Send(got), NEW l \in 1..logged, Clean(tx[l].pool)'
    PROVE  /\ Clean(tx[l].pool) /\ (l \in EventSet <=> l >= ip)
           /\ l \in Nat /\ ip \in Nat
<1>1. /\ ip' = ip + 1 /\ tx' = tx /\ ip \in 1..Len(tx) /\ Len(tx) \in Nat
      /\ Recorded' = Recorded \cup {ip}
  BY SendDoes
<1>2. ip \in Nat /\ ip' - 1 = ip /\ l \in Nat
  BY <1>1 DEF Inv, HandlerTypeOK
<1>3. Clean(tx[l].pool)
  <2>1. ASSUME NEW j \in 1..(ip - 1), tx[j].pool = tx[l].pool PROVE j \in Recorded
    <3>1. j \in 1..(ip' - 1) /\ j # ip
      BY <1>2
    <3>2. j \in Recorded'
      BY <1>1, <2>1, <3>1 DEF Clean
    <3>3. QED BY <1>1, <3>1, <3>2
  <2>2. QED BY <2>1 DEF Clean
<1>4. QED BY <1>2, <1>3 DEF Inv, EventsLeft

\* A record that takes no event: there is none of its pool, or there are none.
LEMMA NoEventTaken ==
    ASSUME Inv, NEW got, Send(got), UNCHANGED events, Matches = {} \/ ~success
    PROVE  events' \in Seq(1..logged) /\ EventsLeft'
<1>1. /\ ip' = ip + 1 /\ tx' = tx /\ logged' = logged /\ hpc = "scan" /\ ip <= Len(order)
      /\ ip \in 1..Len(tx) /\ Len(tx) \in Nat
  BY SendDoes
<1>2. Swap = tx[ip] /\ EventSet' = EventSet
  BY <1>1, AtSwap DEF EventSet
<1>3. ASSUME NEW l \in 1..logged, Clean(tx[l].pool)' PROVE l \in EventSet <=> l >= ip + 1
  <2>1. (l \in EventSet <=> l >= ip) /\ l \in Nat /\ ip \in Nat
    BY <1>3, CleanBefore
  <2>2. success /\ Matches = {}
    BY <2>1 DEF Inv, HandlerTypeOK
  <2>3. CASE tx[l].pool = tx[ip].pool
    <3>1. l \notin EventSet
      BY <1>2, <2>2, <2>3 DEF EventSet, Matches
    <3>2. QED BY <2>1, <3>1
  <2>4. CASE tx[l].pool # tx[ip].pool
    BY <2>1, <2>4
  <2>5. QED BY <2>3, <2>4
<1>4. QED BY <1>1, <1>2, <1>3 DEF Inv, HandlerTypeOK, EventsLeft

\* events.remove(i)
Removed(s, i) == SubSeq(s, 1, i - 1) \o SubSeq(s, i + 1, Len(s))

LEMMA RemoveIs ==
    ASSUME NEW S, NEW s \in Seq(S), NEW i \in 1..Len(s)
    PROVE  /\ Removed(s, i) \in Seq(S) /\ DOMAIN Removed(s, i) = 1..(Len(s) - 1)
           /\ \A j \in 1..(Len(s) - 1) :
                 Removed(s, i)[j] = IF j < i THEN s[j] ELSE s[j + 1]
<1> DEFINE r == Removed(s, i)
           f == SubSeq(s, 1, i - 1)
           g == SubSeq(s, i + 1, Len(s))
<1>1. Len(s) \in Nat /\ i \in Nat
  BY LenProperties
<1>2. /\ f \in Seq(S) /\ Len(f) = i - 1 /\ \A j \in 1..(i - 1) : f[j] = s[j]
  BY <1>1
<1>3. /\ g \in Seq(S) /\ Len(g) = Len(s) - i
      /\ \A j \in 1..(Len(s) - i) : g[j] = s[j + i]
  BY <1>1
<1>r. r = f \o g
  BY DEF Removed
<1> HIDE DEF f, g, r
<1>4. /\ r \in Seq(S) /\ Len(r) = Len(f) + Len(g)
      /\ \A j \in 1..(Len(f) + Len(g)) : r[j] = IF j <= Len(f) THEN f[j] ELSE g[j - Len(f)]
  BY <1>r, <1>2, <1>3, ConcatProperties
<1>5. Len(r) = Len(s) - 1 /\ DOMAIN r = 1..(Len(s) - 1)
  BY <1>1, <1>2, <1>3, <1>4, LenProperties
<1>6. ASSUME NEW j \in 1..(Len(s) - 1) PROVE r[j] = IF j < i THEN s[j] ELSE s[j + 1]
  <2>1. r[j] = IF j <= Len(f) THEN f[j] ELSE g[j - Len(f)]
    <3>1. Len(f) + Len(g) = Len(s) - 1
      BY <1>1, <1>2, <1>3
    <3>2. j \in 1..(Len(f) + Len(g))
      BY <3>1
    <3>3. QED BY <1>4, <3>2
  <2>2. CASE j < i
    <3>1. j <= Len(f) /\ j \in 1..(i - 1)
      BY <1>1, <1>2, <2>2
    <3>2. QED BY <1>2, <2>1, <2>2, <3>1
  <2>3. CASE ~(j < i)
    <3>1. ~(j <= Len(f)) /\ j - Len(f) \in 1..(Len(s) - i) /\ (j - Len(f)) + i = j + 1
      BY <1>1, <1>2, <2>3
    <3>2. QED BY <1>3, <2>1, <2>3, <3>1
  <2>4. QED BY <2>2, <2>3
<1>7. QED BY <1>4, <1>5, <1>6 DEF r

\* A record made from the first log event of its pool: the event is in
\* execution order the first that is left, so of a clean pool it is the
\* swap's own.
LEMMA LogKeeps == ASSUME Inv, SendFromLog PROVE Inv'
<1> DEFINE i == CHOOSE j \in Matches : \A l \in Matches : j <= l
           e == events[i]
           got == Executed("event", Swap, EventOf(e))
<1>1. /\ hpc = "scan" /\ ip <= Len(order) /\ Matches # {} /\ Send(got)
      /\ events' = SubSeq(events, 1, i - 1) \o SubSeq(events, i + 1, Len(events))
  BY DEF SendFromLog
<1>2. /\ Len(tx) \in Nat /\ DOMAIN tx = 1..Len(tx) /\ ip \in 1..Len(tx) /\ Swap = tx[ip]
  BY <1>1, AtSwap
<1>3. /\ Accepts(altMints, tx[ip].pool) /\ ip' = ip + 1 /\ tx' = tx /\ logged' = logged
      /\ Recorded' = Recorded \cup {ip}
  BY <1>1, SendDoes
<1>4. /\ events \in Seq(1..logged) /\ Len(events) \in Nat /\ DOMAIN events = 1..Len(events)
      /\ \A j \in 1..Len(events) : events[j] \in 1..logged
  BY LenProperties, ElementOfSeq DEF Inv, HandlerTypeOK
<1>5. logged \in Nat /\ logged <= Len(tx) /\ 1..logged \subseteq DOMAIN tx
  BY <1>2 DEF Inv, HandlerTypeOK
<1>6. Matches \in SUBSET (1..Len(events)) /\ \A j \in Matches : tx[events[j]].pool = tx[ip].pool
  BY <1>2, <1>4 DEF Matches
<1>7. i \in Matches /\ \A l \in Matches : i <= l
  <2>1. Min(Matches) \in Matches /\ \A y \in Matches : Min(Matches) <= y
    BY <1>1, <1>4, <1>6, Ends
  <2>2. QED BY <2>1
<1> HIDE DEF i
<1>8. /\ i \in 1..Len(events) /\ e \in 1..logged /\ e \in DOMAIN tx
      /\ tx[e].pool = tx[ip].pool /\ e \in EventSet
  BY <1>4, <1>5, <1>6, <1>7 DEF EventSet
<1>9. ASSUME Clean(tx[ip].pool) PROVE e = ip
  <2>1. e >= ip /\ e \in Nat /\ ip \in Nat
    BY <1>2, <1>8, <1>9 DEF Inv, EventsLeft
  <2>2. ip \in 1..logged /\ ip \in EventSet
    <3>1. ip \in 1..logged /\ ip >= ip
      BY <1>2, <1>5, <1>8, <2>1
    <3>2. QED BY <1>9, <3>1 DEF Inv, EventsLeft
  <2>3. PICK l \in DOMAIN events : events[l] = ip
    BY <2>2 DEF EventSet
  <2>4. l \in Matches
    BY <1>2, <2>3 DEF Matches
  <2>5. i <= l /\ i \in Nat /\ l \in Nat
    BY <1>4, <1>7, <1>8, <2>4
  <2>6. CASE i = l
    BY <2>3, <2>6
  <2>7. CASE i < l
    <3>1. e < ip
      BY <1>4, <1>8, <2>3, <2>7 DEF Inv, EventsLeft
    <3>2. QED BY <2>1, <3>1
  <2>8. QED BY <2>5, <2>6, <2>7
<1>10. /\ events' \in Seq(1..logged) /\ DOMAIN events' = 1..(Len(events) - 1)
       /\ \A j \in 1..(Len(events) - 1) : events'[j] = IF j < i THEN events[j] ELSE events[j + 1]
  <2>1. events' = Removed(events, i)
    BY <1>1 DEF Removed
  <2>2. QED BY <1>4, <1>8, <2>1, RemoveIs
<1>11. EventsLeft'
  <2>1. ASSUME NEW j \in DOMAIN events', NEW l \in DOMAIN events', j < l
        PROVE  events'[j] < events'[l]
    <3> DEFINE a(k) == IF k < i THEN k ELSE k + 1
    <3>1. /\ j \in 1..(Len(events) - 1) /\ l \in 1..(Len(events) - 1) /\ i \in Nat
      BY <1>8, <1>10
    <3>2. a(j) \in DOMAIN events /\ a(l) \in DOMAIN events /\ a(j) < a(l)
      BY <1>4, <2>1, <3>1
    <3>3. events'[j] = events[a(j)] /\ events'[l] = events[a(l)]
      BY <1>10, <3>1
    <3> HIDE DEF a
    <3>4. QED BY <3>2, <3>3 DEF Inv, EventsLeft
  <2>2. EventSet' = EventSet \ {e}
    <3>1. ASSUME NEW x \in EventSet' PROVE x \in EventSet \ {e}
      <4>1. PICK j \in DOMAIN events' : x = events'[j]
        BY DEF EventSet
      <4>2. CASE j < i
        <5>1. x = events[j] /\ j \in DOMAIN events
          BY <1>4, <1>10, <4>1, <4>2
        <5>2. events[j] < events[i]
          BY <1>4, <1>8, <4>2, <5>1 DEF Inv, EventsLeft
        <5>3. x # e
          BY <1>4, <1>8, <5>1, <5>2
        <5>4. QED BY <5>1, <5>3 DEF EventSet
      <4>3. CASE ~(j < i)
        <5>1. x = events[j + 1] /\ j + 1 \in DOMAIN events /\ i < j + 1
          BY <1>4, <1>8, <1>10, <4>1, <4>3
        <5>2. events[i] < events[j + 1]
          BY <1>4, <1>8, <5>1 DEF Inv, EventsLeft
        <5>3. x # e
          BY <1>4, <1>8, <5>1, <5>2
        <5>4. QED BY <5>1, <5>3 DEF EventSet
      <4>4. QED BY <4>2, <4>3
    <3>2. ASSUME NEW x \in EventSet \ {e} PROVE x \in EventSet'
      <4>1. PICK j \in DOMAIN events : x = events[j]
        BY DEF EventSet
      <4>2. j # i /\ j \in 1..Len(events)
        BY <1>4, <3>2, <4>1
      <4>3. CASE j < i
        <5>1. j \in DOMAIN events' /\ events'[j] = x
          BY <1>4, <1>8, <1>10, <4>1, <4>2, <4>3
        <5>2. QED BY <5>1 DEF EventSet
      <4>4. CASE j > i
        <5>1. j - 1 \in 1..(Len(events) - 1) /\ ~(j - 1 < i) /\ (j - 1) + 1 = j
          BY <1>4, <1>8, <4>2, <4>4
        <5>2. j - 1 \in DOMAIN events' /\ events'[j - 1] = x
          BY <1>10, <4>1, <5>1
        <5>3. QED BY <5>2 DEF EventSet
      <4>5. QED BY <1>8, <4>2, <4>3, <4>4
    <3>3. QED BY <3>1, <3>2
  <2>3. ASSUME NEW l \in 1..logged, Clean(tx[l].pool)'
        PROVE  l \in EventSet' <=> l >= ip + 1
    <3>1. (l \in EventSet <=> l >= ip) /\ l \in Nat /\ ip \in Nat /\ Clean(tx[l].pool)
      BY <1>1, <2>3, CleanBefore
    <3>2. CASE tx[l].pool = tx[ip].pool
      <4>1. e = ip
        BY <1>9, <3>1, <3>2
      <4>2. QED BY <2>2, <3>1, <4>1
    <3>3. CASE tx[l].pool # tx[ip].pool
      <4>1. l # e /\ l # ip
        BY <1>8, <3>3
      <4>2. QED BY <2>2, <3>1, <4>1
    <3>4. QED BY <3>2, <3>3
  <2>4. QED BY <1>3, <2>1, <2>3 DEF EventsLeft
<1>12. TwoMints(tx[ip].pool) /\ tx \in Transactions \cup {<<>>} /\ ip \in DOMAIN tx
  BY <1>2, <1>3, AcceptedTwoMints DEF Inv, HandlerTypeOK
<1> HIDE DEF e
<1>13. got = Executed("event", tx[ip], EventOf(e))
  BY <1>2
<1>14. RecordFits(ip, got)
  BY <1>8, <1>12, <1>13, EventFits
<1>15. ASSUME Clean(tx[ip].pool) PROVE got.side = Truth(ip)
  <2>1. got.side = ResolveSide(EventOf(ip), BaseOf[tx[ip].pool])
    BY <1>9, <1>13, <1>15 DEF Executed
  <2>2. QED BY <1>12, <2>1, OwnEvent
<1> HIDE DEF got
<1>16. QED BY <1>1, <1>10, <1>11, <1>14, <1>15, SendKeeps

LEMMA CpiKeeps == ASSUME Inv, SendFromCpi PROVE Inv'
<1> DEFINE got == Executed("event", Swap, EventOf(order[ip]))
<1>1. hpc = "scan" /\ ip <= Len(order) /\ Matches = {} /\ Send(got) /\ UNCHANGED events
  BY DEF SendFromCpi
<1>2. DOMAIN tx = 1..Len(tx) /\ ip \in 1..Len(tx) /\ Swap = tx[ip] /\ order[ip] = ip
  BY <1>1, AtSwap
<1>3. Accepts(altMints, tx[ip].pool)
  BY <1>1, SendDoes
<1>4. TwoMints(tx[ip].pool) /\ tx \in Transactions \cup {<<>>} /\ ip \in DOMAIN tx
  BY <1>2, <1>3, AcceptedTwoMints DEF Inv, HandlerTypeOK
<1>5. got = Executed("event", tx[ip], EventOf(ip))
  BY <1>2
<1>6. RecordFits(ip, got)
  BY <1>4, <1>5, EventFits
<1>7. got.side = Truth(ip)
  <2>1. got.side = ResolveSide(EventOf(ip), BaseOf[tx[ip].pool])
    BY <1>5 DEF Executed
  <2>2. QED BY <1>4, <2>1, OwnEvent
<1> HIDE DEF got
<1>8. events' \in Seq(1..logged) /\ EventsLeft'
  BY <1>1, NoEventTaken
<1>9. QED BY <1>1, <1>6, <1>7, <1>8, SendKeeps

LEMMA VaultsKeep == ASSUME Inv, SendFromVaults PROVE Inv'
<1>1. PICK e \in VaultAmounts(Swap) : Send(Executed("vault_balances", Swap, e))
  BY DEF SendFromVaults
<1>2. hpc = "scan" /\ ip <= Len(order) /\ Matches = {} /\ UNCHANGED events
  BY DEF SendFromVaults
<1> DEFINE got == Executed("vault_balances", Swap, e)
<1>3. DOMAIN tx = 1..Len(tx) /\ ip \in 1..Len(tx) /\ Swap = tx[ip]
  BY <1>2, AtSwap
<1>4. Accepts(altMints, tx[ip].pool)
  BY <1>1, SendDoes
<1>5. TwoMints(tx[ip].pool) /\ tx \in Transactions \cup {<<>>} /\ ip \in DOMAIN tx
  BY <1>3, <1>4, AcceptedTwoMints DEF Inv, HandlerTypeOK
<1>6. RecordFits(ip, got)
  BY <1>1, <1>3, <1>5, VaultFits
<1>7. got.source # "event"
  BY DEF Executed
<1> HIDE DEF got
<1>8. Send(got)
  BY <1>1 DEF got
<1>9. events' \in Seq(1..logged) /\ EventsLeft'
  BY <1>2, <1>8, NoEventTaken
<1>10. QED BY <1>6, <1>7, <1>8, <1>9, SendKeeps

LEMMA RequestKeeps == ASSUME Inv, SendRequested PROVE Inv'
<1>0. PICK whole \in {TRUE, success} : Send(Requested(Swap, whole))
  BY DEF SendRequested
<1> DEFINE got == Requested(Swap, whole)
<1>1. /\ hpc = "scan" /\ ip <= Len(order) /\ Send(got) /\ UNCHANGED events
      /\ Matches = {} \/ ~success
  BY <1>0 DEF SendRequested
<1>2. DOMAIN tx = 1..Len(tx) /\ ip \in 1..Len(tx) /\ Swap = tx[ip]
  BY <1>1, AtSwap
<1>3. RecordFits(ip, got) /\ got.source # "event"
  <2>1. whole \in BOOLEAN /\ tx \in Transactions \cup {<<>>}
    BY DEF Inv, HandlerTypeOK
  <2>2. QED BY <1>2, <2>1, RequestFits
<1> HIDE DEF got
<1>4. events' \in Seq(1..logged) /\ EventsLeft'
  BY <1>1, NoEventTaken
<1>5. QED BY <1>1, <1>3, <1>4, SendKeeps

LEMMA DeliverKeeps == ASSUME Inv, NEW t \in Transactions, Deliver(t) PROVE Inv'
<1>1. /\ txs < MaxTxs /\ txs' = txs + 1 /\ hpc' = "scan" /\ tx' = t
      /\ success' \in BOOLEAN /\ balances' \in BOOLEAN /\ emitCpi' \in BOOLEAN
      /\ logged' \in IF success' /\ ~emitCpi' THEN 0..Len(t) ELSE {0}
      /\ order' = ExecutionOrder(Listed(t)) /\ ip' = 1
      /\ events' = [i \in 1..logged' |-> i]
      /\ records' = <<>> /\ maps' = {altMints} /\ UNCHANGED avars
  BY DEF Deliver
<1>2. t \in Seq(Swaps) /\ Len(t) \in Nat
  BY SwapsAssumption
<1>3. logged' \in 0..Len(t) /\ logged' \in Nat /\ (~success' => logged' = 0)
  BY <1>1, <1>2
<1>4. events' \in Seq(1..logged') /\ DOMAIN events' = 1..logged'
  <2>1. events' \in [1..logged' -> 1..logged']
    BY <1>1
  <2>2. QED BY <1>3, <2>1, FunctionIsSeq
<1>5. DOMAIN records' = {} /\ IsSequence(records)' /\ Recorded' = {}
  BY <1>1 DEF IsSequence, Recorded
<1>6. order' = [i \in 1..Len(t) |-> i]
  BY <1>1, <1>2, OrderIs
<1>7. AltInv'
  BY <1>1 DEF Inv, AltInv, AltTypeOK, avars
<1>8. HandlerTypeOK'
  <2>1. txs' \in 0..MaxTxs
    BY <1>1, CpmmAssumption DEF Inv, HandlerTypeOK
  <2>2. maps' \subseteq AltMap
    BY <1>1 DEF Inv, AltInv, AltTypeOK
  <2>3. ip' \in 1..(Len(t) + 1)
    BY <1>1, <1>2
  <2>4. QED BY <1>1, <1>3, <1>4, <1>5, <1>6, <2>1, <2>2, <2>3 DEF HandlerTypeOK
<1>9. RecordsInv' /\ EventsAreOwn'
  BY <1>5 DEF RecordsInv, EventsAreOwn
<1>10. EventsLeft'
  <2>1. \A i, j \in DOMAIN events' : i < j => events'[i] < events'[j]
    BY <1>1, <1>4
  <2>2. EventSet' = 1..logged'
    BY <1>1, <1>4 DEF EventSet
  <2>3. \A l \in 1..logged' : l \in EventSet' <=> l >= ip'
    BY <1>1, <1>3, <2>2
  <2>4. QED BY <2>1, <2>3 DEF EventsLeft
<1>11. ScopeInv'
  <2>1. altMints' \in maps'
    BY <1>1 DEF avars
  <2>2. 1..(ip' - 1) = {}
    BY <1>1
  <2>3. QED BY <1>5, <2>1, <2>2 DEF ScopeInv
<1>12. OneMap'
  BY <1>1 DEF Inv, OneMap, avars
<1>13. QED BY <1>7, <1>8, <1>9, <1>10, <1>11, <1>12 DEF Inv

\* A step that leaves the scan's position and results alone.
LEMMA ScanKept ==
    ASSUME Inv, UNCHANGED <<tx, logged, order, ip, events, records>>
    PROVE  RecordsInv' /\ EventsAreOwn' /\ EventsLeft' /\ Recorded' = Recorded
<1>1. Recorded' = Recorded /\ EventSet' = EventSet
  BY DEF Recorded, EventSet
<1>2. RecordsInv'
  BY FitsKept DEF Inv, RecordsInv
<1>3. EventsAreOwn'
  BY <1>1, FitsKept DEF Inv, EventsAreOwn, SamePool
<1>4. EventsLeft'
  BY <1>1 DEF Inv, EventsLeft, Clean
<1>5. QED BY <1>1, <1>2, <1>3, <1>4

LEMMA ReturnKeeps == ASSUME Inv, Return PROVE Inv'
<1>1. /\ hpc = "scan" /\ ip > Len(order) /\ hpc' = "idle"
      /\ UNCHANGED <<avars, tx, success, logged, emitCpi, balances, order, ip, events,
                     records, txs, maps>>
  BY DEF Return
<1>2. ip = Len(tx) + 1
  <2>1. Len(tx) \in Nat
    BY TxTyped DEF Inv, HandlerTypeOK
  <2>2. Len(order) = Len(tx)
    <3>1. order \in [1..Len(tx) -> Nat]
      BY <2>1 DEF Inv, HandlerTypeOK
    <3>2. QED BY <2>1, <3>1, FunctionIsSeq
  <2>3. QED BY <1>1, <2>1, <2>2 DEF Inv, HandlerTypeOK
<1>3. HandlerTypeOK'
  BY <1>1, <1>2 DEF Inv, HandlerTypeOK, IsSequence
<1>4. AltInv' /\ OneMap'
  BY <1>1 DEF Inv, AltInv, AltTypeOK, OneMap, avars
<1>5. RecordsInv' /\ EventsAreOwn' /\ EventsLeft' /\ Recorded' = Recorded
  BY <1>1, ScanKept
<1>6. ScopeInv'
  BY <1>1, <1>5 DEF Inv, ScopeInv, Accepts, Tracked
<1>7. QED BY <1>3, <1>4, <1>5, <1>6 DEF Inv

\* Whatever a refresh does, it adds to the maps in force, and as long as
\* alt_mints has not changed it writes what is there.
LEMMA RefreshKeeps == ASSUME Inv, Refresh PROVE Inv'
<1>1. /\ ANext /\ maps' = IF hpc = "idle" THEN maps ELSE maps \cup {altMints'}
      /\ UNCHANGED <<hpc, tx, success, logged, emitCpi, balances, order, ip, events, records, txs>>
  BY DEF Refresh
<1>2. AltInv'
  BY <1>1, AltStep DEF Inv
<1>3. maps \subseteq maps' /\ maps' \subseteq maps \cup {altMints'} /\ altMints' \in AltMap
  BY <1>1, <1>2 DEF AltInv, AltTypeOK
<1>4. HandlerTypeOK'
  <2>1. maps' \subseteq AltMap
    BY <1>3 DEF Inv, HandlerTypeOK
  <2>2. QED BY <1>1, <2>1 DEF Inv, HandlerTypeOK, IsSequence
<1>5. RecordsInv' /\ EventsAreOwn' /\ EventsLeft' /\ Recorded' = Recorded
  BY <1>1, ScanKept
<1>6. ScopeInv'
  <2>1. hpc' = "scan" => altMints' \in maps'
    BY <1>1
  <2>2. \A j \in 1..(ip - 1) : (\A m \in maps' : Accepts(m, tx[j].pool)) => j \in Recorded
    BY <1>3 DEF Inv, ScopeInv
  <2>3. \A j \in Recorded : \E m \in maps' : Accepts(m, tx[j].pool)
    BY <1>3 DEF Inv, ScopeInv
  <2>4. QED BY <1>1, <1>5, <2>1, <2>2, <2>3 DEF ScopeInv, Accepts, Tracked
<1>7. OneMap'
  <2> SUFFICES ASSUME altChanges' = 0
               PROVE  altMints' = altDb' /\ fresh' = altDb' /\ maps' \subseteq {altDb'}
    BY DEF OneMap
  <2>1. ~ChangeAltDb
    BY DEF ChangeAltDb, Inv, AltInv, AltTypeOK
  <2>2. altChanges = 0 /\ altDb' = altDb
    BY <1>1, <2>1 DEF ANext, Fetch, Retain, InsertInfo
  <2>3. altMints = altDb /\ fresh = altDb /\ maps \subseteq {altDb}
    BY <2>2 DEF Inv, OneMap
  <2>4. altMints' = altMints /\ fresh' = altDb
    <3>1. CASE Fetch
      BY <3>1 DEF Fetch
    <3>2. CASE Retain
      BY <2>3, <3>2 DEF Retain
    <3>3. CASE InsertInfo
      <4>1. altMints \in [TrackedMints -> Infos \cup {Absent}]
        BY DEF Inv, AltInv, AltTypeOK, AltMap
      <4>2. ASSUME NEW m \in todo PROVE [altMints EXCEPT ![m] = fresh[m]] = altMints
        BY <2>3, <4>1
      <4>3. QED BY <2>3, <3>3, <4>2 DEF InsertInfo
    <3>4. QED BY <1>1, <2>1, <3>1, <3>2, <3>3 DEF ANext
  <2>5. QED BY <1>3, <2>2, <2>3, <2>4
<1>8. QED BY <1>2, <1>4, <1>5, <1>6, <1>7 DEF Inv

LEMMA InitInv == Init => Inv
<1> SUFFICES ASSUME Init PROVE Inv
  OBVIOUS
<1>1. AltInv /\ OneMap
  BY AltAssumption DEF Init, AInit, AltInv, AltTypeOK, OneMap
<1>2. /\ tx = <<>> /\ Len(tx) = 0 /\ hpc = "idle" /\ ip = 1 /\ logged = 0 /\ events = <<>>
      /\ order = <<>> /\ records = <<>> /\ maps = {} /\ txs = 0
      /\ success \in BOOLEAN /\ emitCpi \in BOOLEAN /\ balances \in BOOLEAN
  BY DEF Init
<1>3. order = [i \in 1..Len(tx) |-> i]
  BY <1>2
<1>4. IsSequence(records) /\ DOMAIN records = {} /\ Recorded = {}
  BY <1>2 DEF IsSequence, Recorded
<1>5. HandlerTypeOK
  <2>1. 0 \in 0..MaxTxs
    BY CpmmAssumption
  <2>2. events \in Seq(1..logged)
    BY <1>2
  <2>3. QED BY <1>2, <1>3, <1>4, <2>1, <2>2 DEF HandlerTypeOK
<1>6. RecordsInv /\ EventsAreOwn
  BY <1>4 DEF RecordsInv, EventsAreOwn
<1>7. EventsLeft
  BY <1>2 DEF EventsLeft
<1>8. ScopeInv
  BY <1>2, <1>4 DEF ScopeInv
<1>9. QED BY <1>1, <1>5, <1>6, <1>7, <1>8 DEF Inv

-----------------------------------------------------------------------------
(* The inductive invariant holds: records fit their swaps, the events left *)
(* are those of the swaps to come, and scope is respected up to the scan's *)
(* position.                                                               *)
THEOREM InvCorrect == Spec => []Inv
<1>1. Inv /\ [Next]_vars => Inv'
  <2> SUFFICES ASSUME Inv, [Next]_vars PROVE Inv'
    OBVIOUS
  <2>1. ASSUME NEW t \in Transactions, Deliver(t) PROVE Inv'
    BY <2>1, DeliverKeeps
  <2>2. CASE UNCHANGED vars
    <3>1. UNCHANGED <<tx, logged, order, ip, events, records, hpc, txs, success, emitCpi,
                      balances, maps, avars>>
      BY <2>2 DEF vars, hvars
    <3>2. RecordsInv' /\ EventsAreOwn' /\ EventsLeft' /\ Recorded' = Recorded
      BY <3>1, ScanKept
    <3>3. AltInv' /\ OneMap'
      BY <3>1 DEF Inv, AltInv, AltTypeOK, OneMap, avars
    <3>4. HandlerTypeOK'
      BY <3>1 DEF Inv, HandlerTypeOK, IsSequence
    <3>5. ScopeInv'
      BY <3>1, <3>2 DEF Inv, ScopeInv, Accepts, Tracked, avars
    <3>6. QED BY <3>2, <3>3, <3>4, <3>5 DEF Inv
  <2>3. QED BY <2>1, <2>2, SkipKeeps, LogKeeps, CpiKeeps, VaultsKeep, RequestKeeps,
               ReturnKeeps, RefreshKeeps DEF Next
<1>2. QED BY <1>1, InitInv, PTL DEF Spec

(* The types of the handler and of the map; in particular every amount of  *)
(* a record fits u64, whichever source it comes from.                      *)
THEOREM TypeCorrect == Spec => []TypeOK
<1>1. Inv => TypeOK
  <2> SUFFICES ASSUME Inv PROVE TypeOK
    OBVIOUS
  <2>1. Len(tx) \in Nat /\ DOMAIN tx = 1..Len(tx)
    BY TxTyped DEF Inv, HandlerTypeOK
  <2>2. order \in Seq(DOMAIN tx) /\ Len(order) = Len(tx)
    <3>1. order \in [1..Len(tx) -> 1..Len(tx)]
      BY DEF Inv, HandlerTypeOK
    <3>2. QED BY <2>1, <3>1, FunctionIsSeq
  <2>3. events \in Seq(DOMAIN tx)
    <3>1. 1..logged \subseteq DOMAIN tx
      BY <2>1 DEF Inv, HandlerTypeOK
    <3>2. /\ events \in Seq(1..logged) /\ Len(events) \in Nat
          /\ events \in [1..Len(events) -> 1..logged]
      BY DEF Inv, HandlerTypeOK
    <3>3. events \in [1..Len(events) -> DOMAIN tx]
      BY <3>1, <3>2
    <3>4. QED BY <3>2, <3>3, FunctionIsSeq
  <2>4. ASSUME NEW i \in DOMAIN records
        PROVE  /\ records[i].swap \in DOMAIN tx /\ records[i].got.source \in Sources
               /\ {records[i].got.side.base, records[i].got.side.quote} \subseteq 0..U64Max
    <3>1. records[i].swap \in 1..(ip - 1) /\ RecordFits(records[i].swap, records[i].got)
      BY DEF Inv, RecordsInv
    <3>2. records[i].swap \in DOMAIN tx
      BY <2>1, <3>1 DEF Inv, HandlerTypeOK
    <3>3. QED BY <3>1, <3>2 DEF RecordFits, Amounts
  <2>5. QED BY <2>2, <2>3, <2>4 DEF Inv, AltInv, AltTypeOK, HandlerTypeOK, TypeOK
<1>2. QED BY <1>1, InvCorrect, PTL

(* A record made from an event has its own swap's side, amounts, fee and   *)
(* reserves, for transactions of any length and logs cut anywhere, if the  *)
(* earlier swaps on the pool were recorded too.                            *)
THEOREM EventsAreOwnCorrect == Spec => []EventsAreOwn
<1>1. Inv => EventsAreOwn
  BY DEF Inv
<1>2. QED BY <1>1, InvCorrect, PTL

(* cpmm_swap_from_vault_balances is exact for the only swap on its pool,   *)
(* but for the fees accrued in the vaults.                                 *)
THEOREM VaultAmountsCorrect == Spec => []VaultAmountsExactAlone
<1>1. Inv => VaultAmountsExactAlone
  BY DEF Inv, RecordsInv, RecordFits, Alone, VaultAmountsExactAlone
<1>2. QED BY <1>1, InvCorrect, PTL

(* cpmm_market_cap is the exact quotient, rounded down and saturated, for  *)
(* every width of the integers: no product of two amounts overflows.       *)
THEOREM MarketCapCorrect == Spec => []MarketCapExact
<1>1. Inv => MarketCapExact
  BY DEF Inv, RecordsInv, RecordFits, CapIs, MarketCapExact
<1>2. QED BY <1>1, InvCorrect, PTL

(* A finished scan recorded once, and in execution order, every swap that  *)
(* qualified all the while, and none that never did, whatever the refresh  *)
(* of alt_mints did meanwhile.                                             *)
THEOREM RecordsByScopeCorrect == Spec => []RecordsByScope
<1>1. Inv => RecordsByScope
  <2> SUFFICES ASSUME Inv PROVE RecordsByScope
    OBVIOUS
  <2>1. \A i, j \in DOMAIN records : i < j => records[i].swap < records[j].swap
    BY DEF Inv, RecordsInv
  <2>2. ASSUME hpc = "idle", NEW j \in DOMAIN tx
        PROVE  /\ (\A m \in maps : Accepts(m, tx[j].pool)) => j \in Recorded
               /\ (altChanges = 0 /\ Accepts(altDb, tx[j].pool)) => j \in Recorded
    <3>1. Len(tx) \in Nat /\ DOMAIN tx = 1..Len(tx) /\ ip = Len(tx) + 1
      BY <2>2, TxTyped DEF Inv, HandlerTypeOK
    <3>2. j \in 1..(ip - 1)
      BY <3>1
    <3>3. (\A m \in maps : Accepts(m, tx[j].pool)) => j \in Recorded
      BY <3>2 DEF Inv, ScopeInv
    <3>4. altChanges = 0 /\ Accepts(altDb, tx[j].pool) => \A m \in maps : Accepts(m, tx[j].pool)
      BY DEF Inv, OneMap
    <3>5. QED BY <3>3, <3>4
  <2>3. \A j \in Recorded : \E m \in maps : Accepts(m, tx[j].pool)
    BY DEF Inv, ScopeInv
  <2>4. QED BY <2>1, <2>2, <2>3 DEF RecordsByScope
<1>2. QED BY <1>1, InvCorrect, PTL

=============================================================================
