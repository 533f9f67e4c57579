-------------------------- MODULE EventScanProofs --------------------------
(***************************************************************************)
(* Proofs about the attribution of self-CPI events, for call trees of any  *)
(* size and depth.                                                         *)
(***************************************************************************)
EXTENDS EventScan, SequenceTheorems, TLAPS

Ix == [kind: Kinds, height: 2..MaxHeight]

\* How the flat list encodes a call: it comes after its caller, one level
\* deeper, and everything in between is deeper than the caller.
CallNested(q) ==
    /\ parent[q] < q
    /\ trace[q].height = HeightOf(parent[q]) + 1
    /\ \A i \in DOMAIN trace :
          parent[q] < i /\ i <= q => trace[i].height > HeightOf(parent[q])
    /\ MayInvoke(KindOf(parent[q]), trace[q].kind)

CallsNested == \A q \in DOMAIN trace : CallNested(q)

\* The invocations under way: the j-th is at height j, and everything recorded
\* since it began is deeper.
OpenAt(j) ==
    /\ stack[j] <= Len(trace)
    /\ HeightOf(stack[j]) = j
    /\ \A i \in DOMAIN trace : stack[j] < i => trace[i].height > j

StackNested == \A j \in DOMAIN stack : OpenAt(j)

Inv == TypeOK /\ CallsNested /\ StackNested

-----------------------------------------------------------------------------
LEMMA InitInv == Init => Inv
<1> SUFFICES ASSUME Init PROVE Inv
  OBVIOUS
<1>1. /\ Len(trace) = 0 /\ Len(parent) = 0 /\ DOMAIN trace = {}
      /\ stack = <<0>> /\ Len(stack) = 1 /\ DOMAIN stack = {1} /\ stack[1] = 0
  BY DEF Init
<1>2. TypeOK
  <2>1. 0 \in 0..MaxTrace
    BY ScanAssumption
  <2>2. QED BY <1>1, <2>1 DEF Init, TypeOK
<1>3. CallsNested
  BY <1>1 DEF CallsNested
<1>4. StackNested
  BY <1>1 DEF StackNested, OpenAt, HeightOf
<1>5. QED BY <1>2, <1>3, <1>4 DEF Inv

\* The facts about the sequences that every step needs.
LEMMA Shapes ==
    ASSUME TypeOK
    PROVE  /\ Len(trace) \in Nat /\ DOMAIN trace = 1..Len(trace) /\ DOMAIN parent = 1..Len(trace)
           /\ Len(stack) \in Nat /\ DOMAIN stack = 1..Len(stack)
           /\ \A i \in 1..Len(trace) : /\ trace[i] \in Ix /\ trace[i].height \in Nat
                                       /\ trace[i].height >= 2 /\ trace[i].kind \in Kinds
                                       /\ parent[i] \in Nat
           /\ \A j \in 1..Len(stack) : stack[j] \in Nat
<1>1. /\ Len(trace) \in Nat /\ DOMAIN trace = 1..Len(trace) /\ DOMAIN parent = 1..Len(trace)
      /\ Len(stack) \in Nat /\ DOMAIN stack = 1..Len(stack)
  BY DEF TypeOK
<1>2. \A i \in 1..Len(trace) : trace[i] \in Ix
  <2>1. trace \in Seq(Ix)
    BY DEF TypeOK, Ix
  <2>2. QED BY <2>1, ElementOfSeq
<1>3. \A x \in Ix : x.height \in Nat /\ x.height >= 2 /\ x.kind \in Kinds
  BY ScanAssumption DEF Ix
<1>4. \A i \in 1..Len(trace) : parent[i] \in Nat
  BY ScanAssumption DEF TypeOK
<1>5. \A j \in 1..Len(stack) : stack[j] \in Nat
  BY ScanAssumption DEF TypeOK
<1>6. QED BY <1>1, <1>2, <1>3, <1>4, <1>5

-----------------------------------------------------------------------------
(* A call.                                                                 *)

LEMMA InvokeKeeps == ASSUME Inv, NEW kind \in Kinds, Invoke(kind) PROVE Inv'
<1>a. PICK n \in Nat : n = Len(trace) + 1
  BY Shapes DEF Inv
<1>b. PICK h \in Nat : h = Len(stack) + 1
  BY Shapes DEF Inv
<1> DEFINE new == [kind |-> kind, height |-> h]
<1>1. /\ stack # <<>> /\ Len(stack) < MaxHeight /\ Len(trace) < MaxTrace
      /\ MayInvoke(KindOf(Running), kind) /\ UNCHANGED <<heights, top>>
      /\ trace' = Append(trace, new) /\ parent' = Append(parent, Running)
      /\ stack' = Append(stack, n)
  BY <1>a, <1>b DEF Invoke
<1>2. /\ Len(stack) >= 1 /\ Running \in 0..MaxTrace /\ h \in 2..MaxHeight
      /\ Len(stack) \in 1..Len(stack)
  <2>1. Len(stack) \in Nat /\ Len(stack) # 0
    BY <1>1, EmptySeq DEF Inv, TypeOK
  <2>2. QED BY <1>b, <1>1, <2>1, ScanAssumption, ElementOfSeq DEF Inv, TypeOK, Running
<1>3. TypeOK'
  <2>1. new \in Ix /\ n \in 0..MaxTrace
    BY <1>a, <1>1, <1>2, ScanAssumption DEF Ix, Inv, TypeOK
  <2>2. trace' \in Seq(Ix) /\ parent' \in Seq(0..MaxTrace) /\ stack' \in Seq(0..MaxTrace)
    BY <1>1, <1>2, <2>1, AppendProperties DEF Inv, TypeOK, Ix
  <2>3. Len(trace') = Len(trace) + 1 /\ Len(parent') = Len(parent) + 1
    BY <1>1, <1>2, <2>1, AppendProperties DEF Inv, TypeOK, Ix
  <2>4. QED BY <1>1, <2>2, <2>3 DEF Inv, TypeOK, Ix
<1>4. /\ DOMAIN trace' = 1..n /\ DOMAIN stack' = 1..h /\ Len(trace') = n
      /\ trace'[n] = new /\ parent'[n] = Running /\ stack'[h] = n
      /\ \A i \in 1..Len(trace) : trace'[i] = trace[i] /\ parent'[i] = parent[i]
      /\ \A j \in 1..Len(stack) : stack'[j] = stack[j]
  BY <1>a, <1>b, <1>1 DEF Inv, TypeOK
<1>5. /\ HeightOf(Running) = Len(stack) /\ Running \in 0..Len(trace)
      /\ \A i \in 1..Len(trace) : Running < i => trace[i].height > Len(stack)
  <2>1. OpenAt(Len(stack)) /\ Running = stack[Len(stack)] /\ Running \in Nat
    BY <1>2, Shapes DEF Inv, StackNested, Running
  <2>2. Len(trace) \in Nat /\ DOMAIN trace = 1..Len(trace)
    BY Shapes DEF Inv
  <2>3. QED BY <2>1, <2>2 DEF OpenAt
<1>6. /\ Len(trace) \in Nat /\ Len(stack) \in Nat /\ new.height = h /\ new.kind = kind
      /\ n = Len(trace) + 1 /\ h = Len(stack) + 1
  BY <1>a, <1>b, Shapes DEF Inv
<1> HIDE DEF new
\* The calls and the heights recorded before are not disturbed.
<1>7. ASSUME NEW p \in 0..Len(trace)
      PROVE  HeightOf(p)' = HeightOf(p) /\ KindOf(p)' = KindOf(p)
  BY <1>1, <1>4 DEF HeightOf, KindOf
<1>8. ASSUME NEW q \in 1..Len(trace) PROVE CallNested(q)'
  <2>1. CallNested(q) /\ parent[q] \in 0..Len(trace)
    <3>1. q \in DOMAIN trace /\ parent[q] \in Nat
      BY Shapes DEF Inv
    <3>2. CallNested(q)
      BY <3>1 DEF Inv, CallsNested
    <3>3. parent[q] < q
      BY <3>2 DEF CallNested
    <3>4. QED BY <1>6, <3>1, <3>2, <3>3
  <2>2. parent'[q] = parent[q] /\ trace'[q] = trace[q] /\ q < n
    BY <1>4, <1>6
  <2>3. PICK p \in 0..Len(trace) : p = parent[q]
    BY <2>1
  <2>4. /\ (HeightOf(parent[q]))' = HeightOf(p)' /\ (KindOf(parent[q]))' = KindOf(p)'
    BY <2>2, <2>3 DEF HeightOf, KindOf
  <2>5. HeightOf(p)' = HeightOf(p) /\ KindOf(p)' = KindOf(p)
    BY <1>7
  <2>6. ASSUME NEW i \in 1..n, p < i, i <= q PROVE trace'[i].height > HeightOf(p)
    <3>1. i \in 1..Len(trace)
      BY <1>6, <2>2, <2>6
    <3>2. trace'[i] = trace[i] /\ i \in DOMAIN trace
      BY <1>4, <3>1, Shapes DEF Inv
    <3>3. QED BY <2>1, <2>3, <2>6, <3>2 DEF CallNested
  <2>7. QED BY <1>4, <2>1, <2>2, <2>3, <2>4, <2>5, <2>6 DEF CallNested, MayInvoke
<1>9. CallNested(n)'
  <2>1. PICK p \in 0..Len(trace) : p = Running
    BY <1>5
  <2>2. /\ (HeightOf(parent[n]))' = HeightOf(p)' /\ (KindOf(parent[n]))' = KindOf(p)'
    BY <1>4, <2>1 DEF HeightOf, KindOf
  <2>3. HeightOf(p)' = Len(stack) /\ KindOf(p)' = KindOf(Running)
    BY <1>5, <1>7, <2>1
  <2>4. ASSUME NEW i \in 1..n, p < i PROVE trace'[i].height > Len(stack)
    <3>1. CASE i = n
      BY <1>4, <1>6, <3>1
    <3>2. CASE i # n
      <4>1. i \in 1..Len(trace)
        BY <1>6, <3>2
      <4>2. QED BY <1>4, <1>5, <2>1, <2>4, <4>1
    <3>3. QED BY <3>1, <3>2
  <2>5. p < n
    BY <1>6
  <2>6. QED BY <1>1, <1>4, <1>6, <2>1, <2>2, <2>3, <2>4, <2>5 DEF CallNested
<1>10. ASSUME NEW j \in 1..Len(stack) PROVE OpenAt(j)'
  <2>1. /\ OpenAt(j) /\ stack[j] \in 0..Len(trace) /\ j < h
    <3>1. DOMAIN stack = 1..Len(stack) /\ stack[j] \in Nat
      BY Shapes DEF Inv
    <3>2. OpenAt(j)
      BY <3>1 DEF Inv, StackNested
    <3>3. stack[j] <= Len(trace)
      BY <3>2 DEF OpenAt
    <3>4. QED BY <1>6, <3>1, <3>2, <3>3
  <2>2. PICK p \in 0..Len(trace) : p = stack[j]
    BY <2>1
  <2>3. (HeightOf(stack[j]))' = HeightOf(p)'
    BY <1>4, <2>2 DEF HeightOf
  <2>4. HeightOf(p)' = j
    BY <1>7, <2>1, <2>2 DEF OpenAt
  <2>5. ASSUME NEW i \in 1..n, p < i PROVE trace'[i].height > j
    <3>1. CASE i = n
      BY <1>4, <1>6, <2>1, <3>1
    <3>2. CASE i # n
      <4>1. i \in 1..Len(trace)
        BY <1>6, <3>2
      <4>2. trace'[i] = trace[i] /\ i \in DOMAIN trace
        BY <1>4, <4>1, Shapes DEF Inv
      <4>3. QED BY <2>1, <2>2, <2>5, <4>2 DEF OpenAt
    <3>3. QED BY <3>1, <3>2
  <2>6. p <= n
    BY <1>6
  <2>7. QED BY <1>4, <2>2, <2>3, <2>4, <2>5, <2>6 DEF OpenAt
<1>11. OpenAt(h)'
  <2>1. (HeightOf(stack[h]))' = trace'[n].height
    BY <1>4, <1>6 DEF HeightOf
  <2>2. QED BY <1>4, <1>6, <2>1 DEF OpenAt
<1>12. \A q \in 1..n : q \in 1..Len(trace) \/ q = n
  BY <1>6
<1>13. \A j \in 1..h : j \in 1..Len(stack) \/ j = h
  BY <1>6
<1>14. CallsNested'
  BY <1>4, <1>8, <1>9, <1>12 DEF CallsNested
<1>15. StackNested'
  BY <1>4, <1>10, <1>11, <1>13 DEF StackNested
<1>16. QED BY <1>3, <1>14, <1>15 DEF Inv

\* A return only pops the stack.
LEMMA ReturnKeeps == ASSUME Inv, Return PROVE Inv'
<1>1. /\ stack # <<>> /\ UNCHANGED <<heights, top, trace, parent>>
      /\ stack' = SubSeq(stack, 1, Len(stack) - 1)
  BY DEF Return
<1>2. Len(stack) \in Nat /\ Len(stack) # 0 /\ stack \in Seq(0..MaxTrace)
  BY <1>1, EmptySeq DEF Inv, TypeOK
<1>3. /\ stack' \in Seq(0..MaxTrace) /\ DOMAIN stack' = 1..(Len(stack) - 1)
      /\ \A j \in 1..(Len(stack) - 1) : stack'[j] = stack[j]
  <2>1. PICK m \in Nat : m = Len(stack) - 1
    BY <1>2
  <2>2. \A j \in 1..m : stack[j] \in 0..MaxTrace
    <3>1. \A j \in 1..m : j \in 1..Len(stack)
      BY <1>2, <2>1
    <3>2. QED BY <1>2, <3>1, ElementOfSeq
  <2>3. /\ SubSeq(stack, 1, m) \in Seq(0..MaxTrace)
        /\ Len(SubSeq(stack, 1, m)) = IF 1 <= m THEN m - 1 + 1 ELSE 0
        /\ \A j \in 1..(m - 1 + 1) : SubSeq(stack, 1, m)[j] = stack[1 + j - 1]
    BY <2>2, SubSeqProperties
  <2>4. stack' \in Seq(0..MaxTrace) /\ Len(stack') = m /\ \A j \in 1..m : stack'[j] = stack[j]
    BY <1>1, <2>1, <2>3
  <2>5. QED BY <2>1, <2>4, LenProperties
<1>4. TypeOK'
  BY <1>1, <1>3 DEF Inv, TypeOK
<1>5. CallsNested'
  BY <1>1 DEF Inv, CallsNested, CallNested, HeightOf, KindOf
<1>6. ASSUME NEW j \in 1..(Len(stack) - 1) PROVE OpenAt(j)'
  <2>1. OpenAt(j)
    BY <1>2, Shapes DEF Inv, StackNested
  <2>2. QED BY <1>1, <1>3, <2>1 DEF OpenAt, HeightOf
<1>7. QED BY <1>3, <1>4, <1>5, <1>6 DEF Inv, StackNested

-----------------------------------------------------------------------------
(* The scan.                                                               *)

\* The direct children of p in the flat list are the calls p made; without
\* heights they are at least among those the scan looks at.
LEMMA ChildrenAreCalls ==
    ASSUME Inv, NEW p \in 0..Len(trace), NEW q \in 1..Len(trace)
    PROVE  /\ parent[q] = p =>
                q \in Subtree(p) /\ (heights => trace[q].height = TradeStack(p) + 1)
           /\ heights /\ q \in Subtree(p) /\ trace[q].height = TradeStack(p) + 1 =>
                parent[q] = p
<1>1. /\ CallNested(q) /\ parent[q] \in Nat /\ Len(trace) \in Nat
      /\ DOMAIN trace = 1..Len(trace)
  BY Shapes DEF Inv, CallsNested
<1>2. \A i \in 1..Len(trace) : trace[i].height \in Nat /\ HeightOf(i) = trace[i].height
  BY Shapes DEF Inv, HeightOf
<1>3. \A i \in 0..Len(trace) : HeightOf(i) \in Nat
  BY <1>1, <1>2 DEF HeightOf
<1>4. parent[q] < q /\ parent[q] \in 0..Len(trace)
  BY <1>1 DEF CallNested
<1>5. ASSUME parent[q] = p
      PROVE  q \in Subtree(p) /\ (heights => trace[q].height = TradeStack(p) + 1)
  <2>1. q \in (p + 1)..Len(trace)
    BY <1>4, <1>5, <1>1
  <2>2. ASSUME NEW i \in (p + 1)..q PROVE trace[i].height > HeightOf(p)
    <3>1. i \in 1..Len(trace) /\ p < i /\ i <= q
      BY <1>1
    <3>2. QED BY <1>1, <1>5, <3>1 DEF CallNested
  <2>3. trace[q].height = HeightOf(p) + 1
    BY <1>1, <1>5 DEF CallNested
  <2>4. QED BY <2>1, <2>2, <2>3 DEF Subtree, TradeStack
<1>6. ASSUME heights, q \in Subtree(p), trace[q].height = TradeStack(p) + 1
      PROVE  parent[q] = p
  <2>1. /\ p < q
        /\ \A i \in 1..Len(trace) : p < i /\ i <= q => trace[i].height > HeightOf(p)
        /\ trace[q].height = HeightOf(p) + 1
    BY <1>1, <1>6 DEF Subtree, TradeStack
  <2>2. PICK r \in 0..Len(trace) : r = parent[q]
    BY <1>4
  <2>3. HeightOf(r) = HeightOf(p) /\ r < q
    BY <1>1, <1>3, <1>4, <2>1, <2>2 DEF CallNested
  <2>4. CASE r < p
    <3>1. p \in 1..Len(trace)
      BY <1>1, <2>4
    <3>2. trace[p].height > HeightOf(r)
      BY <1>1, <2>1, <2>2, <2>4, <3>1 DEF CallNested
    <3>3. QED BY <1>2, <1>3, <2>3, <3>1, <3>2
  <2>5. CASE p < r
    <3>1. r \in 1..Len(trace)
      BY <1>1, <2>5
    <3>2. trace[r].height > HeightOf(p)
      BY <2>1, <2>3, <2>5, <3>1
    <3>3. QED BY <1>2, <1>3, <2>3, <3>1, <3>2
  <2>6. QED BY <1>1, <2>2, <2>4, <2>5
<1>7. QED BY <1>5, <1>6

LEMMA OwnEvents ==
    ASSUME Inv, NEW p \in Listed
    PROVE  /\ EmittedBy(p) \subseteq DirectChildEvents(p)
           /\ heights => DirectChildEvents(p) \subseteq EmittedBy(p) \cup NestedTrades(p)
<1>1. p \in 0..Len(trace) /\ DOMAIN trace = 1..Len(trace) /\ Len(trace) \in Nat
  BY Shapes DEF Listed, Inv
<1>2. ASSUME heights, NEW q \in DirectChildEvents(p) PROVE q \in EmittedBy(p) \cup NestedTrades(p)
  <2>1. /\ q \in Subtree(p) /\ trace[q].height = TradeStack(p) + 1 /\ q \in 1..Len(trace)
        /\ trace[q].kind \notin {"short", "other"}
    BY <1>1, <1>2 DEF DirectChildEvents, Subtree
  <2>2. parent[q] = p
    BY <1>1, <1>2, <2>1, ChildrenAreCalls
  <2>3. trace[q].kind \in Kinds
    BY <2>1, Shapes DEF Inv
  <2>4. QED BY <1>1, <2>1, <2>2, <2>3 DEF EmittedBy, NestedTrades, Kinds, Events
<1>3. ASSUME NEW q \in EmittedBy(p) PROVE q \in DirectChildEvents(p)
  <2>1. q \in 1..Len(trace) /\ parent[q] = p /\ trace[q].kind \in Events
    BY <1>1 DEF EmittedBy
  <2>2. q \in Subtree(p) /\ (heights => trace[q].height = TradeStack(p) + 1)
    BY <1>1, <2>1, ChildrenAreCalls
  <2>3. QED BY <2>1, <2>2 DEF DirectChildEvents, Events
<1>4. QED BY <1>2, <1>3

\* Without heights: before the first trade event of p there is no other, unless
\* a trade began in between.
LEMMA FirstIsOwn ==
    ASSUME Inv, NEW p \in Listed, NEW e \in OwnTradeEvent(p),
           \A q \in (p + 1)..e : trace[q].kind # "trade",
           NEW q \in 1..Len(trace), p < q, trace[q].kind = "event"
    PROVE  e <= q
<1>1. /\ p \in 0..Len(trace) /\ DOMAIN trace = 1..Len(trace) /\ Len(trace) \in Nat
      /\ \A i \in 1..Len(trace) : trace[i].height \in Nat /\ HeightOf(i) = trace[i].height
  BY Shapes DEF Listed, Inv, HeightOf
<1>2. /\ e \in 1..Len(trace) /\ parent[e] = p
      /\ \A d \in EmittedBy(p) : trace[d].kind = "event" => e <= d
  BY <1>1 DEF OwnTradeEvent, EmittedBy
<1>3. SUFFICES ASSUME q < e PROVE FALSE
  BY <1>1, <1>2
<1>4. PICK r \in 0..Len(trace) : r = parent[q] /\ r < q
  <2>1. parent[q] \in Nat /\ CallNested(q)
    BY <1>1, Shapes DEF Inv, CallsNested
  <2>2. QED BY <1>1, <2>1 DEF CallNested
<1>5. CallNested(q) /\ CallNested(e)
  BY <1>1, <1>2 DEF Inv, CallsNested
<1>6. KindOf(r) = "trade"
  BY <1>4, <1>5 DEF CallNested, MayInvoke, Events
<1>7. r # p
  BY <1>1, <1>2, <1>3, <1>4 DEF EmittedBy, Events
<1>8. ~(p < r)
  <2>1. ASSUME p < r PROVE FALSE
    <3>1. r \in (p + 1)..e /\ r # 0
      BY <1>1, <1>2, <1>3, <1>4, <2>1
    <3>2. QED BY <1>6, <3>1 DEF KindOf
  <2>2. QED BY <2>1
<1>9. r < p /\ p \in 1..Len(trace)
  BY <1>1, <1>4, <1>7, <1>8
<1>10. trace[p].height > HeightOf(r) /\ trace[q].height = HeightOf(r) + 1
  BY <1>1, <1>4, <1>5, <1>9 DEF CallNested
<1>11. trace[q].height > HeightOf(p)
  BY <1>1, <1>2, <1>3, <1>5 DEF CallNested
<1>12. HeightOf(r) \in Nat
  BY <1>1, <1>4 DEF HeightOf
<1>13. QED BY <1>1, <1>9, <1>10, <1>11, <1>12

-----------------------------------------------------------------------------
(* The theorems.                                                           *)

\* The invariant is inductive.
THEOREM InvCorrect == Spec => []Inv
<1>1. Inv /\ [Next]_vars => Inv'
  <2> SUFFICES ASSUME Inv, [Next]_vars PROVE Inv'
    OBVIOUS
  <2>1. CASE UNCHANGED vars
    BY <2>1 DEF vars, Inv, TypeOK, CallsNested, CallNested, StackNested, OpenAt, HeightOf, KindOf
  <2>2. QED BY <2>1, InvokeKeeps, ReturnKeeps DEF Next
<1>2. QED BY <1>1, InitInv, PTL DEF Spec

(* Type correctness of the runtime's list of inner instructions.           *)
THEOREM TypeCorrect == Spec => []TypeOK
<1>1. Inv => TypeOK
  BY DEF Inv
<1>2. QED BY <1>1, InvCorrect, PTL

(* In every call tree the scan of direct_child_events finds all events an  *)
(* instruction of the AMM program emitted itself; with stack heights it    *)
(* finds nothing else but the instructions of trades it called directly.   *)
THEOREM ChildEventsCorrect == Spec => []ChildEventsAreOwn
<1>1. Inv => ChildEventsAreOwn
  BY OwnEvents DEF ChildEventsAreOwn
<1>2. QED BY <1>1, InvCorrect, PTL

(* find_event_data returns the first trade event of the trade itself; also *)
(* without stack heights, if no other trade began before it.               *)
THEOREM OwnTradeEventCorrect == Spec => []FindsOwnTradeEvent
<1>1. Inv => FindsOwnTradeEvent
  <2> SUFFICES ASSUME Inv, NEW p \in Listed,
                      heights \/ \E e \in OwnTradeEvent(p) :
                                    \A q \in (p + 1)..e : trace[q].kind # "trade"
               PROVE  FindEventData(p) = OwnTradeEvent(p)
    BY DEF FindsOwnTradeEvent
  <2> DEFINE got == {q \in DirectChildEvents(p) : trace[q].kind = "event"}
             own == {q \in EmittedBy(p) : trace[q].kind = "event"}
  <2>1. /\ FindEventData(p) = {q \in got : \A e \in got : q <= e}
        /\ OwnTradeEvent(p) = {q \in own : \A e \in own : q <= e}
    BY DEF FindEventData, OwnTradeEvent
  <2>2. own \subseteq got
    BY OwnEvents
  <2>3. CASE heights
    <3>1. got \subseteq own
      BY <2>3, OwnEvents DEF NestedTrades
    <3>2. QED BY <2>1, <2>2, <3>1
  <2>4. CASE ~heights
    <3>1. PICK e \in OwnTradeEvent(p) : \A q \in (p + 1)..e : trace[q].kind # "trade"
      BY <2>4
    <3>2. e \in own /\ e \in got
      BY <2>1, <2>2, <3>1
    <3>3. p \in 0..Len(trace) /\ Len(trace) \in Nat /\ DOMAIN trace = 1..Len(trace)
      BY Shapes DEF Listed, Inv
    <3>4. ASSUME NEW q \in got PROVE q \in 1..Len(trace) /\ e <= q
      <4>1. q \in (p + 1)..Len(trace) /\ trace[q].kind = "event"
        BY DEF DirectChildEvents, Subtree
      <4>2. q \in 1..Len(trace) /\ p < q
        BY <3>3, <4>1
      <4>3. QED BY <3>1, <4>1, <4>2, FirstIsOwn
    <3>5. e \in Nat
      BY <3>2, <3>4
    <3>6. FindEventData(p) = {e}
      BY <2>1, <3>2, <3>3, <3>4, <3>5
    <3>7. OwnTradeEvent(p) = {e}
      <4>1. \A q \in own : q \in Nat /\ e <= q
        BY <2>2, <3>3, <3>4
      <4> HIDE DEF own
      <4>2. ASSUME NEW q \in OwnTradeEvent(p) PROVE q = e
        <5>1. q \in own /\ q <= e
          BY <2>1, <3>2
        <5>2. QED BY <3>5, <4>1, <5>1
      <4>3. QED BY <3>1, <4>2
    <3>8. QED BY <3>6, <3>7
  <2>5. QED BY <2>3, <2>4
<1>2. QED BY <1>1, InvCorrect, PTL

=============================================================================
