-------------------------- MODULE CollectorProofs --------------------------
(***************************************************************************)
(* Proofs about the connection manager, and about the collector as a whole *)
(* that is built on it.  First, for every assignment of transactions to    *)
(* slots and every number of failures: reconnecting leaves no gap.  Then,  *)
(* whatever drops, fails, flushes in part or crashes: a transaction that   *)
(* was received is not forgotten, for every pair of tables, every replay   *)
(* window and every number of crashes.                                     *)
(***************************************************************************)
EXTENDS Collector, WellFoundedInduction, TLAPS

-----------------------------------------------------------------------------
(* Slots.                                                                  *)

\* A non-empty set of naturals has a least element.
LEMMA LeastNatural ==
    ASSUME NEW S, S \subseteq Nat, S # {}
    PROVE  \E x \in S : \A y \in S : x <= y
<1>1. PICK x \in S : \A y \in S : ~(<<y, x>> \in OpToRel(<, Nat))
  BY NatLessThanWellFounded, WFMin
<1>2. \A y \in S : ~(y < x)
  BY <1>1 DEF OpToRel
<1>3. QED BY <1>2

\* The slots of the transactions are positive and in the order of the stream.
LEMMA Slots ==
    /\ MaxTx \in Nat
    /\ \A t \in 1..(MaxTx + 1) : SlotOf[t] \in Nat /\ SlotOf[t] >= 1
    /\ \A t, u \in 1..(MaxTx + 1) : t <= u => SlotOf[t] <= SlotOf[u]
BY SlotOfAssumption, BoundsAssumption

\* The scalar constants, and the slot after the last transaction.
LEMMA Numbers ==
    /\ MaxTx \in Nat /\ MaxFailures \in Nat /\ MaxReconnectAttempts \in Nat \ {0}
    /\ InitialBackoff \in Nat \ {0} /\ MaxBackoff \in Nat /\ InitialBackoff <= MaxBackoff
    /\ SlotOf[MaxTx + 1] \in Nat /\ SlotOf[MaxTx + 1] >= 1
BY Slots, AttemptsAssumption, BackoffAssumption, BoundsAssumption

\* FirstOf is the first transaction that is not before the slot: a replay
\* from the slot starts there and leaves out the transactions before it only.
LEMMA FirstOfSlot ==
    ASSUME NEW slot \in 0..SlotOf[MaxTx + 1]
    PROVE  /\ FirstOf(slot) \in 1..(MaxTx + 1)
           /\ SlotOf[FirstOf(slot)] >= slot
           /\ \A t \in 1..(MaxTx + 1) : SlotOf[t] < slot <=> t < FirstOf(slot)
<1> DEFINE Late == {t \in 1..(MaxTx + 1) : SlotOf[t] >= slot}
<1>1. MaxTx + 1 \in Late /\ Late \subseteq Nat
  BY Slots
<1>2. PICK x \in Late : \A y \in Late : x <= y
  BY <1>1, LeastNatural
<1>3. x \in 1..(MaxTx + 1) /\ SlotOf[x] >= slot /\ \A u \in 1..(x - 1) : SlotOf[u] < slot
  <2>1. ASSUME NEW u \in 1..(x - 1) PROVE SlotOf[u] < slot
    <3>1. u \in 1..(MaxTx + 1) /\ u < x
      BY <1>2, Slots
    <3>2. u \notin Late
      BY <1>2, <3>1
    <3>3. QED BY <3>1, <3>2, Slots
  <2>2. QED BY <1>2, <2>1
<1> DEFINE f == FirstOf(slot)
<1>4. f \in 1..(MaxTx + 1) /\ SlotOf[f] >= slot /\ \A u \in 1..(f - 1) : SlotOf[u] < slot
  BY <1>3 DEF FirstOf
<1>5. ASSUME NEW t \in 1..(MaxTx + 1) PROVE SlotOf[t] < slot <=> t < f
  <2>1. CASE t < f
    BY <1>4, <2>1, Slots
  <2>2. CASE f <= t
    <3>1. SlotOf[f] <= SlotOf[t] /\ SlotOf[f] \in Nat /\ SlotOf[t] \in Nat
      BY <1>4, <2>2, Slots
    <3>2. QED BY <1>4, <2>2, <3>1, Slots
  <2>3. QED BY <1>4, <2>1, <2>2, Slots
<1>6. QED BY <1>4, <1>5

-----------------------------------------------------------------------------
(* The inductive invariant.                                                *)

\* A subscription from the slot would leave nothing out and replay nothing
\* older than what was handled last.
ResumesWell(slot) ==
    /\ \A t \in 1..MaxTx : SlotOf[t] < slot => t \in Accounted
    /\ \A t \in handled : SlotOf[t] <= slot

\* What holds between connections holds during a stream as well: of fromSlot
\* until the stream's first transaction is handled, of last from then on.
Inv ==
    /\ TypeOK
    /\ NoSilentGap
    /\ handled \subseteq 1..tip /\ refused \subseteq 1..tip
    /\ (pc # "stream" \/ last = NoSlot) /\ fromSlot # NoSlot => ResumesWell(fromSlot)
    /\ pc = "stream" /\ last # NoSlot => ResumesWell(last)
    /\ pc = "stream" /\ ~rejected => /\ cursor <= reached
                                     /\ \A t \in handled : SlotOf[t] <= SlotOf[cursor]

LEMMA InitInv == Init => Inv
<1> SUFFICES ASSUME Init PROVE Inv
  OBVIOUS
<1>1. tip \in 0..MaxTx /\ SlotOf[tip + 1] <= SlotOf[MaxTx + 1]
      /\ SlotOf[tip + 1] \in Nat /\ SlotOf[MaxTx + 1] \in Nat
  BY Slots DEF Init
<1>2. fromSlot \in NoSlot..SlotOf[MaxTx + 1] /\ floor \in 1..SlotOf[MaxTx + 1]
  BY <1>1 DEF Init, NoSlot
<1>3. TypeOK
  <2>1. /\ attempts \in 0..(MaxReconnectAttempts - 1) /\ backoff \in 1..MaxBackoff
        /\ cursor \in 1..(MaxTx + 1) /\ reached \in 1..(MaxTx + 1)
        /\ failures \in 0..MaxFailures
    BY Slots, AttemptsAssumption, BackoffAssumption, BoundsAssumption DEF Init
  <2>2. last \in NoSlot..SlotOf[MaxTx + 1]
    BY <1>1 DEF Init, NoSlot
  <2>3. QED BY <1>1, <1>2, <2>1, <2>2 DEF Init, TypeOK
<1>4. fromSlot # NoSlot => ResumesWell(fromSlot)
  <2> SUFFICES ASSUME fromSlot # NoSlot, NEW t \in 1..MaxTx, SlotOf[t] < fromSlot
               PROVE  t \in excused
    BY DEF Init, ResumesWell, Accounted
  <2>1. t < FirstOf(fromSlot)
    BY <1>2, FirstOfSlot, Slots DEF NoSlot
  <2>2. QED BY <2>1 DEF Init
<1>5. QED BY <1>3, <1>4 DEF Init, Inv, NoSilentGap

\* NoSilentGap, with the transactions below r among those of the model.
LEMMA GapBelow ==
    ASSUME NEW r \in 1..(MaxTx + 1), NEW A
    PROVE  (\A t \in 1..(r - 1) : t \in A) <=> (\A t \in 1..MaxTx : t < r => t \in A)
BY Numbers

\* A slot stays a good one to resume from while nothing new is handled.
LEMMA ResumesWellKept ==
    ASSUME NEW slot, ResumesWell(slot), handled' = handled,
           refused \subseteq refused', excused \subseteq excused'
    PROVE  ResumesWell(slot)'
BY DEF ResumesWell, Accounted

-----------------------------------------------------------------------------
(* The actions.                                                            *)

LEMMA TypeKept == TypeOK /\ [Next]_vars => TypeOK'
<1> SUFFICES ASSUME TypeOK, [Next]_vars PROVE TypeOK'
  OBVIOUS
<1> USE Numbers DEF TypeOK
<1>1. CASE SetupFails
  BY <1>1 DEF SetupFails, provider, history
<1>2. CASE Subscribe
  <2>1. FirstOf(fromSlot) \in 1..(MaxTx + 1)
    BY FirstOfSlot DEF NoSlot
  <2>2. /\ cursor' \in 1..(MaxTx + 1) /\ rejected' \in BOOLEAN /\ excused' \subseteq 1..MaxTx
    <3>1. CASE fromSlot = NoSlot
      <4>1. /\ cursor' = tip + 1 /\ rejected' = FALSE
            /\ excused' = excused \cup ((1..tip) \ (handled \cup refused))
        BY <1>2, <3>1 DEF Subscribe
      <4>2. tip + 1 \in 1..(MaxTx + 1) /\ 1..tip \subseteq 1..MaxTx
        OBVIOUS
      <4>3. QED BY <4>1, <4>2
    <3>2. CASE fromSlot # NoSlot
      <4>1. cursor' = FirstOf(fromSlot) /\ rejected' = (fromSlot < floor) /\ excused' = excused
        BY <1>2, <3>2 DEF Subscribe
      <4>2. QED BY <2>1, <4>1
    <3>3. QED BY <3>1, <3>2
  <2>3. reached' \in 1..(MaxTx + 1)
    BY <1>2, <2>2 DEF Subscribe, MaxOf
  <2>4. last' \in NoSlot..SlotOf[MaxTx + 1]
    BY <1>2 DEF Subscribe, NoSlot
  <2>5. QED BY <1>2, <2>2, <2>3, <2>4 DEF Subscribe, provider
<1>3. CASE Deliver
  <2>1. cursor \in 1..MaxTx /\ cursor' \in 1..(MaxTx + 1) /\ reached' \in 1..(MaxTx + 1)
    BY <1>3 DEF Deliver, MaxOf
  <2>2. last' \in NoSlot..SlotOf[MaxTx + 1]
    <3>1. SlotOf[cursor] \in NoSlot..SlotOf[MaxTx + 1]
      BY <2>1, Slots DEF NoSlot
    <3>2. last' = last \/ last' = SlotOf[cursor]
      BY <1>3 DEF Deliver, MaxOf
    <3>3. QED BY <3>1, <3>2
  <2>3. handled' \subseteq 1..MaxTx /\ refused' \subseteq 1..MaxTx
    BY <1>3, <2>1 DEF Deliver
  <2>4. QED BY <1>3, <2>1, <2>2, <2>3 DEF Deliver, provider
<1>4. CASE StreamDrops \/ StreamOutOfRange
  <2>1. fromSlot' \in NoSlot..SlotOf[MaxTx + 1]
    BY <1>4 DEF StreamDrops, StreamOutOfRange, StreamEnd, NoSlot
  <2>2. /\ attempts' = 0 /\ backoff' = InitialBackoff /\ pc' = "sleep" /\ rejected' = FALSE
        /\ UNCHANGED <<last, tip, floor, cursor, handled, refused, excused, reached>>
    BY <1>4 DEF StreamDrops, StreamOutOfRange, StreamEnd, provider, history
  <2>3. failures' \in 0..MaxFailures
    BY <1>4 DEF StreamDrops, StreamOutOfRange, StreamEnd
  <2>4. 0 \in 0..(MaxReconnectAttempts - 1) /\ InitialBackoff \in 1..MaxBackoff
    OBVIOUS
  <2>5. QED BY <2>1, <2>2, <2>3, <2>4
<1>5. CASE Wait
  <2>1. backoff' \in 1..MaxBackoff
    BY <1>5 DEF Wait, MinOf
  <2>2. QED BY <1>5, <2>1 DEF Wait, provider, history
<1>6. CASE Produce \/ Forget
  <2>1. tip' \in 0..MaxTx
    BY <1>6 DEF Produce, Forget
  <2>2. floor' \in 1..SlotOf[MaxTx + 1]
    <3>1. SlotOf[tip + 1] <= SlotOf[MaxTx + 1] /\ SlotOf[tip + 1] \in Nat
      BY Slots
    <3>2. QED BY <1>6, <3>1 DEF Produce, Forget
  <2>3. QED BY <1>6, <2>1, <2>2 DEF Produce, Forget, history
<1>7. CASE UNCHANGED vars
  BY <1>7 DEF vars, provider, history
<1>8. QED BY <1>1, <1>2, <1>3, <1>4, <1>5, <1>6, <1>7 DEF Next

\* A new subscription: what it skips is accounted for.
LEMMA SubscribeKeeps == ASSUME Inv, TypeOK', Subscribe PROVE Inv'
<1>1. /\ pc' = "stream" /\ last' = NoSlot /\ UNCHANGED <<fromSlot, tip, handled, refused>>
      /\ excused \subseteq excused' /\ pc = "connect"
  BY DEF Subscribe, provider
<1>2. fromSlot # NoSlot => ResumesWell(fromSlot)'
  BY <1>1, ResumesWellKept DEF Inv
<1>3. ~rejected' => /\ \A t \in 1..MaxTx : t < cursor' => t \in Accounted'
                    /\ \A t \in handled : SlotOf[t] <= SlotOf[cursor']
  <2>1. CASE fromSlot = NoSlot
    <3>1. cursor' = tip + 1 /\ excused' = excused \cup ((1..tip) \ (handled \cup refused))
      BY <2>1 DEF Subscribe
    <3>2. \A t \in 1..tip : t \in Accounted'
      BY <1>1, <3>1 DEF Accounted
    <3>3. \A t \in handled : t \in 1..(MaxTx + 1) /\ t <= tip + 1 /\ tip + 1 \in 1..(MaxTx + 1)
      BY Slots DEF Inv, TypeOK
    <3>4. QED BY <3>1, <3>2, <3>3, Slots DEF Inv, TypeOK
  <2>2. CASE fromSlot # NoSlot
    <3>1. cursor' = FirstOf(fromSlot) /\ fromSlot \in 0..SlotOf[MaxTx + 1]
      BY <2>2 DEF Subscribe, Inv, TypeOK, NoSlot
    <3>2. /\ cursor' \in 1..(MaxTx + 1) /\ SlotOf[cursor'] >= fromSlot
          /\ \A t \in 1..(MaxTx + 1) : SlotOf[t] < fromSlot <=> t < cursor'
      BY <3>1, FirstOfSlot
    <3>3. ASSUME NEW t \in 1..MaxTx, t < cursor' PROVE t \in Accounted'
      <4>1. SlotOf[t] < fromSlot
        BY <3>2, <3>3, Numbers
      <4>2. QED BY <1>1, <1>2, <2>2, <4>1 DEF ResumesWell
    <3>4. ASSUME NEW t \in handled PROVE SlotOf[t] <= SlotOf[cursor']
      <4>1. SlotOf[t] <= fromSlot
        BY <1>1, <2>2 DEF Inv, ResumesWell
      <4>2. t \in 1..(MaxTx + 1)
        BY Slots DEF Inv, TypeOK
      <4>3. SlotOf[t] \in Nat /\ SlotOf[cursor'] \in Nat /\ fromSlot \in Nat
        BY <3>1, <3>2, <4>2, Slots
      <4>4. QED BY <3>2, <4>1, <4>3
    <3>5. QED BY <3>3, <3>4
  <2>3. QED BY <2>1, <2>2
<1>4. NoSilentGap'
  <2>1. Accounted \subseteq Accounted'
    BY <1>1 DEF Accounted
  <2>2. reached' = reached \/ (~rejected' /\ reached' = cursor')
    BY DEF Subscribe, MaxOf
  <2>3. \A t \in 1..MaxTx : t < reached => t \in Accounted
    BY GapBelow DEF Inv, TypeOK, NoSilentGap
  <2>4. \A t \in 1..MaxTx : t < reached' => t \in Accounted'
    BY <1>3, <2>1, <2>2, <2>3
  <2>5. QED BY <2>4, GapBelow DEF TypeOK, NoSilentGap
<1>5. ~rejected' => cursor' <= reached'
  BY DEF Subscribe, MaxOf, Inv, TypeOK
<1>6. QED BY <1>1, <1>2, <1>3, <1>4, <1>5 DEF Inv

\* A transaction is handled or refused, and the stream moves past it.
LEMMA DeliverKeeps == ASSUME Inv, TypeOK', Deliver PROVE Inv'
<1>1. /\ pc = "stream" /\ pc' = "stream" /\ ~rejected /\ ~rejected'
      /\ cursor \in 1..MaxTx /\ cursor <= tip /\ cursor' = cursor + 1
      /\ reached' = MaxOf(reached, cursor + 1) /\ reached \in 1..(MaxTx + 1)
      /\ UNCHANGED <<fromSlot, tip, excused>>
  BY Numbers DEF Deliver, Inv, TypeOK, provider
<1>2. /\ handled \subseteq handled' /\ handled' \subseteq handled \cup {cursor}
      /\ refused \subseteq refused' /\ refused' \subseteq refused \cup {cursor}
      /\ cursor \in handled' \cup refused'
  BY DEF Deliver
<1>3. Accounted \subseteq Accounted' /\ cursor \in Accounted'
  BY <1>1, <1>2 DEF Accounted
<1>4. cursor <= reached /\ \A t \in handled : SlotOf[t] <= SlotOf[cursor]
  BY <1>1 DEF Inv
<1>5. \A t \in 1..MaxTx : t < reached' => t \in Accounted'
  <2>1. \A t \in 1..MaxTx : t < reached => t \in Accounted
    BY GapBelow DEF Inv, TypeOK, NoSilentGap
  <2>2. \A t \in 1..MaxTx : t < reached' => t < reached \/ t = cursor
    BY <1>1, <1>4, Numbers DEF MaxOf
  <2>3. QED BY <1>3, <2>1, <2>2
<1>6. NoSilentGap'
  BY <1>5, GapBelow DEF TypeOK, NoSilentGap
<1>7. handled' \subseteq 1..tip' /\ refused' \subseteq 1..tip'
  BY <1>1, <1>2 DEF Inv, TypeOK
<1>8. SlotOf[cursor] \in Nat /\ SlotOf[cursor] >= 1 /\ SlotOf[cursor] <= SlotOf[cursor + 1]
      /\ SlotOf[cursor + 1] \in Nat
  BY <1>1, Slots
<1>9. ASSUME NEW t \in handled \cup {cursor}
      PROVE  SlotOf[t] \in Nat /\ SlotOf[t] <= SlotOf[cursor] /\ SlotOf[t] <= SlotOf[cursor + 1]
  <2>1. t \in 1..(MaxTx + 1)
    BY <1>1, Numbers DEF Inv, TypeOK
  <2>2. SlotOf[t] \in Nat
    BY <2>1, Slots
  <2>3. SlotOf[t] <= SlotOf[cursor]
    BY <1>4, <1>8
  <2>4. QED BY <1>8, <2>2, <2>3
<1>10. /\ cursor' <= reached'
       /\ \A t \in handled' : SlotOf[t] <= SlotOf[cursor']
  BY <1>1, <1>2, <1>9 DEF MaxOf
<1>11. CASE cursor \in BadTxs
  <2>1. UNCHANGED <<last, handled>> /\ refused \subseteq refused' /\ excused \subseteq excused'
    BY <1>11, <1>1, <1>2 DEF Deliver
  <2>2. last = NoSlot /\ fromSlot # NoSlot => ResumesWell(fromSlot)'
    BY <1>1, <2>1, ResumesWellKept DEF Inv
  <2>3. last # NoSlot => ResumesWell(last)'
    BY <1>1, <2>1, ResumesWellKept DEF Inv
  <2>4. QED BY <1>1, <1>6, <1>7, <1>10, <2>1, <2>2, <2>3 DEF Inv
<1>12. CASE cursor \notin BadTxs
  <2>1. last' = MaxOf(last, SlotOf[cursor]) /\ last \in Nat
    BY <1>12, Numbers DEF Deliver, Inv, TypeOK, NoSlot
  <2>2. last' \in Nat /\ last' >= SlotOf[cursor] /\ last' # NoSlot
    BY <1>8, <2>1 DEF MaxOf, NoSlot
  <2>3. \A t \in handled' : SlotOf[t] <= last'
    BY <1>2, <1>8, <1>9, <2>2
  <2>4. ASSUME NEW t \in 1..MaxTx, SlotOf[t] < last' PROVE t \in Accounted'
    <3>1. CASE last' = SlotOf[cursor]
      <4>1. ~(cursor <= t)
        <5>1. cursor <= t => SlotOf[cursor] <= SlotOf[t]
          BY <1>1, Slots
        <5>2. SlotOf[t] \in Nat
          BY Slots
        <5>3. QED BY <1>8, <2>4, <3>1, <5>1, <5>2
      <4>2. t < reached'
        BY <1>1, <4>1 DEF MaxOf
      <4>3. QED BY <1>5, <4>2
    <3>2. CASE last' = last /\ last # SlotOf[cursor]
      <4>1. last # NoSlot
        BY <2>2, <3>2
      <4>2. QED BY <1>1, <1>3, <2>4, <3>2, <4>1 DEF Inv, ResumesWell
    <3>3. QED BY <2>1, <3>1, <3>2 DEF MaxOf
  <2>5. (ResumesWell(last))'
    BY <2>3, <2>4 DEF ResumesWell
  <2>6. QED BY <1>1, <1>6, <1>7, <1>10, <2>2, <2>5 DEF Inv
<1>13. QED BY <1>11, <1>12

\* The stream ends: the next request starts at the last slot handled in it.
LEMMA StreamEndKeeps == ASSUME Inv, TypeOK', StreamDrops \/ StreamOutOfRange PROVE Inv'
<1>1. /\ pc = "stream" /\ pc' = "sleep"
      /\ UNCHANGED <<last, tip, handled, refused, excused, reached>>
  BY DEF StreamDrops, StreamOutOfRange, StreamEnd, provider, history
<1>2. \/ fromSlot' = NoSlot
      \/ last # NoSlot /\ fromSlot' = last
      \/ last = NoSlot /\ fromSlot' = fromSlot
  BY DEF StreamDrops, StreamOutOfRange, StreamEnd
<1>3. fromSlot' # NoSlot => ResumesWell(fromSlot')
  BY <1>1, <1>2 DEF Inv
<1>4. fromSlot' # NoSlot => ResumesWell(fromSlot)'
  BY <1>1, <1>3 DEF ResumesWell, Accounted
<1>5. NoSilentGap'
  BY <1>1 DEF Inv, NoSilentGap, Accounted
<1>6. QED BY <1>1, <1>4, <1>5 DEF Inv

\* The other steps change neither the slots nor the transactions accounted for.
LEMMA OtherKeeps ==
    ASSUME Inv, TypeOK', SetupFails \/ Wait \/ Produce \/ Forget \/ UNCHANGED vars
    PROVE  Inv'
<1>1. /\ UNCHANGED <<fromSlot, last, cursor, rejected, handled, refused, excused, reached>>
      /\ pc' = "stream" <=> pc = "stream"
      /\ tip' \in Nat /\ tip \in Nat /\ tip <= tip'
  BY DEF SetupFails, Wait, Produce, Forget, vars, provider, history, Inv, TypeOK
<1>2. handled' \subseteq 1..tip' /\ refused' \subseteq 1..tip'
  BY <1>1 DEF Inv, TypeOK
<1>3. (pc' # "stream" \/ last' = NoSlot) /\ fromSlot' # NoSlot => ResumesWell(fromSlot)'
  BY <1>1 DEF Inv, ResumesWell, Accounted
<1>4. pc' = "stream" /\ last' # NoSlot => ResumesWell(last)'
  BY <1>1 DEF Inv, ResumesWell, Accounted
<1>5. NoSilentGap'
  BY <1>1 DEF Inv, NoSilentGap, Accounted
<1>6. pc' = "stream" /\ ~rejected' => /\ cursor' <= reached'
                                      /\ \A t \in handled' : SlotOf[t] <= SlotOf[cursor']
  BY <1>1 DEF Inv
<1>7. QED BY <1>2, <1>3, <1>4, <1>5, <1>6 DEF Inv

-----------------------------------------------------------------------------
(* The theorems.                                                           *)

\* The invariant is inductive.
THEOREM InvCorrect == Spec => []Inv
<1>1. Inv /\ [Next]_vars => Inv'
  <2> SUFFICES ASSUME Inv, [Next]_vars PROVE Inv'
    OBVIOUS
  <2>1. TypeOK'
    BY TypeKept DEF Inv
  <2>2. QED BY <2>1, SubscribeKeeps, DeliverKeeps, StreamEndKeeps, OtherKeeps DEF Next
<1>2. QED BY <1>1, InitInv, PTL DEF Spec

(* Type correctness: attempt_count stays below its limit, the wait within  *)
(* its bounds, and the stream within the provider's transactions.          *)
THEOREM TypeCorrect == Spec => []TypeOK
<1>1. Inv => TypeOK
  BY DEF Inv
<1>2. QED BY <1>1, InvCorrect, PTL

(* Whatever drops and reconnects happen, no transaction below the furthest *)
(* point reached was skipped silently.                                     *)
THEOREM NoSilentGapCorrect == Spec => []NoSilentGap
<1>1. Inv => NoSilentGap
  BY DEF Inv
<1>2. QED BY <1>1, InvCorrect, PTL

(* Between connections from_slot is the last slot handled: at or before    *)
(* everything unaccounted for, and not before anything handled.            *)
THEOREM ResumesCorrect == Spec => []ResumesAtLastHandled
<1>1. Inv => ResumesAtLastHandled
  BY DEF Inv, ResumesWell, ResumesAtLastHandled
<1>2. QED BY <1>1, InvCorrect, PTL

(* The wait between attempts never shrinks before a stream was opened, in  *)
(* particular not when attempt_count starts over.                          *)
THEOREM WaitCorrect == Spec => WaitNeverShrinks
<1>1. TypeOK /\ [Next]_vars => [pc = "stream" \/ backoff' >= backoff]_vars
  <2> SUFFICES ASSUME TypeOK, Next, pc # "stream" PROVE backoff' >= backoff
    OBVIOUS
  <2>1. backoff \in Nat /\ backoff <= MaxBackoff
    BY Numbers DEF TypeOK
  <2>2. CASE SetupFails
    BY <2>1, <2>2, Numbers DEF SetupFails
  <2>3. CASE Wait
    BY <2>1, <2>3, Numbers DEF Wait, MinOf
  <2>4. CASE Subscribe \/ Deliver \/ StreamDrops \/ StreamOutOfRange \/ Produce \/ Forget
    <3>1. backoff' = backoff
      BY <2>4 DEF Subscribe, Deliver, StreamDrops, StreamOutOfRange, Produce, Forget
    <3>2. QED BY <2>1, <3>1
  <2>5. QED BY <2>2, <2>3, <2>4 DEF Next
<1>2. QED BY <1>1, TypeCorrect, PTL DEF Spec, WaitNeverShrinks

-----------------------------------------------------------------------------
(* The collector: the inductive invariant.                                 *)

\* Received, protected, and neither in the tables nor in memory.
Unheld == {t \in delivered \ forfeited : ~Held(t)}

\* Where a connection after the one under way would resume.
ResumeSlot == IF pc = "stream" /\ last # NoSlot THEN last ELSE fromSlot

\* NothingForgotten looks at the stream under way; what has to be delivered
\* again must also lie at or after the slot a later connection asks for.
Recoverable(t) == /\ ResumeSlot # NoSlot /\ SlotOf[t] >= ResumeSlot
                  /\ pc = "stream" /\ ~rejected => t >= cursor

CInv == /\ CTypeOK
        /\ pc = "stream" /\ last # NoSlot => ~rejected /\ last <= SlotOf[cursor]
        /\ \A t \in Unheld : Recoverable(t)

-----------------------------------------------------------------------------
(* Rows and tables.                                                        *)

LEMMA CollectorNumbers ==
    /\ AmmTxs \subseteq 1..MaxTx /\ AltTxs \subseteq 1..MaxTx
    /\ Window \in Nat /\ Overrides \subseteq Nat \ {0} /\ MaxCrashes \in Nat
BY CollectorAssumption

\* A table and its inserter have the row of t: committed, or in memory.
HasAmm(t) == ammTable[t] # 0 \/ RowOf(t) \in ammOut
HasAlt(t) == altTable[t] # 0 \/ RowOf(t) \in altOut

LEMMA HeldMeans ==
    ASSUME CTypeOK, NEW t
    PROVE  Held(t) <=> /\ t \in AmmTxs \ BadTxs => HasAmm(t)
                       /\ t \in AltTxs \ BadTxs => HasAlt(t)
<1>1. t \in {r.key : r \in ammOut} <=> RowOf(t) \in ammOut
  BY DEF CTypeOK, RowOf
<1>2. t \in {r.key : r \in altOut} <=> RowOf(t) \in altOut
  BY DEF CTypeOK, RowOf
<1>3. QED BY <1>1, <1>2 DEF Held, HasRows, AmmCommitted, AltCommitted, HasAmm, HasAlt

\* Persisting rows: their keys are in the table, the others are as before.
LEMMA AmmUpserted ==
    ASSUME CTypeOK, NEW S, S \subseteq ammOut
    PROVE  /\ Amm!Upserted(ammTable, S) \in [AmmTxs -> 0..1]
           /\ \A t \in AmmTxs : Amm!Upserted(ammTable, S)[t] # 0
                                  <=> ammTable[t] # 0 \/ RowOf(t) \in S
<1>1. \A r \in S : r.n = 1 /\ r = RowOf(r.key)
  BY DEF CTypeOK, RowOf
<1>2. Amm!Latest(S) = S
  BY <1>1 DEF Amm!Latest
<1>3. ASSUME NEW t \in AmmTxs
      PROVE  /\ Amm!Upserted(ammTable, S)[t] \in 0..1
             /\ Amm!Upserted(ammTable, S)[t] # 0 <=> ammTable[t] # 0 \/ RowOf(t) \in S
  <2>1. (\E r \in S : r.key = t) <=> RowOf(t) \in S
    BY <1>1 DEF RowOf
  <2>2. CASE \E r \in S : r.key = t
    <3>1. (CHOOSE r \in S : r.key = t) \in S
      BY <2>2
    <3>2. Amm!Upserted(ammTable, S)[t] = 1
      BY <1>1, <1>2, <2>2, <3>1 DEF Amm!Upserted
    <3>3. QED BY <2>1, <2>2, <3>2
  <2>3. CASE ~\E r \in S : r.key = t
    <3>1. Amm!Upserted(ammTable, S)[t] = ammTable[t]
      BY <2>3 DEF Amm!Upserted
    <3>2. QED BY <2>1, <2>3, <3>1 DEF CTypeOK
  <2>4. QED BY <2>2, <2>3
<1>4. Amm!Upserted(ammTable, S) \in [AmmTxs -> 0..1]
  BY <1>3 DEF Amm!Upserted
<1>5. QED BY <1>3, <1>4

LEMMA AltUpserted ==
    ASSUME CTypeOK, NEW S, S \subseteq altOut
    PROVE  /\ Alt!Upserted(altTable, S) \in [AltTxs -> 0..1]
           /\ \A t \in AltTxs : Alt!Upserted(altTable, S)[t] # 0
                                  <=> altTable[t] # 0 \/ RowOf(t) \in S
<1>1. \A r \in S : r.n = 1 /\ r = RowOf(r.key)
  BY DEF CTypeOK, RowOf
<1>2. Alt!Latest(S) = S
  BY <1>1 DEF Alt!Latest
<1>3. ASSUME NEW t \in AltTxs
      PROVE  /\ Alt!Upserted(altTable, S)[t] \in 0..1
             /\ Alt!Upserted(altTable, S)[t] # 0 <=> altTable[t] # 0 \/ RowOf(t) \in S
  <2>1. (\E r \in S : r.key = t) <=> RowOf(t) \in S
    BY <1>1 DEF RowOf
  <2>2. CASE \E r \in S : r.key = t
    <3>1. (CHOOSE r \in S : r.key = t) \in S
      BY <2>2
    <3>2. Alt!Upserted(altTable, S)[t] = 1
      BY <1>1, <1>2, <2>2, <3>1 DEF Alt!Upserted
    <3>3. QED BY <2>1, <2>2, <3>2
  <2>3. CASE ~\E r \in S : r.key = t
    <3>1. Alt!Upserted(altTable, S)[t] = altTable[t]
      BY <2>3 DEF Alt!Upserted
    <3>2. QED BY <2>1, <2>3, <3>1 DEF CTypeOK
  <2>4. QED BY <2>2, <2>3
<1>4. Alt!Upserted(altTable, S) \in [AltTxs -> 0..1]
  BY <1>3 DEF Alt!Upserted
<1>5. QED BY <1>3, <1>4

-----------------------------------------------------------------------------
(* The checkpoint.                                                         *)

\* MAX(slot) of a table that has rows is the slot of one of them.
LEMMA HighestSlotIs ==
    ASSUME NEW T, T \subseteq 1..MaxTx, T # {}
    PROVE  /\ \E t \in T : HighestSlot(T) = SlotOf[t]
           /\ \A t \in T : SlotOf[t] <= HighestSlot(T)
<1> DEFINE D == {SlotOf[MaxTx + 1] - SlotOf[t] : t \in T}
<1>1. SlotOf[MaxTx + 1] \in Nat
  BY Numbers
<1>2. ASSUME NEW t \in T PROVE SlotOf[t] \in Nat /\ SlotOf[t] <= SlotOf[MaxTx + 1]
  BY Slots
<1>3. D \subseteq Nat /\ D # {}
  <2>1. ASSUME NEW t \in T PROVE SlotOf[MaxTx + 1] - SlotOf[t] \in Nat
    <3>1. SlotOf[t] \in Nat /\ SlotOf[t] <= SlotOf[MaxTx + 1]
      BY <1>2
    <3>2. QED BY <1>1, <3>1
  <2>2. QED BY <2>1
<1>4. PICK d \in D : \A e \in D : d <= e
  BY <1>3, LeastNatural
<1>5. PICK t \in T : d = SlotOf[MaxTx + 1] - SlotOf[t]
  BY <1>4
<1>6. ASSUME NEW u \in T PROVE SlotOf[u] <= SlotOf[t]
  <2>1. SlotOf[MaxTx + 1] - SlotOf[t] <= SlotOf[MaxTx + 1] - SlotOf[u]
    BY <1>4, <1>5
  <2>2. SlotOf[t] \in Nat /\ SlotOf[u] \in Nat
    BY <1>2
  <2>3. QED BY <1>1, <2>1, <2>2
<1>7. SlotOf[t] \in {SlotOf[u] : u \in T} /\ \A u \in T : SlotOf[u] <= SlotOf[t]
  BY <1>6
<1>8. /\ HighestSlot(T) \in {SlotOf[u] : u \in T}
      /\ \A u \in T : SlotOf[u] <= HighestSlot(T)
  BY <1>7 DEF HighestSlot
<1>9. QED BY <1>8

\* The checkpoint is Window slots below a committed row of amm_trades, or the
\* first slot there is.
LEMMA CheckpointIs ==
    ASSUME CTypeOK
    PROVE  /\ Checkpoint \in 0..SlotOf[MaxTx + 1]
           /\ AmmCommitted # {} =>
                /\ Checkpoint # NoSlot
                /\ \E u \in AmmCommitted : Checkpoint <= 1 \/ Checkpoint + Window <= SlotOf[u]
<1>1. SlotOf[MaxTx + 1] \in Nat /\ SlotOf[MaxTx + 1] >= 1 /\ Window \in Nat
  BY Numbers, CollectorNumbers
<1>2. CASE AmmCommitted = {}
  BY <1>1, <1>2 DEF Checkpoint, NoSlot
<1>3. CASE AmmCommitted # {}
  <2>1. AmmCommitted \subseteq 1..MaxTx
    BY CollectorNumbers DEF AmmCommitted
  <2>2. PICK u \in AmmCommitted : HighestSlot(AmmCommitted) = SlotOf[u]
    BY <1>3, <2>1, HighestSlotIs
  <2>3. SlotOf[u] \in Nat /\ SlotOf[u] <= SlotOf[MaxTx + 1]
    BY <2>1, Slots
  <2>4. Checkpoint = IF SlotOf[u] > Window THEN SlotOf[u] - Window ELSE 1
    BY <1>3, <2>2 DEF Checkpoint
  <2>5. /\ Checkpoint \in 0..SlotOf[MaxTx + 1] /\ Checkpoint # NoSlot
        /\ Checkpoint <= 1 \/ Checkpoint + Window <= SlotOf[u]
    BY <1>1, <2>3, <2>4 DEF NoSlot
  <2>6. QED BY <2>5
<1>4. QED BY <1>2, <1>3

-----------------------------------------------------------------------------
(* Types.                                                                  *)

\* The steps of the stream are steps of the connection manager.
LEMMA StreamSteps ==
    /\ HandleTx => Next
    /\ ResumeLive => Next
    /\ Connection => Next
BY DEF HandleTx, ResumeLive, Connection, Next

LEMMA CrashTyped == ASSUME CTypeOK, Crash PROVE CTypeOK'
<1>1. /\ ammOut' = {} /\ altOut' = {} /\ UNCHANGED <<ammTable, altTable, delivered>>
      /\ crashes' = crashes + 1 /\ crashes < MaxCrashes
  BY DEF Crash
<1>2. crashes' \in 0..MaxCrashes
  BY <1>1, CollectorNumbers DEF CTypeOK
<1>3. forfeited' \subseteq 1..MaxTx
  BY DEF Crash, Forfeit, OutOfWindow, NotInTables, CTypeOK
<1>4. PICK slot \in 0..SlotOf[MaxTx + 1] : RestartFrom(slot)
  <2>1. CASE RestartFrom(Checkpoint)
    BY <2>1, CheckpointIs
  <2>2. ASSUME NEW s \in Overrides, s <= SlotOf[tip + 1], RestartFrom(s)
        PROVE  \E slot \in 0..SlotOf[MaxTx + 1] : RestartFrom(slot)
    <3>1. tip + 1 \in 1..(MaxTx + 1) /\ tip + 1 <= MaxTx + 1 /\ MaxTx + 1 \in 1..(MaxTx + 1)
      BY Numbers DEF CTypeOK, TypeOK
    <3>2. SlotOf[tip + 1] \in Nat /\ SlotOf[MaxTx + 1] \in Nat /\ SlotOf[tip + 1] <= SlotOf[MaxTx + 1]
      BY <3>1, Slots
    <3>3. s \in Nat
      BY CollectorNumbers
    <3>4. s \in 0..SlotOf[MaxTx + 1]
      BY <2>2, <3>2, <3>3
    <3>5. QED BY <2>2, <3>4
  <2>3. QED BY <2>1, <2>2 DEF Crash
<1>5. TypeOK'
  <2>1. /\ pc' = "connect" /\ attempts' = 0 /\ backoff' = InitialBackoff
        /\ fromSlot' = slot /\ last' = NoSlot /\ cursor' = 1 /\ rejected' = FALSE
        /\ handled' = {} /\ refused' = {} /\ reached' = 1 /\ excused' \subseteq 1..MaxTx
        /\ UNCHANGED <<tip, floor, failures>>
    BY <1>4 DEF RestartFrom, provider
  <2>2. /\ 0 \in 0..(MaxReconnectAttempts - 1) /\ InitialBackoff \in 1..MaxBackoff
        /\ 1 \in 1..(MaxTx + 1) /\ NoSlot \in NoSlot..SlotOf[MaxTx + 1]
        /\ slot \in NoSlot..SlotOf[MaxTx + 1]
    BY Numbers DEF NoSlot
  <2>3. TypeOK
    BY DEF CTypeOK
  <2>4. QED BY <2>1, <2>2, <2>3 DEF TypeOK
<1>6. QED BY <1>1, <1>2, <1>3, <1>5 DEF CTypeOK

LEMMA CTypeKept == CTypeOK /\ [CNext]_cvars => CTypeOK'
<1> SUFFICES ASSUME CTypeOK, [CNext]_cvars PROVE CTypeOK'
  OBVIOUS
<1>1. Next \/ UNCHANGED vars => TypeOK'
  BY TypeKept DEF CTypeOK
<1>2. CASE HandleTx
  <2>1. cursor \in 1..MaxTx
    BY <1>2, Numbers DEF HandleTx, Deliver, CTypeOK, TypeOK
  <2>2. TypeOK'
    BY <1>1, <1>2, StreamSteps
  <2>3. ammOut' \subseteq {RowOf(t) : t \in AmmTxs} /\ ammTable' = ammTable
    BY <1>2 DEF HandleTx, Amm!Accept, CTypeOK
  <2>4. altOut' \subseteq {RowOf(t) : t \in AltTxs} /\ altTable' = altTable
    BY <1>2 DEF HandleTx, Alt!Accept, CTypeOK
  <2>5. delivered' = delivered \cup {cursor} /\ UNCHANGED <<crashes, forfeited>>
    BY <1>2 DEF HandleTx
  <2>6. QED BY <2>1, <2>2, <2>3, <2>4, <2>5 DEF CTypeOK
<1>3. CASE ResumeLive
  <2>1. TypeOK'
    BY <1>1, <1>3, StreamSteps
  <2>2. QED BY <1>3, <2>1 DEF ResumeLive, Forfeit, tables, CTypeOK
<1>4. CASE Connection \/ UNCHANGED cvars
  <2>1. TypeOK'
    BY <1>1, <1>4, StreamSteps DEF cvars
  <2>2. QED BY <1>4, <2>1 DEF Connection, tables, cvars, CTypeOK
<1>5. CASE FlushAmm
  <2>1. PICK S \in Batches(ammOut) : Amm!Persist(S)
    BY <1>5 DEF FlushAmm
  <2>2. ammOut' \subseteq ammOut /\ ammTable' \in [AmmTxs -> 0..1]
    BY <2>1, AmmUpserted DEF Amm!Persist
  <2>3. QED BY <1>1, <1>5, <2>2 DEF FlushAmm, CTypeOK
<1>6. CASE FlushAlt
  <2>1. PICK S \in Batches(altOut) : Alt!Persist(S)
    BY <1>6 DEF FlushAlt
  <2>2. altOut' \subseteq altOut /\ altTable' \in [AltTxs -> 0..1]
    BY <2>1, AltUpserted DEF Alt!Persist
  <2>3. QED BY <1>1, <1>6, <2>2 DEF FlushAlt, CTypeOK
<1>7. CASE FlushUnacked
  <2>1. UNCHANGED <<ammOut, altOut>>
    BY <1>7 DEF FlushUnacked, Amm!PersistUnacked, Alt!PersistUnacked
  <2>2. ammTable' \in [AmmTxs -> 0..1]
    BY <1>7, AmmUpserted DEF FlushUnacked, Amm!PersistUnacked, CTypeOK
  <2>3. altTable' \in [AltTxs -> 0..1]
    BY <1>7, AltUpserted DEF FlushUnacked, Alt!PersistUnacked, CTypeOK
  <2>4. QED BY <1>1, <1>7, <2>1, <2>2, <2>3 DEF FlushUnacked, CTypeOK
<1>8. CASE Crash
  BY <1>8, CrashTyped
<1>9. QED BY <1>2, <1>3, <1>4, <1>5, <1>6, <1>7, <1>8 DEF CNext

-----------------------------------------------------------------------------
(* The actions.                                                            *)

\* HeldMeans in the state after a step.
LEMMA HeldNext ==
    ASSUME CTypeOK', NEW t
    PROVE  Held(t)' <=> /\ t \in AmmTxs \ BadTxs => HasAmm(t)'
                        /\ t \in AltTxs \ BadTxs => HasAlt(t)'
<1>1. (CTypeOK => (Held(t) <=> /\ t \in AmmTxs \ BadTxs => HasAmm(t)
                               /\ t \in AltTxs \ BadTxs => HasAlt(t)))'
  BY HeldMeans, PTL
<1>2. QED BY <1>1

\* What has the rows of a transaction never loses them, but for a crash.
LEMMA HeldKept ==
    ASSUME CTypeOK, CTypeOK',
           \A t \in AmmTxs : HasAmm(t) => HasAmm(t)',
           \A t \in AltTxs : HasAlt(t) => HasAlt(t)',
           NEW t, Held(t)
    PROVE  Held(t)'
BY HeldMeans, HeldNext

\* The stream hands over a transaction: its rows are in memory, and the
\* others that have to come are still ahead.
LEMMA HandleKeeps == ASSUME CInv, CTypeOK', HandleTx PROVE CInv'
<1>1. /\ pc = "stream" /\ pc' = "stream" /\ ~rejected /\ ~rejected'
      /\ cursor \in 1..MaxTx /\ cursor' = cursor + 1 /\ fromSlot' = fromSlot
      /\ delivered' = delivered \cup {cursor} /\ forfeited' = forfeited
  BY Numbers DEF HandleTx, Deliver, CInv, CTypeOK, TypeOK
<1>2. last' = last \/ last' = MaxOf(last, SlotOf[cursor])
  BY DEF HandleTx, Deliver
<1>3. /\ SlotOf[cursor] \in Nat /\ SlotOf[cursor + 1] \in Nat /\ SlotOf[cursor] >= 1
      /\ SlotOf[cursor] <= SlotOf[cursor + 1] /\ last \in Nat
  BY <1>1, Slots DEF CInv, CTypeOK, TypeOK, NoSlot
<1>4. last # NoSlot => last <= SlotOf[cursor]
  BY <1>1 DEF CInv
<1>5. last' = last \/ last' = SlotOf[cursor]
  BY <1>2, <1>3, <1>4 DEF MaxOf, NoSlot
<1>6. last' # NoSlot => last' <= SlotOf[cursor']
  BY <1>1, <1>3, <1>4, <1>5
<1>7. /\ \A t \in AmmTxs : HasAmm(t) => HasAmm(t)'
      /\ \A t \in AltTxs : HasAlt(t) => HasAlt(t)'
      /\ cursor \in AmmTxs \ BadTxs => RowOf(cursor) \in ammOut'
      /\ cursor \in AltTxs \ BadTxs => RowOf(cursor) \in altOut'
  BY DEF HandleTx, Amm!Accept, Alt!Accept, HasAmm, HasAlt
<1>8. ASSUME NEW t, t = cursor PROVE Held(t)'
  <2>1. /\ t \in AmmTxs \ BadTxs => HasAmm(t)'
        /\ t \in AltTxs \ BadTxs => HasAlt(t)'
    BY <1>7, <1>8 DEF HasAmm, HasAlt
  <2>2. QED BY <2>1, HeldNext
<1>9. ASSUME NEW t \in Unheld' PROVE Recoverable(t)'
  <2>1. t # cursor /\ t \in delivered \ forfeited /\ ~Held(t)
    <3>1. t # cursor
      BY <1>8 DEF Unheld
    <3>2. ~Held(t)
      BY <1>7, HeldKept DEF CInv, Unheld
    <3>3. QED BY <1>1, <3>1, <3>2 DEF Unheld
  <2>2. Recoverable(t) /\ t \in 1..MaxTx
    BY <2>1 DEF CInv, CTypeOK, Unheld
  <2>3. t >= cursor' /\ t >= cursor
    BY <1>1, <2>1, <2>2 DEF Recoverable
  <2>4. SlotOf[t] \in Nat /\ SlotOf[cursor] <= SlotOf[t]
    BY <1>1, <2>2, <2>3, Slots
  <2>5. CASE last' = last
    BY <1>1, <2>2, <2>3, <2>5 DEF Recoverable, ResumeSlot
  <2>6. CASE last' = SlotOf[cursor]
    <3>1. last' # NoSlot /\ ResumeSlot' = last'
      BY <1>1, <1>3, <2>6 DEF ResumeSlot, NoSlot
    <3>2. QED BY <1>3, <2>3, <2>4, <2>6, <3>1 DEF Recoverable
  <2>7. QED BY <1>5, <2>5, <2>6
<1>10. QED BY <1>1, <1>6, <1>9 DEF CInv

\* The stream ends: the next connection resumes at ResumeSlot.
LEMMA DropKeeps ==
    ASSUME CInv, CTypeOK', StreamDrops, UNCHANGED <<tables, delivered, forfeited>>
    PROVE  CInv'
<1>1. pc = "stream" /\ pc' = "sleep" /\ fromSlot' = ResumeSlot
  BY DEF StreamDrops, StreamEnd, ResumeSlot
<1>2. Unheld' = Unheld
  BY DEF Unheld, Held, HasRows, AmmCommitted, AltCommitted, tables
<1>3. ASSUME NEW t \in Unheld PROVE Recoverable(t)'
  <2>1. ResumeSlot # NoSlot /\ SlotOf[t] >= ResumeSlot
    BY DEF CInv, Recoverable
  <2>2. ResumeSlot' = ResumeSlot
    BY <1>1 DEF ResumeSlot
  <2>3. QED BY <1>1, <2>1, <2>2 DEF Recoverable
<1>4. QED BY <1>1, <1>2, <1>3 DEF CInv

\* A replay is refused: what no table and no buffer holds is forfeited.
LEMMA ResumeLiveKeeps == ASSUME CInv, CTypeOK', ResumeLive PROVE CInv'
<1>1. /\ pc' = "sleep" /\ delivered' = delivered
      /\ forfeited' = forfeited \cup {t \in delivered : ~Held(t)}
  BY DEF ResumeLive, StreamOutOfRange, StreamEnd, Forfeit
<1>2. ASSUME NEW t PROVE Held(t)' <=> Held(t)
  BY DEF ResumeLive, Held, HasRows, AmmCommitted, AltCommitted, tables
<1>3. Unheld' = {}
  BY <1>1, <1>2 DEF Unheld
<1>4. QED BY <1>1, <1>3 DEF CInv

\* A subscription: it starts at or before everything that has to come.
LEMMA SubscribeKeepsAll ==
    ASSUME CInv, CTypeOK', Subscribe, UNCHANGED <<tables, delivered, forfeited>>
    PROVE  CInv'
<1>1. pc = "connect" /\ pc' = "stream" /\ last' = NoSlot /\ fromSlot' = fromSlot
  BY DEF Subscribe
<1>2. Unheld' = Unheld
  BY DEF Unheld, Held, HasRows, AmmCommitted, AltCommitted, tables
<1>3. ASSUME NEW t \in Unheld PROVE Recoverable(t)'
  <2>1. fromSlot # NoSlot /\ SlotOf[t] >= fromSlot /\ t \in 1..MaxTx
    BY <1>1 DEF CInv, CTypeOK, Recoverable, ResumeSlot, Unheld
  <2>2. ResumeSlot' = fromSlot
    BY <1>1 DEF ResumeSlot
  <2>3. cursor' = FirstOf(fromSlot) /\ fromSlot \in 0..SlotOf[MaxTx + 1]
    BY <2>1 DEF Subscribe, CInv, CTypeOK, TypeOK, NoSlot
  <2>4. cursor' \in 1..(MaxTx + 1) /\ (SlotOf[t] < fromSlot <=> t < cursor')
    BY <2>1, <2>3, FirstOfSlot, Numbers
  <2>5. SlotOf[t] \in Nat
    BY <2>1, Slots
  <2>6. t >= cursor'
    BY <2>1, <2>3, <2>4, <2>5, Numbers
  <2>7. QED BY <2>1, <2>2, <2>6 DEF Recoverable
<1>4. QED BY <1>1, <1>2, <1>3 DEF CInv

\* The steps that leave the stream where it is.
LEMMA QuietKeeps ==
    ASSUME CInv, CTypeOK', UNCHANGED <<fromSlot, last, cursor, rejected, delivered, forfeited>>,
           pc' = "stream" <=> pc = "stream",
           \A t \in AmmTxs : HasAmm(t) => HasAmm(t)',
           \A t \in AltTxs : HasAlt(t) => HasAlt(t)'
    PROVE  CInv'
<1>1. Unheld' \subseteq Unheld
  <2>1. ASSUME NEW t, Held(t) PROVE Held(t)'
    BY <2>1, HeldKept DEF CInv
  <2>2. QED BY <2>1 DEF Unheld
<1>2. ASSUME NEW t \in Unheld PROVE Recoverable(t)'
  <2>1. Recoverable(t)
    BY DEF CInv
  <2>2. QED BY <2>1 DEF Recoverable, ResumeSlot
<1>3. QED BY <1>1, <1>2 DEF CInv

\* A crash: what is not in the tables and not forfeited lies within the
\* window above the checkpoint, or above the operator's slot.
LEMMA CrashKeeps == ASSUME CInv, CTypeOK', Crash PROVE CInv'
<1>1. delivered' = delivered /\ UNCHANGED <<ammTable, altTable>> /\ ammOut' = {} /\ altOut' = {}
  BY DEF Crash
<1>2. ASSUME NEW t PROVE Held(t)' <=> InTables(t)
  BY <1>1 DEF Held, InTables, HasRows, AmmCommitted, AltCommitted
<1>3. ASSUME NEW t \in Unheld' PROVE t \in NotInTables \ forfeited' /\ t \in 1..MaxTx
  BY <1>1, <1>2 DEF Unheld, NotInTables, CInv, CTypeOK
<1>4. ASSUME NEW slot, RestartFrom(slot), slot # NoSlot,
             \A t \in Unheld' : SlotOf[t] >= slot
      PROVE  CInv'
  <2>1. pc' = "connect" /\ fromSlot' = slot
    BY <1>4 DEF RestartFrom
  <2>2. ASSUME NEW t \in Unheld' PROVE Recoverable(t)'
    <3>1. ResumeSlot' = slot
      BY <2>1 DEF ResumeSlot
    <3>2. QED BY <1>4, <2>1, <3>1 DEF Recoverable
  <2>3. QED BY <2>1, <2>2 DEF CInv
<1>5. CASE RestartFrom(Checkpoint) /\ Forfeit(OutOfWindow)
  <2>1. CASE Unheld' = {}
    <3>1. pc' = "connect"
      BY <1>5 DEF RestartFrom
    <3>2. QED BY <2>1, <3>1 DEF CInv
  <2>2. CASE Unheld' # {}
    <3>1. ASSUME NEW t \in Unheld'
          PROVE /\ AmmCommitted # {} /\ t \in 1..MaxTx
                /\ \A u \in AmmCommitted : ~(SlotOf[u] > SlotOf[t] + Window)
      BY <1>3, <1>5 DEF Forfeit, OutOfWindow
    <3>2. AmmCommitted # {}
      BY <2>2, <3>1
    <3>3. PICK u \in AmmCommitted : Checkpoint <= 1 \/ Checkpoint + Window <= SlotOf[u]
      BY <3>2, CheckpointIs DEF CInv
    <3>4. Checkpoint \in Nat /\ Checkpoint # NoSlot /\ SlotOf[u] \in Nat /\ Window \in Nat
      <4>1. u \in 1..MaxTx
        BY CollectorNumbers DEF AmmCommitted
      <4>2. QED BY <3>2, <4>1, CheckpointIs, Slots, Numbers, CollectorNumbers DEF CInv
    <3>5. ASSUME NEW t \in Unheld' PROVE SlotOf[t] >= Checkpoint
      <4>1. SlotOf[t] \in Nat /\ SlotOf[t] >= 1
        BY <3>1, Slots
      <4>2. ~(SlotOf[u] > SlotOf[t] + Window)
        BY <3>1
      <4>3. QED BY <3>3, <3>4, <4>1, <4>2
    <3>6. QED BY <1>4, <1>5, <3>4, <3>5
  <2>3. QED BY <2>1, <2>2
<1>6. ASSUME NEW s \in Overrides, RestartFrom(s), Forfeit({t \in NotInTables : SlotOf[t] < s})
      PROVE  CInv'
  <2>1. s \in Nat /\ s # NoSlot
    BY CollectorNumbers DEF NoSlot
  <2>2. ASSUME NEW t \in Unheld' PROVE SlotOf[t] >= s
    <3>1. ~(SlotOf[t] < s) /\ t \in 1..MaxTx
      BY <1>3, <1>6 DEF Forfeit
    <3>2. QED BY <2>1, <3>1, Slots
  <2>3. QED BY <1>4, <1>6, <2>1, <2>2
<1>7. QED BY <1>5, <1>6 DEF Crash

-----------------------------------------------------------------------------
(* The theorems.                                                           *)

\* The invariant holds at the first start and in every step.
THEOREM CInvCorrect == CSpec => []CInv
<1>1. CInit => CInv
  <2> SUFFICES ASSUME CInit PROVE CInv
    OBVIOUS
  <2>1. TypeOK
    BY InitInv DEF CInit, Inv
  <2>2. /\ ammOut = {} /\ altOut = {} /\ crashes = 0 /\ delivered = {} /\ forfeited = {}
        /\ ammTable \in [AmmTxs -> 0..1] /\ altTable \in [AltTxs -> 0..1] /\ pc = "connect"
    BY DEF CInit, Init, Amm!Init, Alt!Init
  <2>3. CTypeOK
    BY <2>1, <2>2, CollectorNumbers DEF CTypeOK
  <2>4. QED BY <2>2, <2>3 DEF CInv, Unheld
<1>2. CInv /\ [CNext]_cvars => CInv'
  <2> SUFFICES ASSUME CInv, [CNext]_cvars PROVE CInv'
    OBVIOUS
  <2>1. CTypeOK'
    BY CTypeKept DEF CInv
  <2>2. CASE HandleTx
    BY <2>1, <2>2, HandleKeeps
  <2>3. CASE ResumeLive
    BY <2>1, <2>3, ResumeLiveKeeps
  <2>4. CASE Connection
    <3>1. UNCHANGED <<tables, delivered, forfeited>>
      BY <2>4 DEF Connection
    <3>2. CASE StreamDrops
      BY <2>1, <3>1, <3>2, DropKeeps
    <3>3. CASE Subscribe
      BY <2>1, <3>1, <3>3, SubscribeKeepsAll
    <3>4. CASE SetupFails \/ Wait \/ Produce \/ Forget
      <4>1. UNCHANGED <<fromSlot, last, cursor, rejected>> /\ (pc' = "stream" <=> pc = "stream")
        BY <3>4 DEF SetupFails, Wait, Produce, Forget
      <4>2. /\ \A t \in AmmTxs : HasAmm(t) => HasAmm(t)'
            /\ \A t \in AltTxs : HasAlt(t) => HasAlt(t)'
        BY <3>1 DEF HasAmm, HasAlt, tables
      <4>3. QED BY <2>1, <3>1, <4>1, <4>2, QuietKeeps
    <3>5. QED BY <2>4, <3>2, <3>3, <3>4 DEF Connection
  <2>5. CASE FlushAmm \/ FlushAlt \/ FlushUnacked
    <3>1. /\ UNCHANGED <<fromSlot, last, cursor, rejected, delivered, forfeited>>
          /\ (pc' = "stream" <=> pc = "stream")
      BY <2>5 DEF FlushAmm, FlushAlt, FlushUnacked, vars
    <3>2. ASSUME NEW t \in AmmTxs, HasAmm(t) PROVE HasAmm(t)'
      <4>1. CASE UNCHANGED <<ammOut, ammTable>>
        BY <3>2, <4>1 DEF HasAmm
      <4>2. ASSUME NEW S, Amm!Persist(S) \/ Amm!PersistUnacked(S) PROVE HasAmm(t)'
        <5>1. /\ S \subseteq ammOut /\ ammTable' = Amm!Upserted(ammTable, S)
              /\ ammOut' = ammOut \/ ammOut' = ammOut \ S
          BY <4>2 DEF Amm!Persist, Amm!PersistUnacked
        <5>2. ammTable'[t] # 0 <=> ammTable[t] # 0 \/ RowOf(t) \in S
          BY <5>1, AmmUpserted DEF CInv
        <5>3. QED BY <3>2, <5>1, <5>2 DEF HasAmm
      <4>3. QED BY <2>5, <4>1, <4>2 DEF FlushAmm, FlushAlt, FlushUnacked
    <3>3. ASSUME NEW t \in AltTxs, HasAlt(t) PROVE HasAlt(t)'
      <4>1. CASE UNCHANGED <<altOut, altTable>>
        BY <3>3, <4>1 DEF HasAlt
      <4>2. ASSUME NEW S, Alt!Persist(S) \/ Alt!PersistUnacked(S) PROVE HasAlt(t)'
        <5>1. /\ S \subseteq altOut /\ altTable' = Alt!Upserted(altTable, S)
              /\ altOut' = altOut \/ altOut' = altOut \ S
          BY <4>2 DEF Alt!Persist, Alt!PersistUnacked
        <5>2. altTable'[t] # 0 <=> altTable[t] # 0 \/ RowOf(t) \in S
          BY <5>1, AltUpserted DEF CInv
        <5>3. QED BY <3>3, <5>1, <5>2 DEF HasAlt
      <4>3. QED BY <2>5, <4>1, <4>2 DEF FlushAmm, FlushAlt, FlushUnacked
    <3>4. QED BY <2>1, <3>1, <3>2, <3>3, QuietKeeps
  <2>6. CASE Crash
    BY <2>1, <2>6, CrashKeeps
  <2>7. CASE UNCHANGED cvars
    <3>1. /\ UNCHANGED <<fromSlot, last, cursor, rejected, delivered, forfeited>>
          /\ (pc' = "stream" <=> pc = "stream")
          /\ \A t \in AmmTxs : HasAmm(t) => HasAmm(t)'
          /\ \A t \in AltTxs : HasAlt(t) => HasAlt(t)'
      BY <2>7 DEF cvars, vars, tables, HasAmm, HasAlt
    <3>2. QED BY <2>1, <3>1, QuietKeeps
  <2>8. QED BY <2>2, <2>3, <2>4, <2>5, <2>6, <2>7 DEF CNext
<1>3. QED BY <1>1, <1>2, PTL DEF CSpec

(* Type correctness of the whole process, restarts included: in particular *)
(* main() never computes a slot to replay from beyond the stream.          *)
THEOREM CTypeCorrect == CSpec => []CTypeOK
<1>1. CInv => CTypeOK
  BY DEF CInv
<1>2. QED BY <1>1, CInvCorrect, PTL

(* Whatever drops, fails, flushes in part or crashes, a transaction that   *)
(* was received has its rows in the tables or in memory, or the connection *)
(* under way or the next one delivers it again, or it is one of those the  *)
(* replay window of main() does not protect.                               *)
THEOREM NothingForgottenCorrect == CSpec => []NothingForgotten
<1>1. CInv => NothingForgotten
  <2> SUFFICES ASSUME CInv, NEW t \in delivered \ forfeited, ~Held(t) PROVE WillDeliver(t)
    BY DEF NothingForgotten
  <2>1. Recoverable(t)
    BY DEF CInv, Unheld
  <2>2. QED BY <2>1 DEF Recoverable, ResumeSlot, WillDeliver
<1>2. QED BY <1>1, CInvCorrect, PTL

=============================================================================
