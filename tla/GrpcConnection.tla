--------------------------- MODULE GrpcConnection ---------------------------
(***************************************************************************)
(* The connection manager of grpc/connection.rs: connect, subscribe from a *)
(* slot, hand every transaction to the handler, and after a disconnect     *)
(* wait and connect again, resuming from the last slot that was handled.   *)
(*                                                                         *)
(* The provider is external.  It produces transactions 1, 2, 3, ..., each  *)
(* in the slot SlotOf gives it, delivers finalized transactions in slot    *)
(* order, and can replay only the slots it still retains; it reports a     *)
(* from_slot below them as an OutOfRange error of the stream.              *)
(***************************************************************************)
EXTENDS Naturals, FiniteSets

CONSTANTS MaxReconnectAttempts,  \* MAX_RECONNECT_ATTEMPTS
          InitialBackoff,        \* INITIAL_BACKOFF_SECS
          MaxBackoff,            \* MAX_BACKOFF_SECS
          SlotOf,                \* transaction -> its slot, the next one included
          BadTxs,                \* transactions for which the handler returns Err
          MaxTx,                 \* bound: transactions produced
          MaxFailures            \* bound: disconnects and failed attempts

ASSUME AttemptsAssumption == MaxReconnectAttempts \in Nat \ {0}
ASSUME BackoffAssumption  == /\ InitialBackoff \in Nat \ {0}
                             /\ MaxBackoff \in Nat
                             /\ InitialBackoff <= MaxBackoff
ASSUME BoundsAssumption == MaxTx \in Nat /\ MaxFailures \in Nat
ASSUME SlotOfAssumption == /\ SlotOf \in [1..(MaxTx + 1) -> Nat \ {0}]
                           /\ \A t, u \in 1..(MaxTx + 1) : t <= u => SlotOf[t] <= SlotOf[u]

NoSlot == 0                      \* Option::None; slots are 1, 2, ...
\* The first transaction of a slot, or after it when the slot has none.
FirstOf(slot) == CHOOSE t \in 1..(MaxTx + 1) :
                    SlotOf[t] >= slot /\ \A u \in 1..(t - 1) : SlotOf[u] < slot
MaxOf(a, b) == IF a > b THEN a ELSE b
MinOf(a, b) == IF a < b THEN a ELSE b

VARIABLES
    pc,          \* "connect", "stream", "sleep"
    fromSlot,    \* request.from_slot
    attempts,    \* attempt_count
    backoff,     \* backoff_secs
    last,        \* last_processed_slot of the stream under way
    \* The provider:
    tip,         \* transactions produced so far
    floor,       \* oldest slot it can still replay
    cursor,      \* next transaction the open stream will deliver
    rejected,    \* the open stream answers OutOfRange
    failures,    \* bound counter
    \* History:
    handled,     \* transactions for which the handler returned Ok
    refused,     \* transactions for which the handler returned Err
    excused,     \* transactions before the first from_slot, or that a
                 \* subscription without from_slot left behind
    reached      \* the transactions below it have been offered by some stream

provider == <<tip, floor>>
history  == <<handled, refused, excused, reached>>
vars == <<pc, fromSlot, attempts, backoff, last, provider, cursor, rejected,
          failures, history>>

Init ==
    /\ pc = "connect" /\ attempts = 0 /\ backoff = InitialBackoff
    /\ tip \in 0..MaxTx /\ floor \in 1..SlotOf[tip + 1]
    /\ fromSlot \in NoSlot..SlotOf[tip + 1]
    /\ last = NoSlot /\ cursor = 1 /\ rejected = FALSE /\ failures = 0
    /\ handled = {} /\ refused = {} /\ reached = 1
    /\ excused = {t \in 1..MaxTx : fromSlot # NoSlot /\ t < FirstOf(fromSlot)}

-----------------------------------------------------------------------------
\* Mutant: giving up starts over with the shortest wait.
SetupFailsStartsOver ==
    /\ pc = "connect" /\ failures < MaxFailures
    /\ failures' = failures + 1
    /\ pc' = "sleep"
    /\ LET gaveUp == attempts + 1 >= MaxReconnectAttempts IN
       /\ attempts' = IF gaveUp THEN 0 ELSE attempts + 1
       /\ backoff' = IF gaveUp THEN InitialBackoff ELSE backoff
    /\ UNCHANGED <<fromSlot, last, provider, cursor, rejected, history>>

(* setup_and_process_stream returns Err: connecting or subscribing failed. *)
SetupFails ==
    /\ pc = "connect" /\ failures < MaxFailures
    /\ failures' = failures + 1
    /\ pc' = "sleep"
    /\ LET gaveUp == attempts + 1 >= MaxReconnectAttempts IN
       /\ attempts' = IF gaveUp THEN 0 ELSE attempts + 1
       /\ backoff' = IF gaveUp THEN MaxBackoff ELSE backoff
    /\ UNCHANGED <<fromSlot, last, provider, cursor, rejected, history>>

(* subscribe_once succeeds; process_stream starts with nothing processed.  *)
Subscribe ==
    /\ pc = "connect"
    /\ pc' = "stream" /\ last' = NoSlot
    /\ IF fromSlot = NoSlot
       THEN /\ cursor' = tip + 1 /\ rejected' = FALSE
            /\ excused' = excused \cup ((1..tip) \ (handled \cup refused))
       ELSE /\ cursor' = FirstOf(fromSlot) /\ rejected' = (fromSlot < floor)
            /\ UNCHANGED excused
    /\ reached' = IF rejected' THEN reached ELSE MaxOf(reached, cursor')
    /\ UNCHANGED <<fromSlot, attempts, backoff, provider, failures, handled, refused>>

\* Mutant: the first slot handled is kept, not the highest.
DeliverKeepsFirst ==
    /\ pc = "stream" /\ ~rejected /\ cursor <= tip
    /\ cursor' = cursor + 1 /\ reached' = MaxOf(reached, cursor + 1)
    /\ IF cursor \in BadTxs
       THEN refused' = refused \cup {cursor} /\ UNCHANGED <<last, handled>>
       ELSE /\ last' = IF last = NoSlot THEN SlotOf[cursor] ELSE last
            /\ handled' = handled \cup {cursor}
            /\ UNCHANGED refused
    /\ UNCHANGED <<pc, fromSlot, attempts, backoff, provider, rejected, failures, excused>>

(* process_stream: one transaction update and the handler's answer.        *)
Deliver ==
    /\ pc = "stream" /\ ~rejected /\ cursor <= tip
    /\ cursor' = cursor + 1 /\ reached' = MaxOf(reached, cursor + 1)
    /\ \/ /\ cursor \notin BadTxs
          /\ last' = MaxOf(last, SlotOf[cursor])
          /\ handled' = handled \cup {cursor}
          /\ UNCHANGED refused
       \/ /\ cursor \in BadTxs
          /\ refused' = refused \cup {cursor}
          /\ UNCHANGED <<last, handled>>
    /\ UNCHANGED <<pc, fromSlot, attempts, backoff, provider, rejected, failures, excused>>

\* Mutants: from_slot taken as exclusive; a refused from_slot asked for again.
StreamEndExclusive(replayUnavailable) ==
    /\ fromSlot' = IF replayUnavailable THEN NoSlot
                   ELSE IF last # NoSlot THEN last + 1 ELSE fromSlot
    /\ attempts' = 0 /\ backoff' = InitialBackoff
    /\ pc' = "sleep" /\ rejected' = FALSE
    /\ UNCHANGED <<last, provider, cursor, history>>

StreamEndAsksAgain(replayUnavailable) ==
    /\ fromSlot' = IF last # NoSlot THEN last ELSE fromSlot
    /\ attempts' = 0 /\ backoff' = InitialBackoff
    /\ pc' = "sleep" /\ rejected' = FALSE
    /\ UNCHANGED <<last, provider, cursor, history>>

(* The Ok(StreamEnd) arm of manage_connection_with_retry.                  *)
StreamEnd(replayUnavailable) ==
    /\ fromSlot' = IF replayUnavailable THEN NoSlot
                   ELSE IF last # NoSlot THEN last ELSE fromSlot
    /\ attempts' = 0 /\ backoff' = InitialBackoff
    /\ pc' = "sleep" /\ rejected' = FALSE
    /\ UNCHANGED <<last, provider, cursor, history>>

\* The stream ends, or fails with a code other than OutOfRange.
StreamDrops ==
    /\ pc = "stream" /\ failures < MaxFailures
    /\ failures' = failures + 1
    /\ StreamEnd(FALSE)

StreamOutOfRange ==
    /\ pc = "stream" /\ rejected
    /\ StreamEnd(TRUE)
    /\ UNCHANGED failures

\* Mutant: no cap on the doubling.
WaitUncapped ==
    /\ pc = "sleep"
    /\ pc' = "connect"
    /\ backoff' = backoff * 2
    /\ UNCHANGED <<fromSlot, attempts, last, provider, cursor, rejected, failures, history>>

\* The sleep at the end of the loop, and the doubling after it.
Wait ==
    /\ pc = "sleep"
    /\ pc' = "connect"
    /\ backoff' = MinOf(backoff * 2, MaxBackoff)
    /\ UNCHANGED <<fromSlot, attempts, last, provider, cursor, rejected, failures, history>>

\* External: the provider produces a transaction, or forgets its oldest slot.
Produce ==
    /\ tip < MaxTx
    /\ tip' = tip + 1
    /\ UNCHANGED <<pc, fromSlot, attempts, backoff, last, floor, cursor, rejected,
                   failures, history>>

Forget ==
    /\ floor < SlotOf[tip + 1]
    /\ floor' = floor + 1
    /\ UNCHANGED <<pc, fromSlot, attempts, backoff, last, tip, cursor, rejected,
                   failures, history>>

Next == \/ SetupFails \/ Subscribe \/ Deliver \/ StreamDrops \/ StreamOutOfRange
        \/ Wait \/ Produce \/ Forget

Spec == Init /\ [][Next]_vars

(* The manager task and an open stream keep moving; failures are bounded,  *)
(* so the network is stable in the end.                                    *)
Fairness == /\ WF_vars(Subscribe) /\ WF_vars(Deliver)
            /\ WF_vars(StreamOutOfRange) /\ WF_vars(Wait)

FairSpec == Spec /\ Fairness

-----------------------------------------------------------------------------
TypeOK ==
    /\ pc \in {"connect", "stream", "sleep"}
    /\ fromSlot \in NoSlot..SlotOf[MaxTx + 1] /\ last \in NoSlot..SlotOf[MaxTx + 1]
    /\ attempts \in 0..(MaxReconnectAttempts - 1) /\ backoff \in 1..MaxBackoff
    /\ tip \in 0..MaxTx /\ floor \in 1..SlotOf[MaxTx + 1]
    /\ cursor \in 1..(MaxTx + 1) /\ reached \in 1..(MaxTx + 1)
    /\ rejected \in BOOLEAN /\ failures \in 0..MaxFailures
    /\ handled \subseteq 1..MaxTx /\ refused \subseteq 1..MaxTx
    /\ excused \subseteq 1..MaxTx

Accounted == handled \cup refused \cup excused

(* No silent gap: every transaction below the furthest point a stream has  *)
(* reached was handed to the handler, unless a subscription without        *)
(* from_slot skipped it.  Resuming at the last handled slot, inclusively,  *)
(* leaves nothing out.                                                     *)
NoSilentGap == \A t \in 1..(reached - 1) : t \in Accounted

(* The next connection resumes no later than the oldest transaction still  *)
(* unaccounted for, and replays no slot older than the newest one handled: *)
(* "without replaying everything since process startup".                   *)
ResumesAtLastHandled ==
    (pc # "stream" /\ fromSlot # NoSlot) =>
        /\ \A t \in 1..MaxTx : SlotOf[t] < fromSlot => t \in Accounted
        /\ \A t \in handled : SlotOf[t] <= fromSlot

(* Consecutive failures never shorten the wait, in particular not when the *)
(* attempt counter starts over; only a stream that was opened resets it.   *)
WaitNeverShrinks ==
    [][pc = "stream" \/ backoff' >= backoff]_vars

(* With the network stable in the end, every transaction produced is       *)
(* handled, refused by the handler, or was skipped by a live subscription; *)
(* a from_slot the provider no longer holds does not block the stream.     *)
EventuallyAccounted ==
    \A t \in 1..MaxTx : (tip >= t) ~> (t \in Accounted)

=============================================================================
