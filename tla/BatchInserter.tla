--------------------------- MODULE BatchInserter ---------------------------
(***************************************************************************)
(* The batch inserter task of one trades table (database/trades.rs,        *)
(* spawn_batch_inserter and flush_buffer), with the bounded mpsc channel   *)
(* that feeds it, the upsert it executes and the pruner that deletes from  *)
(* the same table.  amm_trades and alt_trades each have one such task.     *)
(*                                                                         *)
(* A row is a primary key and the number of its delivery: a transaction    *)
(* that the stream replays is delivered again under the same key with a    *)
(* new number.  Everything else a row carries is left out.                 *)
(***************************************************************************)
EXTENDS Naturals, Sequences, FiniteSets

CONSTANTS Keys,      \* primary keys (tx_signature, ix_index)
          ChanCap,   \* capacity of the mpsc channel (10_000 in main.rs)
          FlushAt,   \* buffer length that triggers a flush (500)
          Chunk,     \* rows per INSERT statement (T::CHUNK = 500)
          MaxSent    \* bound: number of deliveries in a behaviour

ASSUME ChanCapAssumption == ChanCap \in Nat \ {0}
ASSUME FlushAtAssumption == FlushAt \in Nat \ {0}
ASSUME ChunkAssumption   == Chunk \in Nat \ {0}
ASSUME MaxSentAssumption == MaxSent \in Nat

VARIABLES
    chan,        \* rows in the mpsc channel, oldest first
    buffer,      \* the task's Vec<T>
    pending,     \* rows taken from the buffer that this flush has still to try
    retry,       \* rows of the chunks of this flush that failed
    pc,          \* where the task is: "select", "flush", "drain", "end", "done"
    ret,         \* why it flushes: "tick", "size", "close", "final"
    running,     \* the process-wide AtomicBool
    senders,     \* some Sender of the channel is still alive
    sent,        \* number of deliveries handed to send() so far
    table,       \* key -> number of the delivery the table holds, 0: no row
    created,     \* key -> number of the delivery whose created_at it keeps
    \* History, read by properties only:
    settled,     \* rows covered by an acknowledged upsert
    dropped,     \* rows whose send() failed because the receiver was gone
    lost,        \* rows that were in memory when the task ended
    exposed,     \* rows sent after the drain had found the channel empty, and
                 \* rows whose chunk failed in the flush after the drain
    written,     \* rows of the statements that were applied
    split        \* some flush wrote a chunk after an earlier chunk had failed

task   == <<buffer, pending, retry, pc, ret>>
db     == <<table, created>>
hist   == <<settled, dropped, lost, exposed, written, split>>
vars   == <<chan, task, running, senders, sent, db, hist>>

Row == [key: Keys, n: 1..MaxSent]

RowsOf(s) == {s[i] : i \in DOMAIN s}

\* Rows that were accepted by the channel and are still held in memory.
InFlight == RowsOf(chan) \cup RowsOf(buffer) \cup RowsOf(pending) \cup RowsOf(retry)

-----------------------------------------------------------------------------
(* The statement.  coalesce_duplicate_rows keeps, for each key, the row    *)
(* that comes last in the chunk (module CoalesceRows checks the loop).     *)

\* Mutant: the first row of a key is kept.
FirstOfKey(rows) ==
    {rows[i] : i \in {j \in DOMAIN rows :
                        \A l \in DOMAIN rows : l < j => rows[l].key # rows[j].key}}

LastOfKey(rows) ==
    {rows[i] : i \in {j \in DOMAIN rows :
                        \A l \in DOMAIN rows : l > j => rows[l].key # rows[j].key}}

\* Mutant: ON CONFLICT DO NOTHING.
UpsertDoNothing(t, rows) ==
    [k \in Keys |-> IF t[k] = 0 /\ \E r \in LastOfKey(rows) : r.key = k
                    THEN (CHOOSE r \in LastOfKey(rows) : r.key = k).n
                    ELSE t[k]]

\* ON CONFLICT DO UPDATE sets every column but created_at.
Upsert(t, rows) ==
    [k \in Keys |-> IF \E r \in LastOfKey(rows) : r.key = k
                    THEN (CHOOSE r \in LastOfKey(rows) : r.key = k).n
                    ELSE t[k]]

UpsertCreated(t, c, rows) ==
    [k \in Keys |-> IF t[k] = 0 THEN Upsert(t, rows)[k] ELSE c[k]]

-----------------------------------------------------------------------------
Init ==
    /\ chan = <<>> /\ buffer = <<>> /\ pending = <<>> /\ retry = <<>>
    /\ pc = "select" /\ ret = "tick"
    /\ running = TRUE /\ senders = TRUE /\ sent = 0
    /\ table = [k \in Keys |-> 0] /\ created = [k \in Keys |-> 0]
    /\ settled = {} /\ dropped = {} /\ lost = {} /\ exposed = {}
    /\ written = {} /\ split = FALSE

\* Mutant: an unbounded channel.
SendUnbounded(k) ==
    /\ senders /\ sent < MaxSent /\ pc # "done"
    /\ sent' = sent + 1
    /\ chan' = Append(chan, [key |-> k, n |-> sent + 1])
    /\ UNCHANGED <<task, running, senders, db, hist>>

\* The task has drained the channel and will not look at it again.
Drained == pc = "end" \/ (pc = "flush" /\ ret = "final")

(* A handler's sender.send(record).await: it waits for a free slot, and    *)
(* fails at once when the receiver is gone; the handler only logs that.    *)
Send(k) ==
    LET row == [key |-> k, n |-> sent + 1] IN
    /\ senders /\ sent < MaxSent
    /\ sent' = sent + 1
    /\ \/ /\ pc # "done" /\ Len(chan) < ChanCap
          /\ chan' = Append(chan, row)
          /\ exposed' = IF Drained THEN exposed \cup {row} ELSE exposed
          /\ UNCHANGED dropped
       \/ /\ pc = "done"
          /\ dropped' = dropped \cup {row}
          /\ UNCHANGED <<chan, exposed>>
    /\ UNCHANGED <<task, running, senders, db, settled, lost, written, split>>

\* flush_buffer: mem::take the buffer, then one statement per chunk.
StartFlush(rows, why) ==
    /\ pc' = "flush" /\ ret' = why
    /\ pending' = rows /\ retry' = <<>> /\ buffer' = <<>>

\* Mutants: the tick flushes full buffers only; it does not look at running.
TickFullOnly ==
    /\ pc = "select"
    /\ IF Len(buffer) >= FlushAt
       THEN StartFlush(buffer, "tick")
       ELSE /\ pc' = IF running THEN "select" ELSE "drain"
            /\ UNCHANGED <<buffer, pending, retry, ret>>
    /\ UNCHANGED <<chan, running, senders, sent, db, hist>>

TickForever ==
    /\ pc = "select" /\ buffer # <<>>
    /\ StartFlush(buffer, "tick")
    /\ UNCHANGED <<chan, running, senders, sent, db, hist>>

\* The select arm of the flush ticker.
Tick ==
    /\ pc = "select"
    /\ IF buffer # <<>>
       THEN StartFlush(buffer, "tick")
       ELSE /\ pc' = IF running THEN "select" ELSE "drain"
            /\ UNCHANGED <<buffer, pending, retry, ret>>
    /\ UNCHANGED <<chan, running, senders, sent, db, hist>>

\* The select arm of receiver.recv(), Some(record).
Recv ==
    /\ pc = "select" /\ chan # <<>>
    /\ chan' = Tail(chan)
    /\ LET grown == Append(buffer, Head(chan)) IN
       IF Len(grown) = FlushAt
       THEN StartFlush(grown, "size")
       ELSE buffer' = grown /\ UNCHANGED <<pending, retry, pc, ret>>
    /\ UNCHANGED <<running, senders, sent, db, hist>>

\* The select arm of receiver.recv(), None: closed and empty.
RecvClosed ==
    /\ pc = "select" /\ chan = <<>> /\ ~senders
    /\ IF buffer # <<>>
       THEN StartFlush(buffer, "close")
       ELSE pc' = "drain" /\ UNCHANGED <<buffer, pending, retry, ret>>
    /\ UNCHANGED <<chan, running, senders, sent, db, hist>>

(* One iteration of the chunk loop.  The statement is atomic; the await on *)
(* it ends with Ok, with Err and no effect, or with Err although the       *)
(* server applied it (the connection broke before the reply).              *)
ThisChunk == SubSeq(pending, 1, IF Len(pending) < Chunk THEN Len(pending) ELSE Chunk)
RestChunks == SubSeq(pending, Len(ThisChunk) + 1, Len(pending))

Applied ==
    /\ table' = Upsert(table, ThisChunk)
    /\ created' = UpsertCreated(table, created, ThisChunk)
    /\ written' = written \cup RowsOf(ThisChunk)
    /\ split' = (split \/ retry # <<>>)

InsertOk ==
    /\ pc = "flush" /\ pending # <<>>
    /\ Applied
    /\ pending' = RestChunks
    /\ settled' = settled \cup RowsOf(ThisChunk)
    /\ UNCHANGED <<chan, buffer, retry, pc, ret, running, senders, sent, dropped, lost, exposed>>

\* Mutant: a failed chunk is put before the ones that failed earlier.
RetainChunkInFront ==
    /\ pc = "flush" /\ pending # <<>>
    /\ pending' = RestChunks
    /\ retry' = ThisChunk \o retry
    /\ UNCHANGED <<chan, buffer, pc, ret, running, senders, sent, settled, dropped, lost, exposed>>

RetainChunk ==
    /\ pc = "flush" /\ pending # <<>>
    /\ pending' = RestChunks
    /\ retry' = retry \o ThisChunk
    /\ exposed' = IF ret = "final" THEN exposed \cup RowsOf(ThisChunk) ELSE exposed
    /\ UNCHANGED <<chan, buffer, pc, ret, running, senders, sent, settled, dropped, lost>>

InsertFails == RetainChunk /\ UNCHANGED <<db, written, split>>

InsertUnacked == RetainChunk /\ Applied

\* Mutant: the failed chunks are forgotten.
FlushDoneForgets ==
    /\ pc = "flush" /\ pending = <<>>
    /\ retry' = <<>>
    /\ pc' = CASE ret = "tick"  -> IF running THEN "select" ELSE "drain"
               [] ret = "size"  -> "select"
               [] ret = "close" -> "drain"
               [] ret = "final" -> "end"
    /\ UNCHANGED <<chan, buffer, pending, ret, running, senders, sent, db, hist>>

\* The end of flush_buffer, and what its caller does next.
FlushDone ==
    /\ pc = "flush" /\ pending = <<>>
    /\ buffer' = buffer \o retry
    /\ retry' = <<>>
    /\ pc' = CASE ret = "tick"  -> IF running THEN "select" ELSE "drain"
               [] ret = "size"  -> "select"
               [] ret = "close" -> "drain"
               [] ret = "final" -> "end"
    /\ UNCHANGED <<chan, pending, ret, running, senders, sent, db, hist>>

\* while let Ok(record) = receiver.try_recv(): senders may still be sending.
DrainOne ==
    /\ pc = "drain" /\ chan # <<>>
    /\ chan' = Tail(chan)
    /\ buffer' = Append(buffer, Head(chan))
    /\ UNCHANGED <<pending, retry, pc, ret, running, senders, sent, db, hist>>

DrainEnd ==
    /\ pc = "drain" /\ chan = <<>>
    /\ IF buffer # <<>>
       THEN StartFlush(buffer, "final")
       ELSE pc' = "end" /\ UNCHANGED <<buffer, pending, retry, ret>>
    /\ UNCHANGED <<chan, running, senders, sent, db, hist>>

\* The task returns: its Vec and the receiver are dropped with what is in them.
TaskEnds ==
    /\ pc = "end"
    /\ pc' = "done"
    /\ lost' = RowsOf(buffer) \cup RowsOf(chan)
    /\ buffer' = <<>> /\ chan' = <<>>
    /\ UNCHANGED <<pending, retry, ret, running, senders, sent, db, settled, dropped, exposed,
                   written, split>>

\* main(): running.store(false), then the stream task is aborted and the
\* senders are dropped.
StopRunning ==
    /\ running
    /\ running' = FALSE
    /\ UNCHANGED <<chan, task, senders, sent, db, hist>>

DropSenders ==
    /\ ~running /\ senders
    /\ senders' = FALSE
    /\ UNCHANGED <<chan, task, running, sent, db, hist>>

(* prune_old_trades: one DELETE of the rows whose created_at is older than *)
(* the retention window; here, created by one of the first h deliveries.   *)
Prune(h) ==
    /\ senders
    /\ \E k \in Keys : table[k] # 0 /\ created[k] <= h
    /\ LET old(k) == table[k] # 0 /\ created[k] <= h IN
       /\ table' = [k \in Keys |-> IF old(k) THEN 0 ELSE table[k]]
       /\ created' = [k \in Keys |-> IF old(k) THEN 0 ELSE created[k]]
    /\ UNCHANGED <<chan, task, running, senders, sent, hist>>

InsertChunk == InsertOk \/ InsertFails \/ InsertUnacked

Inserter == Tick \/ Recv \/ RecvClosed \/ InsertChunk \/ FlushDone
            \/ DrainOne \/ DrainEnd \/ TaskEnds

Next == \/ \E k \in Keys : Send(k)
        \/ Inserter
        \/ StopRunning \/ DropSenders
        \/ \E h \in 1..MaxSent : Prune(h)

Spec == Init /\ [][Next]_vars

(* Fairness.  The task is polled by the runtime whenever it is ready; the  *)
(* ticker fires every 60 s and select! picks among ready arms at random;   *)
(* an insert that is tried again and again succeeds some day (SF).         *)
Fairness ==
    /\ WF_vars(Tick) /\ WF_vars(Recv) /\ WF_vars(RecvClosed)
    /\ SF_vars(InsertOk) /\ WF_vars(FlushDone)
    /\ WF_vars(DrainOne) /\ WF_vars(DrainEnd) /\ WF_vars(TaskEnds)

FairSpec == Spec /\ Fairness

-----------------------------------------------------------------------------
TypeOK ==
    /\ chan \in Seq(Row) /\ Len(chan) <= ChanCap
    /\ buffer \in Seq(Row) /\ pending \in Seq(Row) /\ retry \in Seq(Row)
    /\ pc \in {"select", "flush", "drain", "end", "done"}
    /\ ret \in {"tick", "size", "close", "final"}
    /\ running \in BOOLEAN /\ senders \in BOOLEAN /\ split \in BOOLEAN
    /\ sent \in 0..MaxSent
    /\ table \in [Keys -> 0..MaxSent] /\ created \in [Keys -> 0..MaxSent]
    /\ settled \subseteq Row /\ dropped \subseteq Row /\ written \subseteq Row
    /\ lost \subseteq Row /\ exposed \subseteq Row

(* Every delivery handed to the channel is in the channel, in the buffer,  *)
(* in the flush under way, retained for retry, or covered by an            *)
(* acknowledged upsert, and never both in flight and settled.  Exceptions  *)
(* are made by a task that has ended after shutdown was signalled, and     *)
(* only these: a send() to it fails, and it takes with it the rows that    *)
(* its last flush failed to write and those that came after its drain.     *)
NoRowLost ==
    /\ \A i \in 1..sent : \E r \in InFlight \cup settled \cup dropped \cup lost : r.n = i
    /\ (InFlight \cup lost) \cap settled = {}
    /\ lost \subseteq exposed
    /\ dropped \cup lost # {} => pc = "done" /\ ~running

(* The rows in memory are in delivery order from the oldest retained row   *)
(* to the newest row in the channel, so the last row of a key in a chunk   *)
(* is its latest delivery: flush_buffer puts failed chunks back in order.  *)
Pipeline == retry \o pending \o buffer \o chan

PipelineOrdered ==
    \A i, j \in DOMAIN Pipeline : i < j => Pipeline[i].n < Pipeline[j].n

(* coalesce_duplicate_rows: "A later replay replaces the earlier value":   *)
(* no row of the table is older than one that was written before it.       *)
LatestDeliveryWins ==
    \A r \in written : table[r.key] = 0 \/ r.n <= table[r.key]

(* A key goes back to an older delivery only after a flush of more than    *)
(* one chunk wrote a later chunk although an earlier one had failed.       *)
StaleOnlyAfterSplit == ~split => LatestDeliveryWins

\* The inserter implements the store its senders rely on.
Store == INSTANCE TradeStore WITH
            outstanding <- InFlight, Rows <- Row,
            phase <- IF pc = "done" THEN "ended" ELSE IF running THEN "running" ELSE "stopping"

ImplementsStore == Store!Spec

(* While the process runs, every accepted row is written some day, however *)
(* often its chunk fails.                                                  *)
EventuallySettled ==
    \A i \in 1..MaxSent :
        (sent >= i) ~> (~running \/ \E r \in settled : r.n = i)

(* Once main() clears running the task ends, at its next tick or when the  *)
(* channel closes, although the last sends may race the drain: the handle  *)
(* main() awaits completes.                                                *)
ShutdownEnds == (~running) ~> (pc = "done")

=============================================================================
