------------------------------ MODULE Shutdown ------------------------------
(***************************************************************************)
(* The shutdown sequence of main.rs: after SIGINT or SIGTERM main arms a   *)
(* watchdog thread, clears running, aborts the stream and the maintenance  *)
(* tasks, drops its senders, waits for both batch inserters under one      *)
(* timeout, closes the pool, sleeps briefly and exits.  The stream task    *)
(* and the inserters run concurrently with it; aborting a task only takes  *)
(* effect at its next await.                                               *)
(*                                                                         *)
(* The clock counts half seconds from the signal.  It advances only while  *)
(* main waits, never past main's own deadline: timers are taken to fire on *)
(* time.  An insert takes any time, or never returns.  Rows are counted;   *)
(* the inserter is the loop of BatchInserter with a flush in two steps, of *)
(* which any number of rows may fail (a row that was applied but not       *)
(* acknowledged counts as failed).                                         *)
(***************************************************************************)
EXTENDS Naturals, Sequences

CONSTANTS
    Inserters,     \* the inserters in the order main awaits them; none when
                   \* the process runs readonly
    ChanCap,       \* capacity of a channel
    FlushAt,       \* buffer length that triggers a flush
    MaxRows,       \* bound: rows the stream hands to each table
    DrainTimeout,  \* 3 s: timeout around the wait for the inserters
    Linger,        \* 0.5 s: sleep before exit
    WatchdogAfter  \* 5 s: forced abort

ASSUME ShutdownAssumption ==
    {ChanCap, FlushAt, MaxRows, DrainTimeout, Linger, WatchdogAfter} \subseteq Nat \ {0}
ASSUME InsertersAssumption == Inserters \in Seq(STRING)
ASSUME TimesAssumption == DrainTimeout + Linger < WatchdogAfter

Tables == {Inserters[i] : i \in DOMAIN Inserters}

VARIABLES
    main,       \* "serve", "stop", "abort", "drop", "drain", "linger",
                \* "exited"
    awaited,    \* index of the inserter main waits for
    now,        \* half seconds since the signal
    deadline,   \* end of main's current wait
    late,       \* inserters still at work when the wait timed out
    running,    \* the process-wide flag
    aborts,     \* tasks main has asked to abort
    stream,     \* the stream task, with its sender clones, is alive
    held,       \* main still holds its own senders
    open,       \* the database pool is open
    \* Per table:
    queue,      \* rows in the channel
    buffer,     \* rows in the task's buffer
    flight,     \* rows of the flush under way
    phase,      \* "select", "flush", "drain", "done"
    why,        \* what a flush is for: "tick", "size", "close", "final"
    began,      \* the pool was open when the flush began
    ticked,     \* the 60 s ticker fired since the signal
    offered,    \* rows handed to send()
    stored,     \* rows in the table
    tickEnded,  \* the ticker ended the loop while the stream was alive
    dbFailed    \* the last flush of the task failed with the pool open

mvars == <<main, awaited, now, deadline, late, running, aborts, held, open>>
tvars == <<queue, buffer, flight, phase, why, began, ticked, offered, stored,
           tickEnded, dbFailed>>
vars  == <<mvars, stream, tvars>>

Init ==
    /\ main = "serve" /\ awaited = 1 /\ now = 0 /\ deadline = 0 /\ late = {}
    /\ running = TRUE /\ aborts = {} /\ stream = TRUE /\ held = TRUE /\ open = TRUE
    /\ queue = [t \in Tables |-> 0] /\ buffer = queue /\ flight = queue
    /\ offered = queue /\ stored = queue
    /\ phase = [t \in Tables |-> "select"] /\ why = [t \in Tables |-> "tick"]
    /\ began = [t \in Tables |-> TRUE]
    /\ ticked = [t \in Tables |-> FALSE] /\ tickEnded = ticked /\ dbFailed = ticked

Alive == main # "exited"

-----------------------------------------------------------------------------
(* main                                                                    *)

\* The signal; the watchdog counts from here.
Signal == /\ main = "serve" /\ main' = "stop"
          /\ UNCHANGED <<awaited, now, deadline, late, running, aborts, held, open, stream, tvars>>

\* Step 1: running.store(false).
StopRunning == /\ main = "stop" /\ main' = "abort" /\ running' = FALSE
               /\ UNCHANGED <<awaited, now, deadline, late, aborts, held, open, stream, tvars>>

\* Steps 2 and 3: abort() of the stream and of the maintenance tasks.
AbortTasks ==
    /\ main = "abort" /\ main' = "drop"
    /\ aborts' = {"grpc"} \cup (IF Tables = {} THEN {} ELSE {"whitelist", "alt_mints", "pruner"})
    /\ UNCHANGED <<awaited, now, deadline, late, running, held, open, stream, tvars>>

\* Step 4, and the start of the wait.
DropSenders ==
    /\ main = "drop" /\ main' = "drain" /\ held' = FALSE
    /\ awaited' = 1 /\ deadline' = now + DrainTimeout
    /\ UNCHANGED <<now, late, running, aborts, open, stream, tvars>>

\* Mutant: every handle gets a timeout of its own.
AwaitedDoneRestarts ==
    /\ main = "drain" /\ awaited <= Len(Inserters)
    /\ phase[Inserters[awaited]] = "done"
    /\ awaited' = awaited + 1 /\ deadline' = now + DrainTimeout
    /\ UNCHANGED <<main, now, late, running, aborts, held, open, stream, tvars>>

\* Step 5: a handle resolves, and main waits for the next one.
AwaitedDone ==
    /\ main = "drain" /\ awaited <= Len(Inserters)
    /\ phase[Inserters[awaited]] = "done"
    /\ awaited' = awaited + 1
    /\ UNCHANGED <<main, now, deadline, late, running, aborts, held, open, stream, tvars>>

\* Step 6: db_pool.close(), then the sleep of step 7.
ClosePool == /\ main' = "linger" /\ open' = FALSE /\ deadline' = now + Linger

\* Mutant: only the first handle is awaited.
DrainedFirst ==
    /\ main = "drain" /\ awaited > 1
    /\ ClosePool
    /\ UNCHANGED <<awaited, now, late, running, aborts, held, stream, tvars>>

Drained ==
    /\ main = "drain" /\ awaited > Len(Inserters)
    /\ ClosePool
    /\ UNCHANGED <<awaited, now, late, running, aborts, held, stream, tvars>>

\* Mutant: the timeout is around the wait for the second inserter only.
DrainTimesOutSecond ==
    /\ main = "drain" /\ awaited = 2 /\ now >= deadline
    /\ late' = {t \in Tables : phase[t] # "done"} /\ ClosePool
    /\ UNCHANGED <<awaited, now, running, aborts, held, stream, tvars>>

DrainTimesOut ==
    /\ main = "drain" /\ awaited <= Len(Inserters) /\ now >= deadline
    /\ late' = {t \in Tables : phase[t] # "done"} /\ ClosePool
    /\ UNCHANGED <<awaited, now, running, aborts, held, stream, tvars>>

Exit == /\ main = "linger" /\ now >= deadline /\ main' = "exited"
        /\ UNCHANGED <<awaited, now, deadline, late, running, aborts, held, open, stream, tvars>>

\* Half a second passes while main waits.
Advance == /\ main \in {"drain", "linger"} /\ now < deadline
           /\ now' = now + 1
           /\ UNCHANGED <<main, awaited, deadline, late, running, aborts, held, open, stream, tvars>>

Main == \/ StopRunning \/ AbortTasks \/ DropSenders \/ AwaitedDone \/ Drained
        \/ DrainTimesOut \/ Exit

-----------------------------------------------------------------------------
(* The stream task.                                                        *)

\* A handler's send: into the channel, or dropped when the receiver is gone.
Send(t) ==
    /\ Alive /\ stream /\ offered[t] < MaxRows
    /\ offered' = [offered EXCEPT ![t] = @ + 1]
    /\ \/ phase[t] # "done" /\ queue[t] < ChanCap /\ queue' = [queue EXCEPT ![t] = @ + 1]
       \/ phase[t] = "done" /\ UNCHANGED queue
    /\ UNCHANGED <<mvars, stream, buffer, flight, phase, why, began, ticked, stored,
                   tickEnded, dbFailed>>

\* The abort takes effect: the task is dropped, and its senders with it.
StreamGone == /\ Alive /\ stream /\ "grpc" \in aborts /\ stream' = FALSE
              /\ UNCHANGED <<mvars, tvars>>

-----------------------------------------------------------------------------
(* An inserter task.                                                       *)

\* flush_buffer takes what the buffer holds, n rows.
StartFlush(t, n, reason) ==
    /\ phase' = [phase EXCEPT ![t] = "flush"] /\ why' = [why EXCEPT ![t] = reason]
    /\ flight' = [flight EXCEPT ![t] = n] /\ buffer' = [buffer EXCEPT ![t] = 0]
    /\ began' = [began EXCEPT ![t] = open]

\* What follows a flush for a reason: the loop, the drain or the end.
After(reason) == CASE reason = "tick" -> IF running THEN "select" ELSE "drain"
                   [] reason = "size"  -> "select"
                   [] reason = "close" -> "drain"
                   [] reason = "final" -> "done"

\* The loop is left by the ticker although rows may still be sent.
EndsByTick(t) == tickEnded' = [tickEnded EXCEPT ![t] = @ \/ (~running /\ stream)]

\* The 60 s ticker: any time before the signal, at most once after it.
Tick(t) ==
    /\ Alive /\ phase[t] = "select" /\ ~ticked[t]
    /\ ticked' = [ticked EXCEPT ![t] = main # "serve"]
    /\ \/ /\ buffer[t] > 0 /\ StartFlush(t, buffer[t], "tick")
          /\ UNCHANGED tickEnded
       \/ /\ buffer[t] = 0 /\ phase' = [phase EXCEPT ![t] = After("tick")]
          /\ EndsByTick(t) /\ UNCHANGED <<buffer, flight, why, began>>
    /\ UNCHANGED <<mvars, stream, queue, offered, stored, dbFailed>>

Recv(t) ==
    /\ Alive /\ phase[t] = "select" /\ queue[t] > 0
    /\ queue' = [queue EXCEPT ![t] = @ - 1]
    /\ \/ buffer[t] + 1 = FlushAt /\ StartFlush(t, buffer[t] + 1, "size")
       \/ /\ buffer[t] + 1 # FlushAt /\ buffer' = [buffer EXCEPT ![t] = @ + 1]
          /\ UNCHANGED <<phase, why, flight, began>>
    /\ UNCHANGED <<mvars, stream, ticked, offered, stored, tickEnded, dbFailed>>

\* recv() returns None: the channel is empty and every sender is gone.
RecvClosed(t) ==
    /\ Alive /\ phase[t] = "select" /\ queue[t] = 0 /\ ~stream /\ ~held
    /\ \/ buffer[t] > 0 /\ StartFlush(t, buffer[t], "close")
       \/ /\ buffer[t] = 0 /\ phase' = [phase EXCEPT ![t] = "drain"]
          /\ UNCHANGED <<buffer, flight, why, began>>
    /\ UNCHANGED <<mvars, stream, queue, ticked, offered, stored, tickEnded, dbFailed>>

\* Mutant: rows that were written are kept for retry as well.
EndFlushRetainsAll(t, ok) ==
    /\ Alive /\ phase[t] = "flush" /\ ok <= flight[t] /\ (ok > 0 => began[t])
    /\ stored' = [stored EXCEPT ![t] = @ + ok]
    /\ buffer' = [buffer EXCEPT ![t] = flight[t]]
    /\ flight' = [flight EXCEPT ![t] = 0]
    /\ phase' = [phase EXCEPT ![t] = After(why[t])]
    /\ UNCHANGED <<mvars, stream, queue, why, began, ticked, offered, tickEnded, dbFailed>>

\* A flush ends with ok rows written; with the pool closed none can be.
EndFlush(t, ok) ==
    /\ Alive /\ phase[t] = "flush" /\ ok <= flight[t] /\ (ok > 0 => began[t])
    /\ stored' = [stored EXCEPT ![t] = @ + ok]
    /\ buffer' = [buffer EXCEPT ![t] = flight[t] - ok]
    /\ flight' = [flight EXCEPT ![t] = 0]
    /\ phase' = [phase EXCEPT ![t] = After(why[t])]
    /\ dbFailed' = [dbFailed EXCEPT ![t] = why[t] = "final" /\ ok < flight[t] /\ open]
    /\ IF why[t] = "tick" THEN EndsByTick(t) ELSE UNCHANGED tickEnded
    /\ UNCHANGED <<mvars, stream, queue, why, began, ticked, offered>>

\* try_recv until the channel is empty, then a last flush.
DrainOne(t) ==
    /\ Alive /\ phase[t] = "drain" /\ queue[t] > 0
    /\ queue' = [queue EXCEPT ![t] = @ - 1] /\ buffer' = [buffer EXCEPT ![t] = @ + 1]
    /\ UNCHANGED <<mvars, stream, flight, phase, why, began, ticked, offered, stored,
                   tickEnded, dbFailed>>

DrainEnd(t) ==
    /\ Alive /\ phase[t] = "drain" /\ queue[t] = 0
    /\ \/ buffer[t] > 0 /\ StartFlush(t, buffer[t], "final")
       \/ /\ buffer[t] = 0 /\ phase' = [phase EXCEPT ![t] = "done"]
          /\ UNCHANGED <<buffer, flight, why, began>>
    /\ UNCHANGED <<mvars, stream, queue, ticked, offered, stored, tickEnded, dbFailed>>

Inserter(t) == \/ Tick(t) \/ Recv(t) \/ RecvClosed(t) \/ DrainOne(t) \/ DrainEnd(t)
               \/ \E ok \in 0..MaxRows : EndFlush(t, ok)

Next == \/ Signal \/ Main \/ Advance \/ StreamGone
        \/ \E t \in Tables : Send(t) \/ Inserter(t)

(* Fairness: main runs when it can, and time passes.  Nothing is assumed   *)
(* of the database, the stream or the inserters.                           *)
Spec == Init /\ [][Next]_vars /\ WF_vars(Main) /\ WF_vars(Advance)

-----------------------------------------------------------------------------
TypeOK ==
    /\ main \in {"serve", "stop", "abort", "drop", "drain", "linger", "exited"}
    /\ awaited \in 1..(Len(Inserters) + 1)
    /\ now \in Nat /\ deadline \in Nat
    /\ running \in BOOLEAN /\ stream \in BOOLEAN /\ held \in BOOLEAN /\ open \in BOOLEAN
    /\ late \subseteq Tables
    /\ queue \in [Tables -> 0..ChanCap]
    /\ buffer \in [Tables -> 0..MaxRows] /\ flight \in [Tables -> 0..MaxRows]
    /\ phase \in [Tables -> {"select", "flush", "drain", "done"}]
    /\ why \in [Tables -> {"tick", "size", "close", "final"}]
    /\ offered \in [Tables -> 0..MaxRows]
    /\ \A t \in Tables : stored[t] + queue[t] + buffer[t] + flight[t] <= offered[t]

(* The process is gone before the watchdog thread would abort it: the      *)
(* waits for the inserters, however long their inserts take, and the final *)
(* sleep together stay below its five seconds.                             *)
WatchdogNeverFires == Alive => now < WatchdogAfter

(* At exit every row the stream handed over is in its table, unless the    *)
(* wait timed out with the inserter still at work, the database refused    *)
(* the inserter's last flush, or the ticker ended the inserter in the gap  *)
(* between running.store(false) and the end of the stream task.            *)
ExitLosesNothing ==
    main = "exited" => \A t \in Tables :
        stored[t] < offered[t] =>
            t \in late \/ dbFailed[t] \/ tickEnded[t]

(* A signal ends in exit(0), even when an insert never returns.            *)
ProcessExits == main = "stop" ~> main = "exited"

=============================================================================
