--------------------------- MODULE ShutdownProofs ---------------------------
(***************************************************************************)
(* Proofs about the shutdown sequence, for every number of inserters,      *)
(* every channel capacity, flush threshold and number of rows, and every   *)
(* choice of the three waits whose sum stays below the watchdog's.         *)
(***************************************************************************)
EXTENDS Shutdown, TLAPS

-----------------------------------------------------------------------------
(* The constants.                                                          *)

\* The bounds are positive, and the inserters form a sequence of tables.
LEMMA Constants ==
    /\ ChanCap \in Nat \ {0} /\ FlushAt \in Nat \ {0} /\ MaxRows \in Nat \ {0}
    /\ DrainTimeout \in Nat \ {0} /\ Linger \in Nat \ {0} /\ WatchdogAfter \in Nat \ {0}
    /\ DrainTimeout + Linger < WatchdogAfter
    /\ Len(Inserters) \in Nat /\ DOMAIN Inserters = 1..Len(Inserters)
    /\ \A i \in 1..Len(Inserters) : Inserters[i] \in Tables
<1>1. /\ ChanCap \in Nat \ {0} /\ FlushAt \in Nat \ {0} /\ MaxRows \in Nat \ {0}
      /\ DrainTimeout \in Nat \ {0} /\ Linger \in Nat \ {0} /\ WatchdogAfter \in Nat \ {0}
  BY ShutdownAssumption
<1>2. Len(Inserters) \in Nat /\ DOMAIN Inserters = 1..Len(Inserters)
  BY InsertersAssumption
<1>3. \A i \in 1..Len(Inserters) : Inserters[i] \in Tables
  BY <1>2 DEF Tables
<1>4. QED BY <1>1, <1>2, <1>3, TimesAssumption

-----------------------------------------------------------------------------
(* The inductive invariant.                                                *)

\* The variables TypeOK leaves out.
TypeRest ==
    /\ stored \in [Tables -> Nat]
    /\ tickEnded \in [Tables -> BOOLEAN] /\ dbFailed \in [Tables -> BOOLEAN]

\* What main has done so far: time stands still until it waits, a wait ends
\* within its timeout, and the handles before awaited have resolved.
Sequence ==
    /\ main \in {"serve", "stop", "abort", "drop"} => now = 0
    /\ main = "drain" => now <= deadline /\ deadline <= DrainTimeout
    /\ main = "linger" => now <= deadline /\ deadline <= DrainTimeout + Linger
    /\ open <=> main \notin {"linger", "exited"}
    /\ open => late = {}
    /\ main # "drain" /\ open => awaited = 1
    /\ \A i \in 1..Len(Inserters) : i < awaited => phase[Inserters[i]] = "done"
    /\ ~open => \A t \in Tables : t \in late \/ phase[t] = "done"

Held(t) == stored[t] + queue[t] + buffer[t] + flight[t]

\* The inserter has left its loop, or leaves it after the flush under way.
Leaving(t) == \/ phase[t] \in {"drain", "done"}
              \/ phase[t] = "flush" /\ why[t] \in {"close", "final"}

\* Where the rows of a table are: all in memory or stored until the inserter
\* ends, and then all stored, unless one of the three excuses holds.
Rows(t) ==
    /\ phase[t] = "flush" => buffer[t] = 0
    /\ phase[t] # "flush" => flight[t] = 0
    /\ phase[t] # "done" => Held(t) = offered[t]
    /\ Leaving(t) => ~stream \/ tickEnded[t]
    /\ phase[t] = "flush" /\ why[t] = "final" => queue[t] = 0 \/ tickEnded[t]
    /\ phase[t] = "done" => \/ t \in late \/ dbFailed[t] \/ tickEnded[t]
                            \/ stored[t] = offered[t]

Inv == TypeOK /\ TypeRest /\ Sequence /\ \A t \in Tables : Rows(t)

LEMMA InitInv == Init => Inv
<1> SUFFICES ASSUME Init PROVE Inv
  OBVIOUS
<1>1. TypeOK /\ TypeRest
  BY Constants DEF Init, TypeOK, TypeRest
<1>2. Sequence
  BY Constants DEF Init, Sequence
<1>3. \A t \in Tables : Rows(t)
  BY DEF Init, Rows, Held, Leaving
<1>4. QED BY <1>1, <1>2, <1>3 DEF Inv

-----------------------------------------------------------------------------
(* Steps of main, of the clock and of the stream task.                     *)

\* A step that leaves the tables alone keeps their rows accounted for when
\* no excuse of a finished inserter is taken back.
LEMMA TablesAlone ==
    ASSUME Inv, UNCHANGED tvars, stream' => stream,
           \A t \in Tables : phase[t] = "done" /\ t \in late => t \in late'
    PROVE  TypeRest' /\ \A t \in Tables : Rows(t)'
<1>1. TypeRest'
  BY DEF Inv, TypeRest, tvars
<1>2. ASSUME NEW t \in Tables PROVE Rows(t)'
  BY DEF Inv, Rows, Held, Leaving, tvars
<1>3. QED BY <1>1, <1>2

LEMMA MainKeeps == ASSUME Inv, Signal \/ Main \/ Advance PROVE Inv'
<1>1. UNCHANGED <<stream, tvars>>
  BY DEF Signal, Main, Advance, StopRunning, AbortTasks, DropSenders, AwaitedDone,
         Drained, DrainTimesOut, Exit
<1>2. \A t \in Tables : phase[t] = "done" /\ t \in late => t \in late'
  BY DEF Inv, Sequence, Signal, Main, Advance, StopRunning, AbortTasks, DropSenders,
         AwaitedDone, Drained, DrainTimesOut, Exit
<1>3. TypeRest' /\ \A t \in Tables : Rows(t)'
  BY <1>1, <1>2, TablesAlone
<1>4. TypeOK'
  <2>1. /\ main' \in {"serve", "stop", "abort", "drop", "drain", "linger", "exited"}
        /\ running' \in BOOLEAN /\ held' \in BOOLEAN /\ open' \in BOOLEAN
    BY Constants DEF Inv, TypeOK, Signal, Main, Advance, StopRunning, AbortTasks,
       DropSenders, AwaitedDone, Drained, DrainTimesOut, ClosePool, Exit
  <2>2. awaited' \in 1..(Len(Inserters) + 1) /\ now' \in Nat /\ deadline' \in Nat
    BY Constants DEF Inv, TypeOK, Signal, Main, Advance, StopRunning, AbortTasks,
       DropSenders, AwaitedDone, Drained, DrainTimesOut, ClosePool, Exit
  <2>3. late' \subseteq Tables
    BY Constants DEF Inv, TypeOK, Signal, Main, Advance, StopRunning, AbortTasks,
       DropSenders, AwaitedDone, Drained, DrainTimesOut, ClosePool, Exit
  <2>4. QED BY <1>1, <2>1, <2>2, <2>3 DEF Inv, TypeOK, tvars
<1>5. Sequence'
  <2> USE Constants DEF Inv, TypeOK, Sequence, tvars
  <2>1. CASE Signal
    BY <2>1 DEF Signal
  <2>2. CASE StopRunning
    BY <2>2 DEF StopRunning
  <2>3. CASE AbortTasks
    BY <2>3 DEF AbortTasks
  <2>4. CASE DropSenders
    BY <2>4 DEF DropSenders
  <2>5. CASE AwaitedDone
    BY <2>5 DEF AwaitedDone
  <2>6. CASE Drained
    BY <2>6 DEF Drained, ClosePool, Tables
  <2>7. CASE DrainTimesOut
    BY <2>7 DEF DrainTimesOut, ClosePool
  <2>8. CASE Exit
    BY <2>8 DEF Exit
  <2>9. CASE Advance
    BY <2>9 DEF Advance
  <2>10. QED BY <2>1, <2>2, <2>3, <2>4, <2>5, <2>6, <2>7, <2>8, <2>9 DEF Main
<1>6. QED BY <1>3, <1>4, <1>5 DEF Inv

LEMMA StreamKeeps == ASSUME Inv, StreamGone PROVE Inv'
<1>1. TypeRest' /\ \A t \in Tables : Rows(t)'
  BY TablesAlone DEF StreamGone, mvars
<1>2. TypeOK'
  BY DEF Inv, TypeOK, StreamGone, mvars, tvars
<1>3. Sequence'
  BY DEF Inv, Sequence, StreamGone, mvars, tvars
<1>4. QED BY <1>1, <1>2, <1>3 DEF Inv

-----------------------------------------------------------------------------
(* Steps of one table: a send, or a step of its inserter.                  *)

\* Nothing changes but the entries of table t.
OnlyTable(t) ==
    /\ UNCHANGED <<mvars, stream>>
    /\ queue' = [queue EXCEPT ![t] = queue'[t]]
    /\ buffer' = [buffer EXCEPT ![t] = buffer'[t]]
    /\ flight' = [flight EXCEPT ![t] = flight'[t]]
    /\ phase' = [phase EXCEPT ![t] = phase'[t]]
    /\ why' = [why EXCEPT ![t] = why'[t]]
    /\ offered' = [offered EXCEPT ![t] = offered'[t]]
    /\ stored' = [stored EXCEPT ![t] = stored'[t]]
    /\ tickEnded' = [tickEnded EXCEPT ![t] = tickEnded'[t]]
    /\ dbFailed' = [dbFailed EXCEPT ![t] = dbFailed'[t]]

\* The types of the entries of table t, with the bound on the rows it holds.
Counts(t) ==
    /\ queue[t] \in 0..ChanCap /\ buffer[t] \in Nat /\ flight[t] \in Nat
    /\ offered[t] \in 0..MaxRows /\ stored[t] \in Nat
    /\ Held(t) <= offered[t]

Marks(t) ==
    /\ phase[t] \in {"select", "flush", "drain", "done"}
    /\ why[t] \in {"tick", "size", "close", "final"}
    /\ tickEnded[t] \in BOOLEAN /\ dbFailed[t] \in BOOLEAN

LEMMA CellTyped == ASSUME Inv, NEW t \in Tables PROVE Counts(t) /\ Marks(t)
<1>1. /\ queue[t] \in 0..ChanCap /\ buffer[t] \in Nat /\ flight[t] \in Nat
      /\ offered[t] \in 0..MaxRows /\ stored[t] \in Nat
  BY Constants DEF Inv, TypeOK, TypeRest
<1>2. /\ phase[t] \in {"select", "flush", "drain", "done"}
      /\ why[t] \in {"tick", "size", "close", "final"}
      /\ tickEnded[t] \in BOOLEAN /\ dbFailed[t] \in BOOLEAN
  BY DEF Inv, TypeOK, TypeRest
<1>3. Held(t) <= offered[t]
  BY DEF Inv, TypeOK, Held
<1>4. QED BY <1>1, <1>2, <1>3 DEF Counts, Marks

\* A step of one table keeps the invariant when it keeps that table's part.
LEMMA OneTable ==
    ASSUME Inv, NEW t \in Tables, OnlyTable(t), Counts(t)', Marks(t)', Rows(t)',
           phase[t] = "done" => phase'[t] = "done"
    PROVE  Inv'
<1>1. /\ buffer'[t] \in 0..MaxRows /\ flight'[t] \in 0..MaxRows
  <2>1. /\ stored'[t] \in Nat /\ queue'[t] \in Nat /\ buffer'[t] \in Nat /\ flight'[t] \in Nat
        /\ offered'[t] \in Nat /\ offered'[t] <= MaxRows
    BY Constants DEF Counts
  <2>2. stored'[t] + queue'[t] + buffer'[t] + flight'[t] <= offered'[t]
    BY DEF Counts, Held
  <2>3. buffer'[t] <= offered'[t] /\ flight'[t] <= offered'[t]
    BY <2>1, <2>2
  <2>4. QED BY <2>1, <2>3, Constants
<1>2. /\ queue' \in [Tables -> 0..ChanCap]
      /\ buffer' \in [Tables -> 0..MaxRows] /\ flight' \in [Tables -> 0..MaxRows]
      /\ offered' \in [Tables -> 0..MaxRows] /\ stored' \in [Tables -> Nat]
  BY <1>1 DEF OnlyTable, Counts, Inv, TypeOK, TypeRest
<1>3. /\ phase' \in [Tables -> {"select", "flush", "drain", "done"}]
      /\ why' \in [Tables -> {"tick", "size", "close", "final"}]
      /\ tickEnded' \in [Tables -> BOOLEAN] /\ dbFailed' \in [Tables -> BOOLEAN]
  BY DEF OnlyTable, Marks, Inv, TypeOK, TypeRest
<1>4. ASSUME NEW u \in Tables, u # t
      PROVE  /\ queue'[u] = queue[u] /\ buffer'[u] = buffer[u] /\ flight'[u] = flight[u]
             /\ phase'[u] = phase[u] /\ why'[u] = why[u] /\ offered'[u] = offered[u]
             /\ stored'[u] = stored[u] /\ tickEnded'[u] = tickEnded[u]
             /\ dbFailed'[u] = dbFailed[u]
  BY <1>4 DEF OnlyTable, Inv, TypeOK, TypeRest
<1>5. \A u \in Tables : phase[u] = "done" => phase'[u] = "done"
  BY <1>4
<1>6. \A u \in Tables : stored'[u] + queue'[u] + buffer'[u] + flight'[u] <= offered'[u]
  <2>1. ASSUME NEW u \in Tables
        PROVE  stored'[u] + queue'[u] + buffer'[u] + flight'[u] <= offered'[u]
    <3>1. CASE u = t
      BY <3>1 DEF Counts, Held
    <3>2. CASE u # t
      BY <3>2, <1>4 DEF Inv, TypeOK
    <3>3. QED BY <3>1, <3>2
  <2>2. QED BY <2>1
<1>7. TypeOK' /\ TypeRest'
  BY <1>2, <1>3, <1>6 DEF Inv, TypeOK, TypeRest, OnlyTable, mvars
<1>8. Sequence'
  BY <1>5, Constants DEF Inv, Sequence, OnlyTable, mvars
<1>9. ASSUME NEW u \in Tables PROVE Rows(u)'
  <2>1. CASE u # t
    <3>1. Rows(u) /\ UNCHANGED <<late, stream>>
      BY DEF Inv, OnlyTable, mvars
    <3>2. QED BY <1>4, <2>1, <3>1 DEF Rows, Held, Leaving
  <2>2. QED BY <2>1
<1>10. QED BY <1>7, <1>8, <1>9 DEF Inv

LEMMA SendKeeps == ASSUME Inv, NEW t \in Tables, Send(t) PROVE Inv'
<1>1. Counts(t) /\ Marks(t) /\ Rows(t)
  BY CellTyped DEF Inv
<1>2. /\ OnlyTable(t) /\ stream /\ offered'[t] = offered[t] + 1 /\ offered[t] < MaxRows
      /\ \/ phase[t] # "done" /\ queue[t] < ChanCap /\ queue'[t] = queue[t] + 1
         \/ phase[t] = "done" /\ queue'[t] = queue[t]
      /\ UNCHANGED <<buffer, flight, phase, why, stored, tickEnded, dbFailed, late, stream>>
  BY DEF Send, OnlyTable, mvars, Inv, TypeOK, TypeRest
<1>3. Held(t)' = IF phase[t] = "done" THEN Held(t) ELSE Held(t) + 1
  <2>1. Held(t)' = stored[t] + queue'[t] + buffer[t] + flight[t]
    BY <1>2 DEF Held
  <2>2. stored[t] \in Nat /\ queue[t] \in Nat /\ buffer[t] \in Nat /\ flight[t] \in Nat
    BY <1>1, Constants DEF Counts
  <2>3. QED BY <1>2, <2>1, <2>2 DEF Held
<1>4. Held(t) \in Nat
  <2>1. stored[t] \in Nat /\ queue[t] \in Nat /\ buffer[t] \in Nat /\ flight[t] \in Nat
    BY <1>1, Constants DEF Counts
  <2>2. QED BY <2>1 DEF Held
<1>5. Counts(t)'
  <2>1. queue'[t] \in 0..ChanCap /\ offered'[t] \in 0..MaxRows
    BY <1>1, <1>2, Constants DEF Counts
  <2>2. Held(t)' <= offered'[t]
    BY <1>1, <1>2, <1>3, <1>4, Constants DEF Counts
  <2>3. QED BY <1>1, <1>2, <2>1, <2>2 DEF Counts
<1>6. Marks(t)'
  BY <1>1, <1>2 DEF Marks
<1>7. Rows(t)'
  <2>1. phase'[t] # "done" => Held(t)' = offered'[t]
    BY <1>1, <1>2, <1>3 DEF Rows
  <2>2. phase'[t] = "done" => tickEnded'[t]
    BY <1>1, <1>2 DEF Rows, Leaving
  <2>3. phase[t] = "flush" /\ why[t] = "final" => tickEnded[t]
    BY <1>1, <1>2 DEF Rows, Leaving
  <2>4. QED BY <1>1, <1>2, <2>1, <2>2, <2>3 DEF Rows, Leaving
<1>8. QED BY <1>2, <1>5, <1>6, <1>7, OneTable

-----------------------------------------------------------------------------
(* Steps of an inserter: they move rows, and never change their number.    *)

LEMMA InserterStep ==
    ASSUME Inv, NEW t \in Tables, OnlyTable(t), phase[t] # "done", offered'[t] = offered[t],
           queue'[t] \in 0..ChanCap, buffer'[t] \in Nat, flight'[t] \in Nat,
           stored'[t] \in Nat, Held(t)' = Held(t), Marks(t)',
           phase'[t] = "flush" => buffer'[t] = 0,
           phase'[t] # "flush" => flight'[t] = 0,
           Leaving(t)' => ~stream \/ tickEnded'[t],
           phase'[t] = "flush" /\ why'[t] = "final" => queue'[t] = 0 \/ tickEnded'[t],
           phase'[t] = "done" => \/ t \in late \/ dbFailed'[t] \/ tickEnded'[t]
                                 \/ buffer'[t] = 0 /\ queue'[t] = 0
    PROVE  Inv'
<1>1. Counts(t) /\ Marks(t) /\ Rows(t) /\ UNCHANGED <<late, stream>>
  BY CellTyped DEF Inv, OnlyTable, mvars
<1>2. Held(t)' = offered'[t]
  BY <1>1 DEF Rows
<1>3. Counts(t)'
  BY <1>1, <1>2, Constants DEF Counts
<1>4. phase'[t] = "done" /\ buffer'[t] = 0 /\ queue'[t] = 0 => stored'[t] = offered'[t]
  <2> SUFFICES ASSUME phase'[t] = "done", buffer'[t] = 0, queue'[t] = 0
               PROVE  stored'[t] = offered'[t]
    OBVIOUS
  <2>1. Held(t)' = stored'[t] + 0 + 0 + 0
    BY DEF Held
  <2>2. QED BY <1>2, <2>1
<1>5. Rows(t)'
  BY <1>1, <1>2, <1>4 DEF Rows
<1>6. QED BY <1>3, <1>5, OneTable

\* A flush that takes n rows, all the buffer's and those received in the step.
LEMMA StartFlushStep ==
    ASSUME Inv, NEW t \in Tables, NEW n \in Nat, NEW reason \in {"tick", "size", "close", "final"},
           phase[t] \in {"select", "drain"}, StartFlush(t, n, reason), OnlyTable(t),
           UNCHANGED <<offered, stored, tickEnded, dbFailed>>,
           queue'[t] \in 0..ChanCap, queue'[t] + n = queue[t] + buffer[t],
           reason \in {"close", "final"} => ~stream \/ tickEnded[t],
           reason = "final" => queue'[t] = 0 \/ tickEnded[t]
    PROVE  Inv'
<1>1. Counts(t) /\ Marks(t) /\ Rows(t)
  BY CellTyped DEF Inv
<1>2. phase'[t] = "flush" /\ why'[t] = reason /\ flight'[t] = n /\ buffer'[t] = 0
  BY DEF StartFlush, Inv, TypeOK
<1>3. Held(t)' = Held(t)
  <2>1. flight[t] = 0
    BY <1>1 DEF Rows
  <2>2. Held(t)' = stored[t] + queue'[t] + 0 + n
    BY <1>2 DEF Held
  <2>3. Held(t) = stored[t] + queue[t] + buffer[t] + 0
    BY <2>1 DEF Held
  <2>4. stored[t] \in Nat /\ queue[t] \in Nat /\ buffer[t] \in Nat /\ queue'[t] \in Nat
    BY <1>1, Constants DEF Counts
  <2>5. QED BY <2>2, <2>3, <2>4
<1>4. Marks(t)'
  BY <1>1, <1>2 DEF Marks
<1>5. Leaving(t)' => ~stream \/ tickEnded'[t]
  BY <1>2 DEF Leaving
<1>6. QED BY <1>1, <1>2, <1>3, <1>4, <1>5, InserterStep DEF Counts

\* What follows a flush, by its reason.
LEMMA AfterCases ==
    /\ After("tick") = (IF running THEN "select" ELSE "drain")
    /\ After("size") = "select" /\ After("close") = "drain" /\ After("final") = "done"
BY DEF After

LEMMA TickKeeps == ASSUME Inv, NEW t \in Tables, Tick(t) PROVE Inv'
<1>1. Counts(t) /\ Marks(t) /\ Rows(t) /\ phase[t] = "select"
  BY CellTyped DEF Inv, Tick
<1>2. UNCHANGED <<queue, offered, stored, dbFailed>> /\ UNCHANGED <<mvars, stream>>
  BY DEF Tick
<1>3. CASE buffer[t] > 0
  <2>1. StartFlush(t, buffer[t], "tick") /\ UNCHANGED tickEnded
    BY <1>3, <1>1 DEF Tick, Counts
  <2>2. OnlyTable(t)
    BY <1>2, <2>1 DEF OnlyTable, StartFlush, Inv, TypeOK, TypeRest
  <2>3. QED BY <1>1, <1>2, <2>1, <2>2, StartFlushStep DEF Counts
<1>4. CASE buffer[t] = 0
  <2>1. /\ phase' = [phase EXCEPT ![t] = IF running THEN "select" ELSE "drain"]
        /\ tickEnded' = [tickEnded EXCEPT ![t] = tickEnded[t] \/ (~running /\ stream)]
        /\ UNCHANGED <<buffer, flight, why>>
    BY <1>4, AfterCases DEF Tick, EndsByTick
  <2>2. OnlyTable(t)
    BY <1>2, <2>1 DEF OnlyTable, Inv, TypeOK, TypeRest
  <2>3. /\ phase'[t] = IF running THEN "select" ELSE "drain"
        /\ tickEnded'[t] = (tickEnded[t] \/ (~running /\ stream))
    BY <2>1 DEF Inv, TypeOK, TypeRest
  <2>4. Held(t)' = Held(t)
    BY <1>2, <2>1 DEF Held
  <2>5. Marks(t)'
    BY <1>1, <1>2, <2>1, <2>3 DEF Marks
  <2>6. Leaving(t)' => ~stream \/ tickEnded'[t]
    BY <2>3 DEF Leaving
  <2>7. QED BY <1>1, <1>2, <2>1, <2>2, <2>3, <2>4, <2>5, <2>6, InserterStep DEF Counts, Rows
<1>5. QED BY <1>1, <1>3, <1>4 DEF Counts

LEMMA RecvKeeps == ASSUME Inv, NEW t \in Tables, Recv(t) PROVE Inv'
<1>1. Counts(t) /\ Marks(t) /\ Rows(t) /\ phase[t] = "select" /\ queue[t] > 0
  BY CellTyped DEF Inv, Recv
<1>2. /\ queue' = [queue EXCEPT ![t] = queue[t] - 1]
      /\ UNCHANGED <<offered, stored, tickEnded, dbFailed>> /\ UNCHANGED <<mvars, stream>>
  BY DEF Recv
<1>3. queue'[t] = queue[t] - 1 /\ queue'[t] \in 0..ChanCap
  <2>1. ChanCap \in Nat /\ queue[t] \in 0..ChanCap /\ queue[t] > 0
    BY <1>1, Constants DEF Counts
  <2>2. queue'[t] = queue[t] - 1
    BY <1>2 DEF Inv, TypeOK
  <2>3. QED BY <2>1, <2>2
<1>4. CASE buffer[t] + 1 = FlushAt
  <2>1. StartFlush(t, buffer[t] + 1, "size")
    BY <1>4 DEF Recv
  <2>2. OnlyTable(t)
    BY <1>2, <2>1 DEF OnlyTable, StartFlush, Inv, TypeOK, TypeRest
  <2>3. buffer[t] + 1 \in Nat /\ queue'[t] + (buffer[t] + 1) = queue[t] + buffer[t]
    <3>1. queue[t] \in Nat /\ buffer[t] \in Nat
      BY <1>1, Constants DEF Counts
    <3>2. QED BY <1>3, <3>1
  <2>4. QED BY <1>1, <1>2, <1>3, <2>1, <2>2, <2>3, StartFlushStep
<1>5. CASE buffer[t] + 1 # FlushAt
  <2>1. buffer' = [buffer EXCEPT ![t] = buffer[t] + 1] /\ UNCHANGED <<phase, why, flight>>
    BY <1>5 DEF Recv
  <2>2. OnlyTable(t) /\ buffer'[t] = buffer[t] + 1
    BY <1>2, <2>1 DEF OnlyTable, Inv, TypeOK, TypeRest
  <2>3. Held(t)' = Held(t)
    <3>1. Held(t)' = stored[t] + (queue[t] - 1) + (buffer[t] + 1) + flight[t]
      BY <1>2, <1>3, <2>1, <2>2 DEF Held
    <3>2. stored[t] \in Nat /\ queue[t] \in Nat /\ buffer[t] \in Nat /\ flight[t] \in Nat
      BY <1>1, Constants DEF Counts
    <3>3. QED BY <3>1, <3>2 DEF Held
  <2>4. Marks(t)'
    BY <1>1, <1>2, <2>1 DEF Marks
  <2>5. ~Leaving(t)'
    BY <1>1, <2>1 DEF Leaving
  <2>6. QED BY <1>1, <1>2, <1>3, <2>1, <2>2, <2>3, <2>4, <2>5, InserterStep DEF Counts, Rows
<1>6. QED BY <1>4, <1>5

LEMMA RecvClosedKeeps == ASSUME Inv, NEW t \in Tables, RecvClosed(t) PROVE Inv'
<1>1. Counts(t) /\ Marks(t) /\ Rows(t) /\ phase[t] = "select" /\ ~stream
  BY CellTyped DEF Inv, RecvClosed
<1>2. /\ UNCHANGED <<queue, offered, stored, tickEnded, dbFailed>>
      /\ UNCHANGED <<mvars, stream>>
  BY DEF RecvClosed
<1>3. CASE buffer[t] > 0
  <2>1. StartFlush(t, buffer[t], "close")
    BY <1>3, <1>1 DEF RecvClosed, Counts
  <2>2. OnlyTable(t)
    BY <1>2, <2>1 DEF OnlyTable, StartFlush, Inv, TypeOK, TypeRest
  <2>3. QED BY <1>1, <1>2, <2>1, <2>2, StartFlushStep DEF Counts
<1>4. CASE buffer[t] = 0
  <2>1. phase' = [phase EXCEPT ![t] = "drain"] /\ UNCHANGED <<buffer, flight, why>>
    BY <1>4 DEF RecvClosed
  <2>2. OnlyTable(t) /\ phase'[t] = "drain"
    BY <1>2, <2>1 DEF OnlyTable, Inv, TypeOK, TypeRest
  <2>3. Held(t)' = Held(t)
    BY <1>2, <2>1 DEF Held
  <2>4. Marks(t)'
    BY <1>1, <1>2, <2>1, <2>2 DEF Marks
  <2>5. QED BY <1>1, <1>2, <2>1, <2>2, <2>3, <2>4, InserterStep DEF Counts, Rows
<1>5. QED BY <1>1, <1>3, <1>4 DEF Counts

LEMMA DrainOneKeeps == ASSUME Inv, NEW t \in Tables, DrainOne(t) PROVE Inv'
<1>1. Counts(t) /\ Marks(t) /\ Rows(t) /\ phase[t] = "drain" /\ queue[t] > 0
  BY CellTyped DEF Inv, DrainOne
<1>2. /\ queue' = [queue EXCEPT ![t] = queue[t] - 1]
      /\ buffer' = [buffer EXCEPT ![t] = buffer[t] + 1]
      /\ UNCHANGED <<flight, phase, why, offered, stored, tickEnded, dbFailed>>
      /\ UNCHANGED <<mvars, stream>>
  BY DEF DrainOne
<1>3. queue'[t] = queue[t] - 1 /\ buffer'[t] = buffer[t] + 1 /\ OnlyTable(t)
  BY <1>2 DEF OnlyTable, Inv, TypeOK, TypeRest
<1>4. queue'[t] \in 0..ChanCap /\ buffer'[t] \in Nat
  <2>1. ChanCap \in Nat /\ queue[t] \in 0..ChanCap /\ buffer[t] \in Nat /\ queue[t] > 0
    BY <1>1, Constants DEF Counts
  <2>2. QED BY <1>3, <2>1
<1>5. Held(t)' = Held(t)
  <2>1. Held(t)' = stored[t] + (queue[t] - 1) + (buffer[t] + 1) + flight[t]
    BY <1>2, <1>3 DEF Held
  <2>2. stored[t] \in Nat /\ queue[t] \in Nat /\ buffer[t] \in Nat /\ flight[t] \in Nat
    BY <1>1, Constants DEF Counts
  <2>3. QED BY <2>1, <2>2 DEF Held
<1>6. Marks(t)'
  BY <1>1, <1>2 DEF Marks
<1>7. Leaving(t)' => ~stream \/ tickEnded'[t]
  BY <1>1, <1>2 DEF Rows, Leaving
<1>8. QED BY <1>1, <1>2, <1>3, <1>4, <1>5, <1>6, <1>7, InserterStep DEF Counts, Rows

LEMMA DrainEndKeeps == ASSUME Inv, NEW t \in Tables, DrainEnd(t) PROVE Inv'
<1>1. Counts(t) /\ Marks(t) /\ Rows(t) /\ phase[t] = "drain" /\ queue[t] = 0
  BY CellTyped DEF Inv, DrainEnd
<1>2. /\ UNCHANGED <<queue, offered, stored, tickEnded, dbFailed>>
      /\ UNCHANGED <<mvars, stream>>
  BY DEF DrainEnd
<1>3. ~stream \/ tickEnded[t]
  BY <1>1 DEF Rows, Leaving
<1>4. CASE buffer[t] > 0
  <2>1. StartFlush(t, buffer[t], "final")
    BY <1>4, <1>1 DEF DrainEnd, Counts
  <2>2. OnlyTable(t)
    BY <1>2, <2>1 DEF OnlyTable, StartFlush, Inv, TypeOK, TypeRest
  <2>3. QED BY <1>1, <1>2, <1>3, <2>1, <2>2, StartFlushStep DEF Counts
<1>5. CASE buffer[t] = 0
  <2>1. phase' = [phase EXCEPT ![t] = "done"] /\ UNCHANGED <<buffer, flight, why>>
    BY <1>5 DEF DrainEnd
  <2>2. OnlyTable(t) /\ phase'[t] = "done"
    BY <1>2, <2>1 DEF OnlyTable, Inv, TypeOK, TypeRest
  <2>3. Held(t)' = Held(t)
    BY <1>2, <2>1 DEF Held
  <2>4. Marks(t)'
    BY <1>1, <1>2, <2>1, <2>2 DEF Marks
  <2>5. QED BY <1>1, <1>2, <1>3, <1>5, <2>1, <2>2, <2>3, <2>4, InserterStep DEF Counts, Rows
<1>6. QED BY <1>1, <1>4, <1>5 DEF Counts

LEMMA EndFlushKeeps ==
    ASSUME Inv, NEW t \in Tables, NEW ok \in 0..MaxRows, EndFlush(t, ok)
    PROVE  Inv'
<1>1. /\ Counts(t) /\ Marks(t) /\ Rows(t) /\ phase[t] = "flush" /\ ok <= flight[t]
      /\ ok \in Nat
  BY CellTyped, Constants DEF Inv, EndFlush
<1>2. /\ stored' = [stored EXCEPT ![t] = stored[t] + ok]
      /\ buffer' = [buffer EXCEPT ![t] = flight[t] - ok]
      /\ flight' = [flight EXCEPT ![t] = 0]
      /\ phase' = [phase EXCEPT ![t] = After(why[t])]
      /\ dbFailed' = [dbFailed EXCEPT ![t] = why[t] = "final" /\ ok < flight[t] /\ open]
      /\ UNCHANGED <<queue, why, offered>> /\ UNCHANGED <<mvars, stream>>
  BY DEF EndFlush
<1>3. tickEnded' = [tickEnded EXCEPT ![t] = tickEnded[t] \/ (why[t] = "tick" /\ ~running /\ stream)]
  <2>1. CASE why[t] = "tick"
    BY <2>1 DEF EndFlush, EndsByTick
  <2>2. CASE why[t] # "tick"
    <3>1. tickEnded' = tickEnded /\ tickEnded \in [Tables -> BOOLEAN]
      BY <2>2 DEF EndFlush, Inv, TypeRest
    <3>2. QED BY <2>2, <3>1
  <2>3. QED BY <2>1, <2>2
<1>4. /\ stored'[t] = stored[t] + ok /\ buffer'[t] = flight[t] - ok /\ flight'[t] = 0
      /\ phase'[t] = After(why[t])
      /\ dbFailed'[t] = (why[t] = "final" /\ ok < flight[t] /\ open)
      /\ tickEnded'[t] = (tickEnded[t] \/ (why[t] = "tick" /\ ~running /\ stream))
  BY <1>2, <1>3 DEF Inv, TypeOK, TypeRest
<1>5. OnlyTable(t)
  BY <1>2, <1>3, <1>4 DEF OnlyTable, Inv, TypeOK, TypeRest
<1>6. Held(t)' = Held(t)
  <2>1. Held(t)' = (stored[t] + ok) + queue[t] + (flight[t] - ok) + 0
    BY <1>2, <1>4 DEF Held
  <2>2. Held(t) = stored[t] + queue[t] + 0 + flight[t]
    BY <1>1 DEF Held, Rows
  <2>3. stored[t] \in Nat /\ queue[t] \in Nat /\ flight[t] \in Nat
    BY <1>1, Constants DEF Counts
  <2>4. QED BY <1>1, <2>1, <2>2, <2>3
<1>7. phase'[t] \in {"select", "drain", "done"} /\ (phase'[t] = "done" <=> why[t] = "final")
  BY <1>1, <1>4, AfterCases DEF Marks
<1>8. Marks(t)'
  BY <1>1, <1>2, <1>4, <1>7 DEF Marks
<1>9. Leaving(t)' => ~stream \/ tickEnded'[t]
  <2>1. CASE why[t] \in {"close", "final"}
    BY <1>1, <1>4, <2>1 DEF Rows, Leaving
  <2>2. CASE why[t] = "size"
    BY <1>4, <2>2, AfterCases DEF Leaving
  <2>3. CASE why[t] = "tick"
    BY <1>4, <2>3, AfterCases DEF Leaving
  <2>4. QED BY <1>1, <2>1, <2>2, <2>3 DEF Marks
<1>10. phase'[t] = "done" => \/ t \in late \/ dbFailed'[t] \/ tickEnded'[t]
                             \/ buffer'[t] = 0 /\ queue'[t] = 0
  <2> SUFFICES ASSUME phase'[t] = "done", t \notin late, ~tickEnded'[t], ~dbFailed'[t]
               PROVE  buffer'[t] = 0 /\ queue'[t] = 0
    OBVIOUS
  <2>1. why[t] = "final" /\ queue[t] = 0
    BY <1>1, <1>4, <1>7 DEF Rows
  <2>2. open
    BY <1>1 DEF Inv, Sequence
  <2>3. ok = flight[t]
    <3>1. ~(ok < flight[t])
      BY <1>4, <2>1, <2>2
    <3>2. flight[t] \in Nat /\ ok \in Nat /\ ok <= flight[t]
      BY <1>1 DEF Counts
    <3>3. QED BY <3>1, <3>2
  <2>4. QED BY <1>2, <1>4, <2>1, <2>3, <1>1 DEF Counts
<1>11. buffer'[t] \in Nat /\ stored'[t] \in Nat
  BY <1>1, <1>4 DEF Counts
<1>12. QED BY <1>1, <1>2, <1>4, <1>5, <1>6, <1>7, <1>8, <1>9, <1>10, <1>11, InserterStep DEF Counts

-----------------------------------------------------------------------------
(* The theorems.                                                           *)

LEMMA NextInv == Inv /\ [Next]_vars => Inv'
<1> SUFFICES ASSUME Inv, [Next]_vars PROVE Inv'
  OBVIOUS
<1>1. CASE Signal \/ Main \/ Advance
  BY <1>1, MainKeeps
<1>2. CASE StreamGone
  BY <1>2, StreamKeeps
<1>3. ASSUME NEW t \in Tables, Send(t) \/ Inserter(t) PROVE Inv'
  BY <1>3, SendKeeps, TickKeeps, RecvKeeps, RecvClosedKeeps, DrainOneKeeps, DrainEndKeeps,
     EndFlushKeeps DEF Inserter
<1>4. CASE UNCHANGED vars
  <2>1. UNCHANGED tvars /\ UNCHANGED mvars /\ stream' = stream
    BY <1>4 DEF vars
  <2>2. TypeRest' /\ \A t \in Tables : Rows(t)'
    BY <2>1, TablesAlone DEF mvars
  <2>3. TypeOK'
    BY <2>1 DEF Inv, TypeOK, mvars, tvars
  <2>4. Sequence'
    BY <2>1 DEF Inv, Sequence, mvars, tvars
  <2>5. QED BY <2>2, <2>3, <2>4 DEF Inv
<1>5. QED BY <1>1, <1>2, <1>3, <1>4 DEF Next

\* The invariant is inductive.
THEOREM InvCorrect == Spec => []Inv
BY InitInv, NextInv, PTL DEF Spec

(* Type correctness of the shutdown sequence: no channel overflows and no  *)
(* row appears that was not handed over.                                   *)
THEOREM TypeCorrect == Spec => []TypeOK
<1>1. Inv => TypeOK
  BY DEF Inv
<1>2. QED BY <1>1, InvCorrect, PTL

(* However long the inserts take, and however many inserters there are,    *)
(* main exits before the watchdog thread aborts the process.               *)
THEOREM WatchdogCorrect == Spec => []WatchdogNeverFires
<1>1. Inv => WatchdogNeverFires
  BY Constants DEF Inv, TypeOK, Sequence, WatchdogNeverFires, Alive
<1>2. QED BY <1>1, InvCorrect, PTL

(* At exit a row is missing from its table only if the wait timed out, the *)
(* last flush failed, or the ticker ended the inserter before the stream.  *)
THEOREM ExitCorrect == Spec => []ExitLosesNothing
<1>1. Inv => ExitLosesNothing
  <2> SUFFICES ASSUME Inv, main = "exited", NEW t \in Tables, stored[t] < offered[t], t \notin late
               PROVE  dbFailed[t] \/ tickEnded[t]
    BY DEF ExitLosesNothing
  <2>1. phase[t] = "done"
    BY DEF Inv, Sequence
  <2>2. stored[t] # offered[t]
    BY CellTyped DEF Counts
  <2>3. QED BY <2>1, <2>2 DEF Inv, Rows
<1>2. QED BY <1>1, InvCorrect, PTL

=============================================================================
