# Verification of the trade collector

The collector subscribes to a Yellowstone gRPC stream of finalized Solana
transactions, decodes PumpSwap and Raydium CPMM trades and upserts them into
PostgreSQL. This directory holds TLA+ models of its moving parts, the TLC
configurations that check them, and proofs checked by TLAPS. Paths below are
relative to the repository.

## 1. The system

| Component | State | Operations | Talks to |
|---|---|---|---|
| Connection manager, `src/grpc/connection.rs` | `from_slot`, attempt counter, backoff, last handled slot | connect, subscribe, hand over a transaction, end of stream, back off | provider; the handler closure, awaited per transaction |
| PumpSwap handler, `src/handler/amm_handler.rs` | `trade_index`, fills of a route | filter, decode, emit | reads the whitelist; sends to the `amm_trades` channel |
| CPMM handler, `src/handler/cpmm_handler.rs`, `src/utils/cpmm.rs` | list of log events not yet claimed, `trade_index` | filter, recover amounts, send | reads alt mints; sends to the `alt_trades` channel |
| Decoding helpers, `src/utils/transaction.rs` | none | list a program's instructions, attribute events, sides, amounts, fees, tips | called by both handlers |
| Whitelist, `src/database/whitelist.rs` | shared `DashSet` | load, refresh every 5 min | `all_mints` |
| Alt mints, `src/database/alt_mints.rs` | shared `DashMap` | load, refresh every 5 min | `alt_mints` |
| Batch inserter, `src/database/trades.rs` (one task per table) | channel of 10 000, buffer, rows of the flush | receive, flush at 500 rows or every 60 s, retain failed chunks, drain | `amm_trades`, `alt_trades` |
| Pruner, `src/database/trades.rs` | none | delete rows older than 14 days, hourly | both tables |
| Process, `src/main.rs` | `running` flag, task handles | start, compute the replay slot, shut down | all of them |

Hard behaviours: the tasks interleave at every `await`; an `INSERT` can be
applied and still be reported as failed; one chunk of a flush can fail and the
next succeed; the stream drops inside a slot and replays it; the provider keeps
a bounded history; a crash loses both channels and both buffers; the lists that
decide which trades qualify are rebuilt while they are read; a flat list of
inner instructions has to be turned back into a call tree; a failed route has no
events to tell its sides; the shutdown races two inserters, a timeout and a
watchdog.

What makes each part correct:

* connection: no transaction is skipped silently, the resume point is neither
  too late nor needlessly early, a refused replay does not block the stream,
  consecutive failures do not shorten the wait;
* inserter: an accepted row is written however often its chunk fails, rows stay
  in order; a replay that knows less does not erase what a row has;
* collector: what was received survives disconnects and crashes;
* shutdown: the process ends by itself, in time, and loses nothing it need not;
* handlers: exactly the qualifying trades are sent, each with its own amounts,
  under a key that a replay reproduces.

The hazards are listed in `PROJECT.json`, each at its line.

## 2. Modules

| Module | Models | Proof or run |
|---|---|---|
| `TradeStore` | what an inserter promises: an accepted row is outstanding until an acknowledged upsert covers it, or the store ends after it was told to stop | implemented by `BatchInserter`, used twice by `Collector` |
| `BatchInserter` | `spawn_batch_inserter`, `flush_buffer`, the upsert, the pruner | `MCBatchInserter*`, `BatchInserterProofs` |
| `CoalesceRows`, `AltTrades` | the loop of `coalesce_duplicate_rows`; `batch_insert_alt_trades` | `MCAltTrades`, `AltTradesProofs` |
| `GrpcConnection` | `manage_connection_with_retry`, `process_stream` | `MCGrpcConnection`, `CollectorProofs` |
| `Collector` | `main`: connection, two handlers, two stores, crash and restart | `MCCollector*`, `CollectorProofs` |
| `Shutdown` | `main` after a signal, with the stream task and the inserters | `MCShutdown`, `ShutdownProofs` |
| `PumpSwapEvents`, `PumpSwapFills` | instruction arguments and event payloads of `utils/transaction.rs`; the fills of one instruction, `multi_hop_fills` and the body of `process_pump_swap_tx` | `MCPumpSwapFills`, `PumpSwapFillsProofs` |
| `Whitelist`, `AmmHandler` | the set and its refresh; the instruction loop of `process_pump_swap_tx` | `MCAmmHandler*`, `AmmHandlerProofs` |
| `AltMints`, `CpmmHandler` | the map and its refresh; `process_cpmm_tx`, `utils/cpmm.rs` | `MCCpmmHandler`, `CpmmHandlerProofs` |
| `EventScan` | `get_program_instructions`, `direct_child_events`, `find_event_data` | `MCEventScan`, `EventScanProofs` |

An operator marked *Mutant* is a variant of the definition after it with a
plausible bug; no specification uses it. For each property there is one that
breaks it, which shows that the property depends on the code.

### BatchInserter

`chan`, `buffer`, `pending` and `retry` are the channel, the task's `Vec` and
the two vectors of `flush_buffer`; `pc` is the await the task is at. A row is a
key and the number of its delivery: a replay has the key of the first delivery
and a higher number. Each arm of the `select!`, each `INSERT`, the end of a
flush and each step of the drain is one action. An `INSERT` ends in one of
three ways: `InsertOk`, `InsertFails` (no effect) and `InsertUnacked` (applied,
reported as failed). `created` stands for `created_at`, the column the upsert
does not touch and the pruner looks at. `alt_trades` runs the same task; where
its statement differs it is modelled in `AltTrades`. `TaskEnds` is the return of
the task: its `Vec` and the receiver go, with the rows that a last flush has put
back and those that entered the channel after the drain. The rest is history:
`settled` by an acknowledged insert, `dropped` by a failed `send()`, `lost` with
the task, `exposed` to that (put back by the last flush, or sent after the
drain), `written`, and `split`.

### CoalesceRows and AltTrades

`seen` is the chunk as far as the loop has read it, `positions` and `unique` are
the code's map and vector. `AltTrades` runs the loop on chunk after chunk and
applies the statement, or fails it as a whole, and lets the pruner delete rows.
A row is its key and its `quote_decimals`, the one column the upsert does not
simply overwrite. `learned` and `shadowed` are history: the last decimals that
any applied delivery of a key brought, and the keys whose deliveries in one chunk
brought them and then, later in that chunk, none.

### Shutdown

`main` goes through the numbered steps of the code; between any two of them the
stream task and the inserters move. The clock counts half seconds from the
signal, advances only while `main` waits and not past `main`'s deadline: timers
fire on time, and the steps of `main` between its waits take no time. The
inserter is the loop of `BatchInserter` on counted rows, with a flush in two
steps, so that the pool can close and the clock can run while an insert is under
way; an insert may never return. The 60 s ticker fires at most once within the
shutdown. The stream task may go on sending until its abort takes effect.

### GrpcConnection

Transactions are numbered in stream order and `SlotOf` gives their slots, so a
stream can break inside a slot. `StreamEnd` is the `Ok` arm of the retry loop,
`SetupFails` the `Err` arm, `Wait` the sleep and the doubling after it.
`BadTxs` are those for which the handler returns `Err`. `Produce` and `Forget`
are the provider. `excused` holds what the first `from_slot` or a live
subscription leaves out on purpose, so `NoSilentGap` cannot be satisfied by it
unless the code asked for it. The provider reports a slot it dropped on the
stream, as the code's own test assumes.

### Collector

Extends `GrpcConnection`; `HandleTx` is `Deliver` together with what both
handlers send. The two inserters are `TradeStore`s, justified by
`ImplementsStore`: a flush persists a part of what is outstanding, with
`PartialFlush = FALSE` all of it. `Crash` may happen at any moment; an exit that
leaves rows behind (`Shutdown`) is one, as far as they are concerned. It empties memory
and restarts from `Checkpoint` or from an operator's `GRPC_FROM_SLOT`.
`forfeited` says, without the checkpoint, which transactions no replay brings
back: more than `Window` slots below a committed `amm_trades` row, all when
`amm_trades` is empty, those below an override, and those only memory held when
the provider refused the replay.

### AmmHandler and Whitelist

A handler step is one lookup in the `DashSet` or one emission. A single-pool
trade is looked up and emitted before the next instruction; the hops of a
`multi_hop_swap` are all looked up before the first is emitted. `clear()` works
shard by shard, so mints vanish one at a time and come back one at a time. The
channel and the inserter are taken as the upsert they end in. `Filtered` and
`NoAmounts` stand for the filters that depend on the transaction alone; what they
are is the subject of `PumpSwapFills`. Of a delivery, `lists` records what the
`DashSet` held, `queried` what the queries in force had returned, and `overlap`
whether a refresh was between its query and its last insert meanwhile.

### PumpSwapEvents and PumpSwapFills

A payload is a length and its fields by offset. Layouts come from the PumpSwap
program (external); the offsets and length checks of the reads come from the
code, so a wrong offset reads `Garbage` or another field. `PumpSwapFills` takes
one instruction: a single-pool trade in each of its seven versions, or a
`multi_hop_swap` whose route is built hop by hop. The route is the truth; the
collector sees accounts, events and at most one balance row, and every fill is
compared with the truth. Hops can be on the canonical pool, on another pool of
the pair, on a bonding curve, or emit a payload that is cut short, and a route
may visit mints and pools again. Each hop adds its events to those of the
instruction, behind an event of another type and one of a pool no hop names;
what hops and single trades move, and how long an instruction's name is, are
constants. The data of an instruction that fails may be too short for its two
arguments. `MatchEvent` and `SkipEvent` are the iterations of the event loop.
For a failed route `Fails` finds the mint that is spent, `ChainHop` and
`ChainBreaks` are the iterations of `multi_hop_sides` and `RequestHop` that of
the last loop. Accounts that cannot be resolved are left out: `filter_map` would
drop their hop, and a transaction always holds its accounts. Within one
instruction the whitelist is constant; `AmmHandler` changes it between lookups.

### CpmmHandler and AltMints

A transaction is its sequence of swaps in execution order; the code sees
top-level calls first and sorts. A swap carries the reserves its pool has when
it begins; `ChainAssumption` says that within a transaction they are what the
swap before it on the pool left, and `SwapsAssumption` that all balances are
`u64`. `logged` swaps have their event in the log:
SwapEvent lines are equally long, so the log limit cuts a suffix. The two map
lookups of a swap are one step here: at most one of the two mints can be
tracked, the other lookup finds nothing at any time. An event is taken by its
pool, and a pool has two mints, one of them the tracked one, so the branch of
`cpmm_resolve_side` for an event of other mints is not reached and is left out. Events carry the vault
balances before the swap, net of the fees that lie in the vaults; token balances
include them. Sides, reserves and market cap follow from the event with the
code's saturation, for a small `U64Max`; the u128 product is `(U64Max + 1)^2 - 1`
wide.

### EventScan

The runtime builds a call tree and the flat list with stack heights; the scan
sees the list. A trade emits its trade event and notes, events of another type,
and may call other trades, directly or through another program; an instruction
of the AMM program may also be too short to pass for an event. `heights` is
false for metadata without stack heights, which the code accepts: then the scan
ends only with the list. TLC enumerates every tree of up to five inner
instructions within the runtime's height limit.

## 3. Runs

| Run | Checks | Result |
|---|---|---|
| `MCBatchInserter` | `NoRowLost`, `PipelineOrdered`, `StaleOnlyAfterSplit`, `ImplementsStore`, `EventuallySettled`, `ShutdownEnds` | hold, 145 k states |
| `MCBatchInserterStale` | `LatestDeliveryWins` | violated |
| `MCGrpcConnection` | `NoSilentGap`, `ResumesAtLastHandled`, `WaitNeverShrinks`, `EventuallyAccounted` | hold, 325 k states |
| `MCCollector` | `NothingForgotten`, `EventuallyCommitted` | hold, 313 k states |
| `MCCollectorReplay` | `ReceivedIsRedelivered` | violated |
| `MCAmmHandler` | `EmitsByScope`, `RowsByPosition` | hold, 715 k states |
| `MCAmmHandlerReplay` | `OneRowPerTrade` | violated |
| `MCCpmmHandler` | `AtomicPerKey`, `EventsAreOwn`, `VaultAmountsExactAlone`, `MarketCapExact`, `RecordsByScope` | hold, 258 k states |
| `MCEventScan` | `ChildEventsAreOwn`, `FindsOwnTradeEvent` | hold, 398 k states |
| `MCAltTrades` | `OneLastRowPerKey`, `LatestDecimalsWin`, `DecimalsNeverLost` | hold, 1.24 M states |
| `MCPumpSwapFills` | `EventFillsMatchRoute`, `FailedFillsMatchRoute`, `RoutedExactly`, `AmountsDecoded` | hold, 4.04 M states |
| `MCShutdown` | `WatchdogNeverFires`, `ExitLosesNothing`, `ProcessExits` | hold, 710 k states |

Each run that holds also checks the type invariant of its module.

### What the violations show

* `LatestDeliveryWins`: a flush of two chunks fails on the first and writes the
  second, which holds a replay of a key of the first. The retry puts the older
  delivery back. `StaleOnlyAfterSplit` says that this is the only way.
* `ReceivedIsRedelivered`: `alt_trades` rows can be in memory while
  `amm_trades` is committed further than the replay window ahead; a crash then
  loses them. `NothingForgotten` says exactly what is safe.
* `OneRowPerTrade`: `ix_index` counts the trades that passed the filters, so a
  replay with another whitelist shifts the numbers and a trade ends up under
  two keys. `RowsByPosition` says what the table then holds.

### What the limits of some properties mean

* `NoRowLost` has two exceptions, both of a task that has ended after shutdown
  was signalled: a `send()` to it fails, and rows its last flush failed to write,
  or that came after its drain, go with it. While the task runs nothing is lost.
* `EmitsByScope` measures a delivery against what the queries returned. If no
  refresh is at work during it, it emits exactly the recordable trades of the
  list in force. Between `clear()` and the last insert of a refresh a mint that
  `all_mints` has all the while is missing from the set and its trades are
  dropped: the property has to admit that (`overlap`), and without the exception
  TLC reaches the loss. The alt mint map is refreshed key by key and has no such
  gap (`RecordsByScope`).
* `ChildEventsAreOwn`: a trade that the AMM program calls directly is a direct
  child of that program, and with 16 bytes of data or more the filters let it
  through as if it were an event. What is not an event of its own is then told
  by the discriminator alone, which is enough (`FindsOwnTradeEvent`): in its place
  such an instruction has its first argument, an amount far below that number.
  Without stack heights the scan also returns what siblings and nested trades
  emit; `find_event_data` is right then if no other trade began before the
  trade's own event.
* `LatestDecimalsWin` has one exception: `coalesce_duplicate_rows` keeps the last
  row of a key whole, so decimals that only an earlier row of the same chunk had
  never reach the `COALESCE` of the statement. A later delivery that knows them
  repairs the row, since the columns are overwritten on every replay.
* `VaultAmountsExactAlone` speaks of the only swap on a pool: with several, and
  a cut log, the balances of the whole transaction give each the net amounts.
* `ExitLosesNothing` has three exceptions: the wait timed out, the database
  refused the last flush, or the ticker fired between `running.store(false)` and
  the end of the stream task. In the last case the inserter ends at once, and
  what the handlers still send is dropped, although the database is up.
* `FailedFillsMatchRoute`: for a one-hop route, or one that goes straight back,
  the mints do not tell the direction; the balance row does, and without it
  nothing is recorded. A route that does not chain as called can still be read
  in the other direction and is then recorded that way: the property only says
  that a route no path of mints fits leaves nothing.
* `RoutedExactly` is about routes whose hops all trade the same way, which is
  what the comment on `multi_hop_is_routed` presupposes.

### Bounds

* Inserter: two keys and four deliveries with a chunk of two give a flush of two
  chunks after a failed one, with the same key in both; a channel of two blocks.
  The flush threshold equals the chunk size as in the code. Keys are symmetric
  in the violation run only: the other one has liveness properties.
* Connection: the code's constants (10 attempts, 1 s, 60 s); 12 failures give up
  once and fail again; a slot with two transactions, an empty slot, and a
  transaction the handler refuses.
* Collector: four transactions in three of the slots 1..4, a window of one slot,
  so that rows fall inside and outside of it; two crashes.
* Handlers: two deliveries and one change of the list, so that a replay sees
  another list; a route with an unrecordable hop between two single trades;
  transactions of one to three swaps on accepted and rejected pools.
* alt_trades: three keys, so that a row between two others is replaced, two
  values of the decimals besides null, chunks of up to four rows.
* Fills: three hops are the shortest routes with a middle hop, with a pool
  visited again after another one, and with a curve hop between pool hops; four
  mints, two of them whitelisted. Reserves at 0, inside and at the top of a
  `U64Max` of 15, virtual reserves that push the sum below 0 and above it.
* Shutdown: the code's times in half seconds; two inserters; a channel of one and
  two rows per table, so that a row can be in the channel, in the buffer, in
  flight or still to be sent when the signal comes.

`CHECK_DEADLOCK FALSE` is set where the bounds, or the end of the process, stop
the system.

### Fairness

The inserter's arms are weakly fair: the ticker fires every 60 s and `select!`
chooses among ready arms at random. `InsertOk` is strongly fair: a database that
is tried again and again answers some day; without that nothing could be said,
and the code has no other way out than to retry. This includes the assumption
that an `INSERT` ends: the code sets no timeout on it. The connection manager's
own steps are weakly fair and the number of failures is bounded, so the network
is stable in the end. In `Shutdown` only `main` and the clock are fair: the
process must exit whatever the database, the stream and the inserters do. Sends, shutdown, pruning, crashes, the provider and
changes of the lists are not fair.

## 4. Proofs

A run explores one small instance; a theorem holds for every value of the
constants that satisfies the named `ASSUME`s of the module. The proof modules
extend the component they are about. Every safety invariant and action property
that a passing run checks is proved; `PROJECT.json` lists the
theorems. None of these properties is inductive as it stands. What each
invariant adds, and why:

**`BatchInserterProofs`**: `TypeOK`, `NoRowLost`, `PipelineOrdered`,
`StaleOnlyAfterSplit`, `ImplementsStore`, for every set of keys, every channel
capacity, flush threshold and chunk size. What is lost when the task ends follows
from `Leaving`: on every path to its end shutdown has been signalled, after the
drain all it holds is exposed, and before the end it has lost nothing. That an acknowledged chunk is really
gone from memory needs that the rows in memory have different numbers, and that
a new delivery is not settled yet needs that no number is above `sent`.
`PipelineInv` therefore views `retry`, `pending`, `buffer` and `chan` as one
sequence, `Pipeline`, in strictly increasing order and bounded by `sent`.
`QuietStep` shows that every step but three leaves it as it is; `SendKeeps`
appends to it, `AckKeeps` cuts a chunk out of it and `EndKeeps` empties it. The refinement
`StoreCorrect` follows: because the pipeline increases, the last row of a key in
a chunk is its latest delivery (`LastIsLatest`), which is what the abstract
upsert stores. For `StaleOnlyAfterSplit`, `WrittenInv` adds that without a split
flush the rows written but not acknowledged are in the chunk tried next
(`Ahead`), and those that left memory are older than all that remain (`Behind`).

**`ShutdownProofs`**: `TypeOK`, `WatchdogNeverFires`, `ExitLosesNothing`, for
any number of inserters and rows and all times with `DrainTimeout + Linger <
WatchdogAfter` (3 s + 0.5 s < 5 s in the code). `Sequence` bounds the clock by
the deadline of each wait and says that the handles before `awaited` have
resolved. `Rows` counts: what a table was offered is stored or in memory until
its inserter ends, and an inserter can only leave its loop when the stream is
gone or a tick ended it.

**`CollectorProofs`**, on the connection: `TypeOK`, `NoSilentGap`,
`ResumesAtLastHandled`, `WaitNeverShrinks`, for every assignment of transactions
to slots and every retry constant. `ResumesAtLastHandled` looks at the moments
between connections; `Inv` states the same of `from_slot` until the stream's
first transaction is handled and of the last handled slot from then on, and that
the cursor has not passed what was reached. On the whole process: `CTypeOK` and
`NothingForgotten`, for all streams, tables, windows, overrides and any number of
crashes, with partial flushes or without. `NothingForgotten` looks at the stream
under way; a disconnect replaces that by the resume point. `CInv` says that every
received and protected transaction that is held nowhere lies both at or after the
slot a later connection asks for and ahead of the cursor of the present one.
`CheckpointIs` and `HighestSlotIs` relate the checkpoint to the committed rows.

**`EventScanProofs`**: `TypeOK`, `ChildEventsAreOwn`, `FindsOwnTradeEvent`, for
call trees of every size and depth. `CallsNested` states how the flat list
encodes a call: after its caller, one level deeper, with everything in between
deeper than the caller. `StackNested` states the same of the calls under way.
`ChildrenAreCalls` gives from it that what the scan returns by height was called
by the instruction itself, and `OwnEvents` that nothing it emitted is missed.

**`AltTradesProofs`**: `TypeOK`, `OneLastRowPerKey`, `LatestDecimalsWin`,
`DecimalsNeverLost`, for all keys, values and chunk lengths. `PositionsInv`
makes the map the inverse of the keys of the vector, `LastRowsInv` says the
vector holds the last row of each key seen and no other; `NothingLearned` ties
the history to rows that exist. `UpsertSeesLast` relates what the statement gets
of a key to the chunk as it was delivered.

**`AmmHandlerProofs`**: `TypeOK`, `EmitsByScope`, `RowsByPosition`, for every set
of transactions, layout of instructions, whitelist and number of deliveries. The
one assumption on instructions is that a single-pool trade is one trade.
`EmitsByScope` speaks of the end of a delivery; `Sound` and `Complete` speak of
the instructions and hops passed so far, collected fills included. `ScopeInv`
relates the `DashSet` to the queries: at rest it is what the last query returned,
while it is cleared a part of what the one before returned, while it is filled
the last result without the rows to come. `RowsInv`
lets the first `trade_index` rows be the present delivery's and every other row
that of the last delivery that was long enough.

**`CpmmHandlerProofs`**: `TypeOK`, `AtomicPerKey`, `EventsAreOwn`,
`VaultAmountsExactAlone`, `MarketCapExact`, `RecordsByScope`, for transactions of
every length, every cut of the log and every integer width. The assumptions on
the data are that amounts and vault balances fit the width. `OrderIs` shows that
sorting the listed instructions gives the execution order. `EventsLeft` is the
heart of `EventsAreOwn`: the events left are in execution order, and of a pool
whose earlier swaps were all recorded they are exactly those of the swaps to
come, so the first match is the swap's own. `MarketCapIs` shows that the u128
product of two u64 never reaches its limit and that the quotient saturates.

**`PumpSwapFillsProofs`**: `TypeOK`, `EventFillsMatchRoute`,
`FailedFillsMatchRoute`, `RoutedExactly`, `AmountsDecoded`, for all mints and
whitelists, routes of every length, all amounts and reserves of any width and all
lengths of `ix_name`. The assumptions say that amounts and vault balances fit a
u64 (`U64Max`), that virtual reserves are integers, and that `NoMint` is no mint.
The properties speak of the end; what they need on the way there differs by
phase, and `Inv` has a conjunct for each:

* *events*: there is a hop `k` such that the events left hold the trades of the
  pool hops from `k` on, in order, and no other trade of the route
  (`EventsFrom`), and the fills list the recordable hops before `k` (`Lists`,
  `DoneBefore`). The code's `next_hop` is never beyond `k` but may lag behind it: a
  payload cut short does not advance it, and an event may be matched to the group
  of an earlier visit of its pool. `MatchEventKeeps` shows why that does no harm:
  the hop that traded is itself a match, so the first match is not beyond it, and
  groups that name one pool name the same mints and give the same fill (`Pools`).
* *sides*: each hop so far was fed what the one before passed on, and if the route
  chains the sides are its own (`SidesInv`). `SpentMint` shows that the mint found
  by `multi_hop_input_mint` is the one spent whenever the property says it can be
  told; `PathOfSides` turns the sides of all hops into a path of mints, so a route
  that no path fits never gets past this phase.
* *requests*: the fills list the recordable hops before `next_hop`.

`HopsRead` shows that the groups of five after the sixteen fixed accounts are
the hops, with up to four accounts behind them. `BuyReads`, `SellReads` and
`BoostReads` show what each read finds in each layout, and `ClampedIsPriced` that
the clamped sum is the one u64 nearest to the exact one.

What stays with TLC:

* the liveness properties `EventuallySettled`, `ShutdownEnds`,
  `EventuallyAccounted`, `EventuallyCommitted` and `ProcessExits`: fairness and
  `ENABLED` are out of the prover's reach;
* the three properties that are violated.

The proofs of `BatchInserter` and of `Collector` meet in `TradeStore`: the
first shows that the inserter implements it, the second uses two of them. That
`Collector`'s stores are those of two concrete inserters running side by side is
the composition of the two results and is not itself a theorem.

## 5. Not modelled

* The market cap of PumpSwap trades: `f64` arithmetic on the effective reserves,
  which TLA+ values do not have. The reserves it is computed from are modelled.
* Fees and tips: a pure scan of balances against a fixed catalogue, on which no
  other decision depends.
* Readonly mode beyond its filter, table creation and migration, pool
  configuration, logging, the parsing of the environment, the offline analysis:
  I/O, DDL and data.
* A silent half-open connection and a provider that refuses `from_slot` on the
  call itself: the code has no timeout and no branch for them, so there is
  nothing to check against.

## 6. Plan

Done: the core (inserter, store, connection, collector), both handlers, event
attribution, routes and amounts, the `alt_trades` statement, the shutdown, and
the proofs of every safety property of all of them. Possible extensions:

1. the composition of `Collector` with two concrete `BatchInserter`s as a theorem
   (now: the refinement of `TradeStore`, and `Collector` over `TradeStore`);
2. fee and tip extraction as operators, should a decision come to depend on them.
