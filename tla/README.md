# Formal models of mdx

mdx collects market data of crypto exchanges. A long-running streamer turns
websocket events into one-minute order-book bars and price bars and stores them
in TimescaleDB; hydration tools rebuild the same bars from a vendor's hourly
parquet files; a cache serves bars to readers; a bridge turns trading commands
received over NATS into exchange orders.

This directory holds TLA+ models of the parts where concurrency, failure or
arithmetic at boundaries decide whether the stored data is right, the TLC
configurations that check them, and TLAPS proofs about some of them.

    tlc -workers 2 -config MCLiveStream.cfg MCLiveStream     # a run
    tlapm LiveStreamProofs.tla                               # the proofs of a module

## 1. Inventory

| component (source under `src/`) | state it keeps | operations | what makes it correct | module |
|---|---|---|---|---|
| `internal/db/market.go`, table `orderbook_bars` | rows keyed by (exchange, symbol, close time) | `InsertOrderbookBars` (deduplicate, upsert), `DeleteOrderbookBars`, `SetLiqUnknownRange`, `SetLiqBars`, two column backfills | a larger bar is never replaced by a smaller one; column groups stay consistent; coverage flag and volumes agree | `BarMerge`, `OrderbookStore` |
| live path: `orderbook/aggregator/streaming`, `orderbook/flusher`, tickers and `Shutdown` in `streamer/streamer.go` | builders per symbol and minute, feed status, buffer, flushing flag | `ProcessEvent`, `FlushAll`, `Add`, `Flush`, `Shutdown` | every bar is stored once or reported lost; minutes are complete when built; the flag tells what it says | `LiveStream` |
| `internal/ws/client.go`, `internal/ws/binance` | connections, generations, timers, reader goroutines, status | `Connect`, `Subscribe`, `readLoop`, `handleDisconnect`, `reconnect`, `Close` | lost connections come back; one reader per connection; books are reset; shutdown ends | `BinanceClient` |
| `internal/orderbook/pipeline`, `orderbook/aggregator` | hours left, the shared aggregator, counters | `Run`, `Process` | an hour written is complete and from one source; failed hours leave no trace; resume and cut skip only what they should | `HourPipeline` |
| `internal/orderbook/levelhist` | histogram and running reductions of a minute | `Add`, `Reduce`, `Apply` | incremental argmax and moments equal a scan; batch and live agree | `LevelHist` |
| the order book of both aggregators (`aggregator.go:152-237`, `streaming/aggregator.go:168-212`), fed by the row order of `parquet/reader.go` and of the Binance parser | book, warm flag, last update ids | `ProcessOrderBookUpdate`, `processOrderBookUpdate`, `ResetDepth` | no level outlives a gap; a snapshot and unbroken payloads give the exchange's book; samples are real spreads | `DepthLevels`, `DepthBook` |
| `internal/orderbook/treap` | search tree on prices, heap on random priorities, running depth | `Insert`, `Remove`, `Get`, `Min`, `Max`, `SumDepth` | is the function from prices to quantities it stands for | `Treap`, `DepthBookTreap` |
| price bars in the streamer (`streamer.go:247-375, 528-543`) | open trade bar per symbol, completed bars, NATS client | event handler, price flusher, `retryNATS`, `Shutdown` | every trade in exactly one bar; no minute is built twice | `PriceStream` |
| background jobs in the streamer (`streamer.go:545-835`) | timers, running flag, the hours of a sweep | order-book backfill, netflow, FRED; open-interest poller | a slot is lost only to a run that lasts over it; a delayed hour is captured | `StreamerJobs` (without the poller) |
| `internal/cache/price.go`, `memory.go`, table `price_bars`, `cmd/price` | chunks of minute bars by day, coarse bars by range; rows keyed by close time | `GetHistory`, monthly files, paged backfill, overwrite | answers are stored, rows are kept, no minute falls between days, months and pages | `PriceCache` |
| `internal/cache/orderbook.go` | windows of order-book bars | queries | an answer equals the table's | not modelled |
| `internal/trading/bridge.go`, `rest_connector.go`, signed calls of `rest/binance.go`, `cmd/exchange` | none between messages; position, leverage and orders are the exchange's | orders, `set_leverage`, `cancel` | at most one order per message, and a report; a close only reduces; the leverage is the one asked for | `OrderBridge` |
| `internal/trading/paper_connector.go` | paper balance and positions | `SubmitOrder`, `CancelOrder` | balances stay consistent | not modelled |
| `cmd/ob-backfill-liq` | progress table; per symbol a worker with an aggregator and a marker buffer | download, `SetLiqBars`, `SetLiqUnknownRange`, markers, `-reset` | a marked hour is written; volumes are whole | `LiqBackfill` |
| `internal/ws/bybit`, `internal/ws/hyperliquid` | connection, context, stopped flag, timer | `Connect`, `Subscribe`, `readLoop`, `reconnect`, `Close` | lost connections come back | `VenueClient` |
| parsers, REST clients, parquet reader, vendor API, NATS publisher, config, symbols, timeframe, reporting tools | none, or a connection | decoding, requests | input-output functions | not modelled |

How they interact. Websocket readers call the streamer's event handler, which
calls `Manager.ProcessEvent` under the manager's lock, publishes to NATS and
keeps price bars. At each minute boundary the bar ticker takes finished bars out
of the manager and gives them to the flusher; a flush ticker, or `Add` when a
buffer is full, writes them. A status handler tells the manager whether the feed
of liquidations is up. An hourly job runs the hydration pipeline on the previous
hour in overwrite mode, against the same table and the same pool; hydration
tools and the liquidation backfill are other processes on the same table.

Hard behaviours: several writers per row without a common transaction; lock-free
reads of connection pointers and statistics; goroutines started per loss and per
full buffer; timers that race answers; shutdown in the middle of any of these;
close-time keys against open-time windows; an aggregator shared by all hours of
a run; requests to the exchange whose answer is lost; failure of one of several
steps; payloads missing from a recording; files that appear late; runs that last
into their next slot. `PROJECT.json` lists them as hazards, each with its line.
Hazards outside that list, which no property covers: `wc.conn` is read without the
lock that clears it (`binance.go:263`, `Panic`); a report's size is the one asked for
(`bridge.go:309`); a file that is not published yet looks like one that never will
be (`ob-backfill-liq/main.go:139`). Hazards in the list that the code does not prevent name
no property; section 3 describes what the models show of them.

## 2. Modules

`BarMerge` - the column algebra: one upsert (`Merge`) and deduplication of a
batch (`Better`, `IsKept`). A column group is represented by the source its value
came from, since the properties ask whose numbers stand next to each other,
never which numbers they are; `trade_count` and `liq_covered` are compared by the
SQL and stay numbers. `WellFormed` says what `buildBar` of either aggregator can
produce. Used by `OrderbookStore` and `HourPipeline`.

`OrderbookStore` - the table of one symbol as one action per transaction.
`written` is a history variable: the bars submitted for a minute since its row
exists. A failing call rolls back and is a stutter.

`LiveStream` - the live path, a step being what one goroutine does under one lock
or one transaction. `builders` are `Aggregator.bars`, `feedUp` is
`Manager.liquidationFeedAvailable`, `buffer`, `flushing` and `taken` the flusher's
buffer, flag and swapped copies, `pc` the place of each goroutine. What an event
adds to a builder is abstracted to a count. Reading `stats.BufferedBars` after
its lock is released (flusher.go:60) is a data race with `Flush`; the test may
then come out false, which `SizeTest` allows.

`BarLedger` - what the live path promises, without goroutines and buffers: a bar that was
built is stored once, or dropped once because its insert failed. `KeepsLedger` maps
`LiveStream` to it (`Ledger`: what was ever built, `stored`, `dropped`).

`BinanceClient` - supervision, readers, timers and reconnects of the market
connection and the depth connections. Every `Subscribe` creates new depth
objects, the market object lives as long as the client, which is why the
former are numbered by attempt. `c.mu` is held through the whole of `Subscribe`
(`MuFree`); `wc.conn` is read without it. A nil dereference or a division by zero
is `Panic`, which ends the process.

`HourPipeline` - runs of the coordinator over hours, each in one of three modes,
and the rows they leave. Keys are close times. The shared aggregator is `agg`:
what a failed hour leaves there comes out of a later `Finalize` (`Leak` marks
volumes of a file nobody read). Missing files, failing reads, failing database
calls, crashes and live inserts are actions.

`LevelHist` - `Hist.Add` and `Reduce` for two paths (batch, live) fed with the
same trades in different orders. Prices and quantities are whole numbers, so sums
are exact; the code's are rounded floating-point numbers. Levels and points of control go by
the key of a price (`KeyOf`: the nearest, `Scale` prices to a key), range, values and moments by
the price itself, kept in accumulators as in the code (`volBuy` to `sumVP2`). `SumOver` sums
over keys in the bands of `Reduce`, and over trades in `ReductionsMatchTrades`.

`OrderBridge` - engine, NATS queue group, one bridge per daemon, the REST connector
and the account at the exchange. A daemon's handler is cut where it makes a
request (`leverage`, `lot`, `submit`, `cancel`) or replies, because another daemon,
a resting order or the end of a process can come between two of them. A request
is done, done with its answer lost, or refused. The account (`Executable`, `Moved`,
`Fill`) is the exchange's and external: a reduce-only order executes no more than
the opposite position. `raced`, `lost`, `unsized` and `times` are history: orders under which
another daemon changed the leverage, answers that never came, orders sent without a known
lot size, and how often the exchange accepted an order of a message. Quantities are whole
numbers, so the 1e-9 of a step that `quantizeDown` forgives makes no difference.

`PriceCache` - `price_bars` of one symbol, the history server's `GetHistory` with its
two memory caches, `cmd/price -overwrite` and the live price stream. NATS calls
the history handler for one request at a time (`req`); the overwriting process has a fetch of
its own (`tool`). Both are `fetch1mData`, cut where it asks the exchange (`Turn`: one month of
the loop, whose pages are stored as they come), where it deletes (`ToolDelete`) and where it
inserts (`ServerStore`, `ToolInsert`): delete and insert are transactions of their own, and the
server, the live stream and the end of the process (`ToolEnd`) come between them. Bars are
their close times; whether a row was stored complete (`final`) or while its minute was still
forming (`partial`) is all that is kept of its values. Days and months are multiples of
minutes, months all of one length. A fetch gets a monthly file for some of the past months and
a number of pages for the others; queries, deletes and inserts may fail. `last` and `lost` are
history: the latest answer, and the keys without a row because an insert failed or the
process ended after its delete.

`DepthLevels` - books as functions from prices to quantities, best prices, spreads,
depths. `DepthBook` is what both aggregators promise: the exchange changes its book
(`market`) in payloads with even ids; the vendor's file may lack payloads (`Lose`) and
holds snapshots, of a payload's id or between two; the live stream may be cut and comes
back with an empty book (`ResetDepth`). `rows` are the rows of the payload being read,
processed one by one in the order the reader or the parser gives them. `seen` and
`chained` are history.

`Treap` - the code's search tree: nodes, rotations, any priorities, the running `totalDepth`.
A pointer is the tree below it, and a method that recurs is a recursive function on `Tree`,
the trees with no more nodes on a path than there are prices. `DepthBookTreap` is
`DepthBook`'s aggregators with a treap for each side; `Book` is an instance of `DepthBook`
whose `book` is read off the treaps by `Find`, the exchange's actions are the instance's, and
`Refines == Book!Spec` says that the treaps implement the book. `KeptBook` has both side by
side, for the run and the proof.

`LiqBackfill` - the worker of one symbol of `cmd/ob-backfill-liq`. An iteration over an
hour is one step: only its two statements are seen by others. The vendor's files appear
at any time; downloads, reads (after any part of the volumes), statements and marker
writes fail; the process ends and starts again, with or without `-reset`; meanwhile the live
stream and the hydration upsert rows (`UpsertRow`) and the hydration deletes some
(`DeleteRow`). `fate`, `gaps` and `late` are history: how an hour was last processed, which
hours were marked unknown, which rows others changed afterwards.

`PriceStream` - the trade bars. A handler is one step under `tradeBarsMu`, but for the
publication, which it makes under that lock between queueing a bar (`completedMu`) and
opening the next; the flusher takes the queue (`hand`) and inserts one symbol after the
other (`todo` are those it has not come to). A bar is the set of its trades. `fate`
follows each trade.

`StreamerJobs` - order-book, netflow and FRED jobs, one goroutine each, with their slots
(`NextSlot`), the startup run and the sweep of the order-book job. A run of that job makes a
coordinator run for each symbol in turn; the model looks at one symbol, and the others take
time before `Begin` and after the last hour. `Begin` cuts the window to the hour of the
symbol's first row (`first`, `FromFirstRow`) or gives up; the coordinator then goes through
`hours` in order (`Current`; `SkippedWith` is its rule for hours without a file). Time is a
counter; `Tick` waits for timers that are due and for runs at `Limit`, a bound for TLC that
may be longer than the interval. `ended`, `failed`, `cut` and `due` are history.

`VenueClient` - the Bybit and Hyperliquid clients under `StartExchange`. Methods that hold
`c.mu` from end to end are one step; `reconnect` is `check`, `close`, `connect`, `subscribe`.

Proofs (section 5): `LiveStreamProofs`, `BinanceClientProofs`, `HourPipelineProofs`,
`OrderBridgeProofs`, `LiqBackfillProofs`; `TableProofs` for the two tables (`OrderbookStore`,
`PriceCache`), `AggregatorProofs` for what a bar is built from (`LevelHist`, `DepthBook`),
`StreamerProofs` for the streamer (`PriceStream`, `StreamerJobs`). The latter three extend two
modules each, which is why `PriceCache`, `LevelHist` and `StreamerJobs` have names like
`CacheInit`, `HistNext` and `JobsSpec`.

`MC*` - constants for TLC; `MCBooks` has the markets, and `MCDepthBook` lets the treaps move while `book`
shows the levels they stand for.

## 3. Runs

| run | instance | checks |
|---|---|---|
| `live_stream` | 2 symbols, buffer full at 2 bars, 3 minutes, 2 events, failing inserts, a shutdown anywhere, fair goroutines | `EveryBarInOnePlace`, `OneAsyncFlush`, `OnTimeEventsTogether`, `QuietShutdownKeepsAll`, `KeepsLedger`, `EventsReachDatabase` |
| `orderbook_store` | 2 minutes, 2 sources, 5 kinds of bar (one of degenerate trades), batches of up to 2 bars of a minute | `TypeOK`, `CoveredIffVolumes`, `LargestBarWins`, `OnePopulation`, `UpsertOnlyAdds` |
| `binance_client` | 2 Subscribe calls, 2 losses, any dial may fail, fair goroutines | `OneDriver`, `ConnectedWhileRead`, `OneConnectionPerBook`, `LossIsReported`, `LossIsRepaired`, `ShutdownEnds` |
| `hour_pipeline` | 3 hours of 2 minutes, days of 2 hours, 2 runs, 1 live bar | `WrittenHoursComplete`, `OverwrittenInsideUnmixed` |
| `level_hist` | 5 trades, prices of which two share a key, ties, a degenerate trade, all pairs of orders | `PocIsArgmax`, `ReductionsMatchTrades` |
| `order_bridge` | 2 daemons, 2 messages of 14 kinds, lot 2, fair handlers | `ExecutedOnce`, `OpensAtItsLeverage`, `ReportsAgreeWithExchange`, `QuantityTradable`, `CloseNeverFlips`, `EveryRequestAnswered` |
| `price_cache` | days of 2, months of 4 minutes, 2 requests (served or overwriting) over 3 ranges, 1 live bar | `AnswersStored`, `EmptySpanFetched`, `RowsKept` |
| `depth_book` | 4 prices, 4 books of the exchange, 2 payloads, file and stream, 2 priorities | `NoGhostLevels`, `SnapshotKept`, `SnapshotSpreadReal`, `Refines` |
| `liq_backfill` | 2 hours of 2 minutes, 2 runs, marker batches of 1, 2 writes of others | `MarkedHoursWritten`, `VolumesWhole` |
| `price_stream` | 5 trades, 2 symbols, 3 minutes, 2 processes | `EveryTradeInOneBar`, `MinutesBuiltOnce` |
| `streamer_jobs` | quarters of an hour, days of 2 hours, 10 quarters, any start, order-book runs of up to 5 quarters | `NoSlotLost`, `DelayedHourCaptured` |
| `venue_redial` | 3 connections, 1 failed dial, fair goroutines | refutes `KeptAlive` |

Why the bounds are enough. *Live*: two events suffice for two bars of one minute (a late event), for
bars of two symbols in one flush, and for a bar that arrives while another is inserted; two
identities for asynchronous flushes show that the second is never needed. *Store*: a row is a fold
of merges, which two or three bars per minute reach in all combinations, and a degenerate bar
before, after or in a batch with each of them; the theorems lift the bound. *Client*: the second
`Subscribe` is where leftovers of the first matter; the second loss is the first one after a repair.
*Pipeline*: an hour has an inner and a last minute; a run needs a next hour and the second day a
first hour; the second run meets the rows of the first. *Histogram*: equal volumes on different keys
are the only case where the order could matter, two prices of one key the only one where key and
price differ. *Bridge*: every race is between two daemons or an order and the one after it; the
sizes are rounded (3), tradable (4) and too small (1). *Prices*: the ranges lie within a day, over
its border and over that of a month; the second request meets the rows and caches of the first or
runs beside it, and one live bar can fall into each hole. *Book*: a gap needs a payload before and
one after it, and the first payload after the initial state is the one before; sides of up to four
levels are rotated both ways and emptied. *Liquidations*: the second hour is where leftovers of the
first and its last bar matter, the second run is the one that skips; with a batch of one each hour's
marker write can fail on its own, and the buffer then holds two; two writes of others are an upsert
over a processed row, or a delete and a new row. *Price bars*: a late trade, a trade two minutes
later and a second symbol; the second process meets the rows of the first. *Jobs*: a file is at most
two hours late, since the second sweep is the last; an order-book run of five quarters lasts over
its next slot, a startup run of netflow over its first one; 10 quarters hold three slots of the
order-book job and one of each slower job.

What the violated property shows. `KeptAlive` states the comment of `ws/client.go:34-35`.
`reconnect` of the Bybit and Hyperliquid clients calls `Close`, which cancels `c.ctx`, and
then `Connect(c.ctx)`: the new context is a child of a cancelled one, the dial fails, the
next timer does the same, and `StartExchange` waits for the shutdown all the while. A lost
connection of these two venues is never replaced.

What the models also show and no property claims.

Binance client: `handleDisconnect` schedules a reconnect unless a timer is recorded; `reconnect`
clears the timer only after a successful dial, so the first failed redial ends all attempts
(`LossIsRepaired` is stated without failed redials). The report of a loss is made after the timer is
armed and the locks are released (`Notify`): if it comes after the redial's Connected, the handler
takes a healthy stream for one that is reconnecting until the next loss, and `liq_covered` stays 0;
`ConnectedWhileRead` says that nothing else can stand after Connected. A `Subscribe` that fails at
the market dial sets the depth connections to nil while their readers use them, and empties the list
that a later depth reconnect divides by: `Panic` is reachable before the shutdown.

Live path and pipeline: bars that a ticker, a reader or an asynchronous flush holds when `Shutdown`
makes its one flush are lost (`QuietShutdownKeepsAll` speaks of a quiet one). The coverage flag is
the feed's status at the flush, so a minute with an outage is covered when the feed is back in time.
An overwrite's delete of `[H:00, H+1:00)` removes the bar that closes at H:00, which belongs to the
hour before and is not rebuilt; `WrittenHoursComplete` says that this bar is the only loss of an
hour whose insert came through. An hour whose insert fails, or whose run ends, after its delete
stays empty. Trades left by a failed hour come out of the next hour's `Finalize` with that hour's
flag (`Leak`), though never inside an hour that was overwritten.

Table: a bar whose trades are all degenerate has trades and no footprint; if it has the most
trades, its VWAP joins the footprint of another bar, contrary to the comment at
`market.go:226-231`. `OnePopulation` says that there is no other way to a stitched row.

Bridge: an order whose answer is lost is reported as an error and exists (`lost`); a leverage may be
changed by another daemon between setting it and the order (`raced`); when the lot size cannot be
fetched the quantity goes out as asked (`unsized`). `execute` falls back to the subject's action
when the payload has none, `translateOrder` does not: such a close goes out without `reduceOnly` and
may turn the position round. `CloseNeverFlips` holds for the others.

History: it is incomplete, although the exchange answered everything, when a day
has some of its bars (a day counts as present with its first), when it spans months
(the loop steps a month from the range's first day and takes of each file only that
calendar month), when it begins with the last minute of a day, or when a chunk cached
for a part of the day answers for all of it; `EmptySpanFetched` is stated for what
remains. A bar that is stored while it forms stays so, until an overwrite. A failed insert is
logged only, so answers and caches may hold bars the table does not (`lost`). An overwrite
deletes and inserts in two transactions: in the hole a live or served bar, a partial one as
well, may take the place of a row that was complete, and ON CONFLICT DO NOTHING keeps it; a minute
fetched while it was forming is deleted and stored as partial although a complete row was there; a
process that ends in the hole loses the rows. `RowsKept` and `AnswersStored` say that no other
minutes are concerned than those the process has in hand.

Order book: a snapshot whose id lies between two payloads is followed by a delta whose
previous id is not the snapshot's: the gap check resets the book again and what the
snapshot brought is lost (`chained` is FALSE after it). `NoGhostLevels` of the live feed
rests on the reset after a reconnect, which only the Binance client makes.

Liquidations: an hour whose file is not published yet gets a 404 like one that has none; it
is wiped and marked, so later runs skip it (`NoSource`; the default end of the range is a
fixed date). Marking hour H unknown takes the last bar of hour H-1, even one just
written from its file (`TakenByNext`), and leaves H's own last bar.

Price bars: what is open or queued at a shutdown is lost (`fate` "ended"); a trade that is
late by a minute is merged into the bar that is open then; a row the history server
stored first keeps the live bar out ("kept out").

Jobs: the order-book job gives each of some hundred symbols 30 minutes, one after the other, so
a run may last over its next slots, which are lost (`NoSlotLost`: only to such a run). A startup
run of netflow that lasts over the first slot is followed at once by that slot's run; its timeout of
20 minutes kills `uv`, but `CombinedOutput` still waits for a child that holds the pipe. The first
hour of a sweep without a file takes the rest of its day with it (`SkippedWith`), so the second
hour may be swept once only, contrary to `cmd/stream/main.go:14`. Hours before the first row of
the symbol are dropped (`cut`), also those whose file is there: a new symbol whose live stream
wrote before its first sweep never gets them. `DelayedHourCaptured` is what remains.

Found by reading and left out of the runs: `Shutdown` calls the same `FlushAll` as the
ticker, so the open minute is dropped although the comment at
`streaming/aggregator.go:263` has a bound for shutdown; in resume mode the last bar
of an hour makes the next hour look processed; a
retried `Subscribe` resets no book; open and close of a minute do depend on the
order of trades, and a resent trade is counted again, unlike the comment at
`levelhist.go:9-11`; bars of all venues go into one open trade bar per symbol, which is
stored as Binance's; the Bybit `orderbook.1` and Hyperliquid `bbo` rows are inserted as
levels that nothing removes, and neither client resets books; prices below 0.0001
share a treap key; the order-book job runs in one goroutine, so
its running flag never refuses; the retries of `StartExchange` after a failed
`Subscribe` run beside the client's own reconnect.

## 4. Fairness

`LiveStream!FairSpec`: time passes; the bar ticker and every started flush make
progress (weak fairness per goroutine: nothing else can disable a goroutine that
has been scheduled, locks are held for bounded work). `PromptNext` says that the
bar ticker finishes its `Add` calls within the minute: they only append under a
lock. No fairness for events, the feed, or the signal.

`BinanceClient!FairSpec`: the supervisor, whatever drives a connection (its reader, or its timer
and the reconnect goroutine, of which one at a time has a step to take) and the readers with a
report still to make are scheduled; a blocked read is not enabled and a dial ends
within its handshake timeout. The network owes nothing: neither `Break` nor
`Cancel` is fair, and dials may fail at every attempt.

`VenueClient!FairSpec`: the supervisor, the readers and the timer with its goroutine go
on; the network owes nothing, except that at most `MaxDialFailures` dials fail, so that
the refutation is not one of dials that fail for ever.

`OrderBridge!FairSpec`: each daemon's handler goes on (`submitTimeout` of 30 s bounds every
request) and NATS calls it for the next message when it returns. Neither the
engine nor the exchange nor the end of a process is fair.

## 5. Proofs

Each safety property, action property and refinement of a passing run is a theorem, for every
value of the constants the assumptions allow; liveness is not (end of this section). The argument is
the same everywhere: an inductive invariant (first part of the module), a lemma per action or per
conjunct, and a last step that combines them. TLC has checked each invariant on the instance of its
run; of `KeptInv`, whose `Stands` it cannot enumerate, what it comes to (search order and sums).
Why the properties are not inductive themselves, and what the invariants add:

*Live path* (`LiveStreamProofs`; any symbols, events, minutes and asynchronous flushes). A bar
is in one place because bars have identities, numbers per minute that are all used
(`Numbered`, `Used`, `Apart`), and because a goroutine holds bars only where it is about to
add or insert them (`Control`). Every step leaves bars where they are, moves some, or builds
new ones for an adder that holds none (`StepKinds`). `Open` says that a minute is closed only
when it is over, which `OnTimeEventsTogether` needs, and `Quieted` carries a quiet
shutdown from the last swap to the end. `ImplementsLedger` is the refinement: `BarLedger`'s
`Build` is `FlushAll`, its `Settle` the end of an insert; the rest stutters. The specification of
the run is `Spec` with fairness, so the theorems hold of it.

*Binance client* (`BinanceClientProofs`; any number of Subscribe calls and losses). `Held` is
the hand-over of a connection from its reader to the timer, from the timer to the reconnect
goroutine and from that to the next reader; `OneDriver` follows. After `Close` a goroutine may
run whose timer is forgotten, which is why `Held` has the exception `Stopped`. `Beginnings`
says what the connections of later `Subscribe` calls look like before these; without it their
leftovers could be there already. `Outdated` says that the reports still to be made are of losses
before the connection that is read or about to be, which `ConnectedWhileRead` needs, since they
may come at any time; `BookTrue` is the other property one step earlier, when the next reader is
about to start.

*Hydration* (`HourPipelineProofs`; any length of hours, ranges, runs and live bars). What could
spoil an hour that was written is another hour's delete or the trades a failed hour left in
the aggregator. The hours of a run go upwards (`InOrder`), what is left in the aggregator
belongs to failed hours before all that are to come (`Gathered`, `Leftover`), and the bars in
hand are the present hour's, complete, and such leftovers (`InHand`). Keys of different hours
are disjoint, and only the last key of an hour is in the next one's delete.

*The table `orderbook_bars`* (`TableProofs`; any minutes, sources and well-formed bars). `IInv`
adds to the properties that a row exists exactly when bars were submitted for it and that a
minute without a row has no history, without which `LargestBarWins` says nothing of the
merge partner. The lemmas follow one upsert (`FreshRow`, `MergedRow`, `UpsertedRow`), one batch
(`KeptIsLargest`) and one minute of the liquidation statements. `RowInv` keeps, for a row whose
footprint and VWAP differ, the bar without a footprint that the VWAP is of, whatever bar is the
larger one; nothing is assumed of the bars but what `buildBar` makes.

*Price cache* (`TableProofs`; any lengths of days, months and pages, any ranges, any number of
requests). A bar the server has answered stays `Covered`: it has a row, or the overwriting process
has it in hand between its delete and its insert, or it is lost. What that needs of the process
is that it deletes no minute it does not hold: each part it fetches is an interval of keys
(`ZipIsInterval`, `PagesAreInterval`), so from its first to its last bar there is nothing
else. `CacheInv` also says that what the server has had and got while it is still fetching is
`Covered`, since its answer and its caches are made of that after any number of steps of the
others. `RowsTheorem` follows step by step (`RowStep`): every write but the process's delete only
fills empty places. `EmptySpanTheorem` carries `LeavesNothingOut` through the fetch and is the
arithmetic of days, months and pages: a span without rows is one range (`OneMissingRange`), its
first turn starts with the day, and that is in the span's month since a month begins with a
day (`MonthBeginsBefore`), so the file, or `Pages` pages, reach to the end
(`FirstTurnBringsAll`, `PagesCover`).

*Histogram* (`AggregatorProofs`; any prices and trades, any number of paths). `PocIsArgmax` is
not inductive: an argmax of volume zero could hold any key, and the side that did not trade
would replace a higher one. `Tracks` says that an untouched argmax has key 0; `ConsiderKeeps`
carries it over `Add`, because volume grows at the traded key only. `PocParity` says that the
points of control depend on the histogram alone, `CountAndRangeTheorem` that high, low and
count depend on the set of trades alone. `ReductionsMatchTrades` (when no trade is given to a
path twice, `~ Resend`) needs more than the sums it names: `SumInv` says that the histogram sums
to the trades over every set of keys (`SumsMatch`) and that each accumulator is the sum of its
trades (`PathSums`), so a trade changes both sides of each equation by the same amount
(`SumsMatchAdd`, `SumAddTrade`); the levels are the keys of the trades (`LevelsAreKeys`). With it
`SameRowTheorem`: two paths with the same trades, in whatever orders, give the same reductions.

*Book* (`AggregatorProofs`; any prices, quantities and books of the exchange). Between the read
of a payload and its first row the book may hold ghosts; either every level is the exchange's
or has a row to come (`Clean`), or the payload is not begun and every row of it would reset
the book (`Resets`). For snapshots: while `chained`, either all of it is still to come
(`Coming`), or the book is exact up to the rows to come and none of them resets it. `Ids` orders
the ids of exchange, payload and aggregator, without which a reset could not be told from a
first row. `SpreadTheorem` (an action property) adds `Loading`: of a snapshot half read, the
book has the rows with the lower prices; the first ask met is then the best, and there is
none before all bids are in.

*Treap* (`AggregatorProofs`; any finite set of prices, any quantities and priorities).
`TreapTheorem` is the refinement. `KeptInv` says that each side is a search tree which keeps
the levels it shows, and that `totalDepth` is their sum; of priorities it needs nothing, since a
rotation keeps the order whichever way they compare. The recursive functions are unfolded by
building them height after height (`FindUnfolds`, `InsertUnfolds`, `RemoveUnfolds`). `Stands` is
the least set of pairs of a tree and its levels that is closed under joining a left and a right
part at a price (`Between`, `Join`); to be shown of every search tree is then what defines a closed
set, and one lemma per method says which pair comes out (`InsertStands`, `RemoveStands`,
`FindStands`). A tree that stands for n levels has at most n nodes on a path, hence inserts never
leave `Tree`. `KeptStep` maps every step to one of `DepthBook` or a stutter, so the
theorems of *Book* hold of the code's representation too.

*Bridge* (`OrderBridgeProofs`; any daemons, messages, lots and leverages). A report is true only
because its message was in one place all the time: `Future` (not sent: nowhere), `Places` (in one
inbox, untouched), `Handled` (what a daemon knows of the message in hand at each request),
`ClosesReduce`. `PlacedChange` and `ReportChange` say which steps touch an order or a report,
`Alone` that nobody else has the message in hand, from `OneOwner` (the queue group). `ExecutedOnce`
needs all of it: `Counted` ties `times` to the order that is there, and the daemon at the submission
finds none, since nobody else had the message and it has been there only once. `Terms` is a second
invariant on top, for what an order is sent with: the quantity is measured and the leverage set in
earlier requests, so `Measured` and `Geared` follow them to the submission and `UnsizedKept` the lot
sizes that were not known; `Running`, that a daemon that has ended handles nothing, is there because
another daemon marks only living ones when it changes the leverage. That the exchange honours
`reduceOnly` is in the model of the account.

*Liquidations* (`LiqBackfillProofs`; any lengths, ranges, files and marker batches). `Behind`
says that volumes left by a failed read belong to hours before the one at hand, hence those of
the hour being read are its file's. `KeysDisjoint` and `UnknownReach` are the arithmetic of the
hours: marking one unknown reaches a single bar of another, the last of the hour before. A write
of others is one of a whole row (`UpsertedWhole`) and makes its key `late` if it changes a
processed row (`OtherStep`).

*Price bars* (`StreamerProofs`; any trades, symbols and processes). `Placed` is
`EveryTradeInOneBar` without counting: a delivered trade has a place, and no two. It is kept
because a publication is of the bar that is still open (`Shapes`). `Ahead` says that whatever
was queued, taken, published or stored by this process is behind the open bar of its symbol;
then a bar that is queued is after all of them (`MinutesBuiltOnce`).

*Jobs* (`StreamerProofs`; any cadences, lengths of runs and minute of start). `Timed` says of a
job that waits that its slot is the first one after its last run was over, or after its startup
run began, and of one that runs where its run began. `AtSlot` numbers the slots, which are the
times with `IsSlot` (`SlotNumbers`, `NumberedSlots`); `FirstSlot` is the arithmetic of `NextSlot`:
between a time and the next slot there is none. `Awaited` says where an hour is whose file was
there at its second slot, if no run was in the way: rebuilt, failed, cut, or still before the
sweep, which is the one of that slot (`SecondSlots`, `SlotIsNext`). A skipped hour does not
take the second one along, because the hours that are skipped with one come after it and the
second sweep's hour is the first of its run.

Assumptions: those the modules name, which TLC evaluates in the runs. Most say that constants are
numbers and that markers (`NoRow`, `NoBar`, `None`, `Null`) are no data. With more content:
`BarAssumption` (bars are what `buildBar` makes), `ShapeAssumption` of `PriceCache` (a month begins
with a day), `TreapAssumption` (the prices an exchange quotes are finitely many), `FeedAssumption`,
`AsyncAssumption`, `QuoteAssumption` of `LevelHist` (prices are positive) and `TimeAssumption` of
`StreamerJobs` (the order-book job is hourly, slots lie within their interval; it says nothing of
how long runs last).

Sums and recursive functions are reasoned about without the library's induction theorems,
whose operator parameters the provers cannot instantiate: by the least closed set of the cases in
question, or by a set of natural numbers without a least counterexample.

Only model-checked: the liveness properties `EventsReachDatabase`, `LossIsReported`,
`LossIsRepaired`, `ShutdownEnds` and `EveryRequestAnswered`, since their fairness needs ENABLED.
Not proved either: that priorities form a heap, on which only the speed of the treap depends.

## 6. Not modelled

`internal/cache/orderbook.go`: nothing outside its tests constructs it.
`internal/trading/paper_connector.go`: only `cmd/trade` uses it, one command per process, so
no sequence of calls meets one instance. The open-interest poller: one independent
request per symbol and tick. `BackfillFundingHistory`, `BackfillOpenInterestChange` and
`cmd/prune`: one SQL statement each, run by hand. `Unsubscribe` and the confirmation maps of
the venue clients: nothing calls or reads them.

Parsing beyond the order of depth rows, REST and its decoding, parquet columns, NATS
publication, configuration, queries and reporting tools keep no state the properties
are about. Floating-point rounding. The contents of depth books in `LiveStream` (they are
`DepthBook`'s). Rows of the tables other than by (symbol, minute); several exchanges.

## 7. Plan

1. Models: the bridge's report of the executed size; eviction from the caches; a round of the
   bar ticker that lasts over a minute boundary.
2. Abstract specifications: the stored bars of `LiveStream` as a refinement of a
   set that only grows; the rows of `HourPipeline` and `LiqBackfill` as steps of
   `OrderbookStore`.
3. Proofs: that the writers of `orderbook_bars` in `HourPipeline` and `LiqBackfill` take steps of
   `OrderbookStore`, once (2) states it; `TypeOK` and the hand-over of `VenueClient`; that
   priorities form a heap.
