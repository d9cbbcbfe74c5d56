----------------------------- MODULE LiveStream -----------------------------
(***************************************************************************)
(* The live path of the streamer: exchange events are gathered into        *)
(* one-minute builders (streaming.Aggregator, one per symbol, behind       *)
(* streaming.Manager), taken out at each minute boundary, buffered by the  *)
(* flusher and inserted into orderbook_bars, until a signal shuts the      *)
(* process down.                                                           *)
(*                                                                         *)
(* Goroutines: the websocket readers that call ProcessEvent; the bar       *)
(* ticker (startFlusherTicker); the flush ticker (Flusher.Start); the      *)
(* asynchronous flush that Add starts on a full buffer; main, which waits  *)
(* for the signal and runs Shutdown.  A step is what one goroutine does    *)
(* under one lock, or one database transaction.                            *)
(***************************************************************************)
EXTENDS Integers, FiniteSets

CONSTANTS Symbol,
          Async,         \* identities for goroutines started by Add
          MaxBatchSize,  \* flusher.max_batch_size
          DbErrors,      \* whether an insert may fail while the pool is open
          MaxMinute,     \* bound: minutes the clock runs
          MaxEvents      \* bound: events processed

ASSUME MaxBatchSizeAssumption == MaxBatchSize \in Nat \ {0}
ASSUME BoundAssumption == MaxMinute \in Nat /\ MaxEvents \in Nat
ASSUME DbErrorsAssumption == DbErrors \in BOOLEAN
ASSUME AsyncAssumption == {"flushTicker", "barTicker", "main"} \cap Async = {}

Minute  == 0..MaxMinute
Adder   == {"barTicker", "main"}              \* goroutines that call Add
Flusher == {"flushTicker", "main"} \cup Async \* goroutines that run Flush
Proc    == Adder \cup Flusher

\* One built bar: the part-th of its minute, with n events, covered or not.
BarRec == [sym : Symbol, min : Minute, part : Nat, n : Nat, cov : BOOLEAN]

VARIABLES
  clock,      \* the current wall-clock minute
  builders,   \* builders[s][m]: events in the open builder, 0 if there is none
  feedUp,     \* Manager.liquidationFeedAvailable
  buffer,     \* Flusher.buffer
  flushing,   \* Flusher.flushing
  armed,      \* the minute in which the bar ticker started its wait
  pc,         \* where each goroutine is
  toAdd,      \* bars an adder got from FlushAll and has not passed to Add
  taken,      \* bars a flusher swapped out and has not tried to insert
  cancelled,  \* Streamer.ctx is cancelled
  clientsUp,  \* the exchange clients run (Streamer.wg is not released)
  dbOpen,     \* the pool is not closed
  db,         \* bars inserted
  failed      \* bars whose insert returned an error: they are dropped

VARIABLES     \* history
  closed,     \* closed[s][m]: bars built for the minute
  onTime,     \* onTime[s][m]: events processed while m was the current minute
  quiet,      \* at main's Flush no other goroutine held bars or would add any
  budget      \* events still to come (bounded by MaxEvents)

history == <<closed, onTime, quiet, budget>>
vars == <<clock, builders, feedUp, buffer, flushing, armed, pc, toAdd, taken,
          cancelled, clientsUp, dbOpen, db, failed, history>>

TypeOK ==
  /\ clock \in Minute /\ armed \in Minute
  /\ builders \in [Symbol -> [Minute -> Nat]]
  /\ {feedUp, flushing, cancelled, clientsUp, dbOpen, quiet} \subseteq BOOLEAN
  /\ buffer \in SUBSET BarRec /\ db \in SUBSET BarRec /\ failed \in SUBSET BarRec
  /\ pc \in [Proc -> {"wait", "add", "flush", "insert", "idle", "exit",
                      "run", "drain", "closed"}]
  /\ toAdd \in [Adder -> SUBSET BarRec]
  /\ taken \in [Flusher -> SUBSET BarRec]
  /\ closed \in [Symbol -> [Minute -> Nat]]
  /\ onTime \in [Symbol -> [Minute -> Nat]]
  /\ budget \in 0..MaxEvents

Init ==
  /\ clock = 0 /\ armed = 0
  /\ builders = [s \in Symbol |-> [m \in Minute |-> 0]]
  /\ feedUp = FALSE
  /\ buffer = {} /\ db = {} /\ failed = {}
  /\ flushing = FALSE /\ cancelled = FALSE /\ clientsUp = TRUE /\ dbOpen = TRUE
  /\ pc = [p \in Proc |-> CASE p = "main" -> "run"
                            [] p \in Async -> "idle"
                            [] OTHER -> "wait"]
  /\ toAdd = [p \in Adder |-> {}]
  /\ taken = [p \in Flusher |-> {}]
  /\ closed = [s \in Symbol |-> [m \in Minute |-> 0]]
  /\ onTime = [s \in Symbol |-> [m \in Minute |-> 0]]
  /\ quiet = FALSE /\ budget = MaxEvents

Running == pc["main"] # "exit"   \* main returned: every goroutine is gone

-----------------------------------------------------------------------------
(* Events, clock and feed status *)

Tick ==
  /\ Running /\ clock < MaxMinute
  /\ clock' = clock + 1
  /\ UNCHANGED <<builders, feedUp, buffer, flushing, armed, pc, toAdd, taken,
                 cancelled, clientsUp, dbOpen, db, failed, closed, onTime, quiet, budget>>

\* An event is filed under the minute of its exchange timestamp, which is the
\* current one or, after the delay of the network, the one before.  Readers
\* are not waited for by Shutdown.
ProcessEvent(s, m) ==
  /\ Running /\ budget > 0
  /\ m \in Minute /\ m \in {clock - 1, clock}
  /\ builders' = [builders EXCEPT ![s][m] = @ + 1]
  /\ onTime' = IF m = clock THEN [onTime EXCEPT ![s][m] = @ + 1] ELSE onTime
  /\ budget' = budget - 1
  /\ UNCHANGED <<clock, feedUp, buffer, flushing, armed, pc, toAdd, taken, cancelled,
                 clientsUp, dbOpen, db, failed, closed, quiet>>

\* statusHandler: the market connection came up or went down.
SetLiquidationFeedAvailable(up) ==
  /\ Running /\ clientsUp /\ feedUp # up
  /\ feedUp' = up
  /\ UNCHANGED <<clock, builders, buffer, flushing, armed, pc, toAdd, taken, cancelled,
                 clientsUp, dbOpen, db, failed, closed, onTime, quiet, budget>>

-----------------------------------------------------------------------------
(* Manager.FlushAll and Flusher.Add *)

\* Mutant of FlushUpTo: the current minute is taken for a finished one.
FlushUpToNow == clock

FlushUpTo == clock - 1

\* The builders FlushAll takes out of the aggregators.
Due == {d \in Symbol \X Minute : d[2] <= FlushUpTo /\ builders[d[1]][d[2]] > 0}

Finalize(d) ==
  [sym |-> d[1], min |-> d[2], part |-> closed[d[1]][d[2]] + 1,
   n |-> builders[d[1]][d[2]], cov |-> feedUp]

FlushAll(p) ==
  /\ toAdd' = [toAdd EXCEPT ![p] = {Finalize(d) : d \in Due}]
  /\ builders' = [s \in Symbol |-> [m \in Minute |->
                    IF <<s, m>> \in Due THEN 0 ELSE builders[s][m]]]
  /\ closed' = [s \in Symbol |-> [m \in Minute |->
                    IF <<s, m>> \in Due THEN closed[s][m] + 1 ELSE closed[s][m]]]

OfSymbol(bars, s) == {b \in bars : b.sym = s}

\* The batch-size test reads stats.BufferedBars without its lock just after
\* storing the length there: a Flush that is inserting may have subtracted
\* from it in between.
SizeTest(len) ==
  {len >= MaxBatchSize} \cup
  (IF \E f \in Flusher : pc[f] = "insert" THEN {FALSE} ELSE {})

\* The identity a new goroutine gets does not matter.
SomeIdle == CHOOSE a \in Async : pc[a] = "idle"

\* Add of the bars of symbol s: at most one asynchronous flush at a time.
Add(p, s) ==
  LET bars == OfSymbol(toAdd[p], s) IN
  /\ bars # {}
  /\ toAdd' = [toAdd EXCEPT ![p] = @ \ bars]
  /\ buffer' = buffer \cup bars
  /\ \E full \in SizeTest(Cardinality(OfSymbol(buffer \cup bars, s))) :
       IF full /\ ~ flushing
       THEN /\ \E a \in Async : pc[a] = "idle"
            /\ pc' = [pc EXCEPT ![SomeIdle] = "flush"]
            /\ flushing' = TRUE
       ELSE UNCHANGED <<pc, flushing>>

-----------------------------------------------------------------------------
(* The bar ticker: startFlusherTicker *)

\* time.After(timeUntilNextMinute()): a minute boundary has passed.
BarTickerFire ==
  /\ Running /\ pc["barTicker"] = "wait" /\ clock > armed
  /\ FlushAll("barTicker")
  /\ pc' = [pc EXCEPT !["barTicker"] = "add"]
  /\ UNCHANGED <<clock, feedUp, buffer, flushing, armed, taken, cancelled, clientsUp,
                 dbOpen, db, failed, onTime, quiet, budget>>

BarTickerAdd(s) ==
  /\ Running /\ pc["barTicker"] = "add"
  /\ Add("barTicker", s)
  /\ UNCHANGED <<clock, builders, feedUp, armed, taken, cancelled, clientsUp, dbOpen, db,
                 failed, history>>

\* Mutant of BarTickerRearm: waits for the boundary after the next one.
BarTickerSkip ==
  /\ Running /\ pc["barTicker"] = "add" /\ toAdd["barTicker"] = {}
  /\ pc' = [pc EXCEPT !["barTicker"] = "wait"]
  /\ armed' = clock + 1
  /\ UNCHANGED <<clock, builders, feedUp, buffer, flushing, toAdd, taken, cancelled,
                 clientsUp, dbOpen, db, failed, history>>

\* All symbols added: the next wait lasts until the boundary after now.
BarTickerRearm ==
  /\ Running /\ pc["barTicker"] = "add" /\ toAdd["barTicker"] = {}
  /\ pc' = [pc EXCEPT !["barTicker"] = "wait"]
  /\ armed' = clock
  /\ UNCHANGED <<clock, builders, feedUp, buffer, flushing, toAdd, taken, cancelled,
                 clientsUp, dbOpen, db, failed, history>>

\* ctx.Done: either ready case of the select may be taken.
BarTickerExit ==
  /\ Running /\ cancelled /\ pc["barTicker"] = "wait"
  /\ pc' = [pc EXCEPT !["barTicker"] = "exit"]
  /\ UNCHANGED <<clock, builders, feedUp, buffer, flushing, armed, toAdd, taken, cancelled,
                 clientsUp, dbOpen, db, failed, history>>

-----------------------------------------------------------------------------
(* Flusher.Flush, by the flush ticker, an asynchronous goroutine or main *)

MayFlush(f) == pc[f] = IF f = "flushTicker" THEN "wait" ELSE "flush"

\* No other goroutine has bars in hand, and no ticker will run again.
OthersQuiet ==
  /\ pc["barTicker"] = "exit" /\ pc["flushTicker"] = "exit"
  /\ \A a \in Async : pc[a] = "idle"

\* Mutant of TakeBuffer: the buffer is not replaced.
TakeBufferShared(f) ==
  /\ taken' = [taken EXCEPT ![f] = buffer]
  /\ UNCHANGED buffer

\* Under bufferMu: swap the buffer for an empty one.
TakeBuffer(f) ==
  /\ taken' = [taken EXCEPT ![f] = buffer]
  /\ buffer' = {}

FlushSwap(f) ==
  /\ Running /\ MayFlush(f)
  /\ f = "flushTicker" => buffer # {}  \* else the tick changes nothing
  /\ TakeBuffer(f)
  /\ pc' = [pc EXCEPT ![f] = "insert"]
  /\ quiet' = IF f = "main" THEN OthersQuiet ELSE quiet
  /\ UNCHANGED <<clock, builders, feedUp, flushing, armed, toAdd, cancelled, clientsUp,
                 dbOpen, db, failed, closed, onTime, budget>>

\* The flush ticker passes the streamer's ctx, the others a background one.
CtxDone(f) == f = "flushTicker" /\ cancelled

\* One transaction per symbol.  Bars of a failed insert are not buffered again.
FlushInsert(f, s) ==
  LET bars == OfSymbol(taken[f], s) IN
  /\ Running /\ pc[f] = "insert" /\ bars # {}
  /\ taken' = [taken EXCEPT ![f] = @ \ bars]
  /\ \/ /\ dbOpen /\ ~ CtxDone(f)
        /\ db' = db \cup bars
        /\ UNCHANGED failed
     \/ /\ DbErrors \/ ~ dbOpen \/ CtxDone(f)
        /\ failed' = failed \cup bars
        /\ UNCHANGED db
  /\ UNCHANGED <<clock, builders, feedUp, buffer, flushing, armed, pc, toAdd, cancelled,
                 clientsUp, dbOpen, history>>

\* Mutant of StillFlushing: Flush clears the flag, whoever called it.
FlushingOver(f) == FALSE

\* The goroutine that Add started clears the flag after its Flush.
StillFlushing(f) == flushing /\ f \notin Async

FlushEnd(f) ==
  /\ Running /\ pc[f] = "insert" /\ taken[f] = {}
  /\ pc' = [pc EXCEPT ![f] = CASE f = "flushTicker" -> "wait"
                               [] f = "main" -> "closed"
                               [] OTHER -> "idle"]
  /\ flushing' = StillFlushing(f)
  /\ dbOpen' = IF f = "main" THEN FALSE ELSE dbOpen   \* database.Close()
  /\ UNCHANGED <<clock, builders, feedUp, buffer, armed, toAdd, taken, cancelled, clientsUp,
                 db, failed, history>>

FlushTickerExit ==
  /\ Running /\ cancelled /\ pc["flushTicker"] = "wait"
  /\ pc' = [pc EXCEPT !["flushTicker"] = "exit"]
  /\ UNCHANGED <<clock, builders, feedUp, buffer, flushing, armed, toAdd, taken, cancelled,
                 clientsUp, dbOpen, db, failed, history>>

-----------------------------------------------------------------------------
(* Shutdown *)

Signal ==
  /\ pc["main"] = "run"
  /\ pc' = [pc EXCEPT !["main"] = "drain"]
  /\ cancelled' = TRUE
  /\ UNCHANGED <<clock, builders, feedUp, buffer, flushing, armed, toAdd, taken, clientsUp,
                 dbOpen, db, failed, history>>

\* StartExchange sees ctx.Done and closes its client, which reports
\* Disconnected to the status handler before the WaitGroup is released.
ClientsClose ==
  /\ Running /\ cancelled /\ clientsUp
  /\ clientsUp' = FALSE
  /\ feedUp' = FALSE
  /\ UNCHANGED <<clock, builders, buffer, flushing, armed, pc, toAdd, taken, cancelled,
                 dbOpen, db, failed, closed, onTime, quiet, budget>>

\* s.wg.Wait() returned: FlushAll.
ShutdownFlushAll ==
  /\ pc["main"] = "drain" /\ ~ clientsUp
  /\ FlushAll("main")
  /\ pc' = [pc EXCEPT !["main"] = "add"]
  /\ UNCHANGED <<clock, feedUp, buffer, flushing, armed, taken, cancelled, clientsUp,
                 dbOpen, db, failed, onTime, quiet, budget>>

ShutdownAdd(s) ==
  /\ pc["main"] = "add"
  /\ Add("main", s)
  /\ UNCHANGED <<clock, builders, feedUp, armed, taken, cancelled, clientsUp, dbOpen, db,
                 failed, history>>

\* Mutant of ShutdownFlush: the buffer is flushed before all bars are added.
ShutdownFlushEarly ==
  /\ pc["main"] = "add"
  /\ pc' = [pc EXCEPT !["main"] = "flush"]
  /\ UNCHANGED <<clock, builders, feedUp, buffer, flushing, armed, toAdd, taken, cancelled,
                 clientsUp, dbOpen, db, failed, history>>

ShutdownFlush ==
  /\ pc["main"] = "add" /\ toAdd["main"] = {}
  /\ pc' = [pc EXCEPT !["main"] = "flush"]
  /\ UNCHANGED <<clock, builders, feedUp, buffer, flushing, armed, toAdd, taken, cancelled,
                 clientsUp, dbOpen, db, failed, history>>

Return ==
  /\ pc["main"] = "closed"
  /\ pc' = [pc EXCEPT !["main"] = "exit"]
  /\ UNCHANGED <<clock, builders, feedUp, buffer, flushing, armed, toAdd, taken, cancelled,
                 clientsUp, dbOpen, db, failed, history>>

\* The process is gone.
Terminated == ~ Running /\ UNCHANGED vars

-----------------------------------------------------------------------------
FlushStep(f) ==
  \/ FlushSwap(f)
  \/ \E s \in Symbol : FlushInsert(f, s)
  \/ FlushEnd(f)

BarTickerStep ==
  \/ BarTickerFire
  \/ \E s \in Symbol : BarTickerAdd(s)
  \/ BarTickerRearm

Next ==
  \/ Tick
  \/ \E s \in Symbol, m \in Minute : ProcessEvent(s, m)
  \/ \E up \in BOOLEAN : SetLiquidationFeedAvailable(up)
  \/ BarTickerStep
  \/ BarTickerExit
  \/ \E f \in Flusher : FlushStep(f)
  \/ FlushTickerExit
  \/ Signal
  \/ ClientsClose
  \/ ShutdownFlushAll
  \/ \E s \in Symbol : ShutdownAdd(s)
  \/ ShutdownFlush
  \/ Return
  \/ Terminated

Spec == Init /\ [][Next]_vars

\* Time passes, both tickers fire when due and every started flush runs on.
Fairness ==
  /\ WF_vars(Tick)
  /\ WF_vars(BarTickerStep)
  /\ \A f \in Flusher : WF_vars(FlushStep(f))

\* Add never waits for the database, so the bar ticker is done with it well
\* within the minute (only the bounded clock makes this worth saying).
PromptNext == Next /\ (pc["barTicker"] = "add" => UNCHANGED clock)

FairSpec == Init /\ [][PromptNext]_vars /\ Fairness

-----------------------------------------------------------------------------
(* Properties *)

Places == {<<"add", p>> : p \in Adder} \cup {<<"taken", f>> : f \in Flusher}
            \cup {<<"buffer">>, <<"db">>, <<"failed">>}

At(pl) == CASE pl[1] = "add"    -> toAdd[pl[2]]
            [] pl[1] = "taken"  -> taken[pl[2]]
            [] pl[1] = "buffer" -> buffer
            [] pl[1] = "db"     -> db
            [] pl[1] = "failed" -> failed

Bars == UNION {At(pl) : pl \in Places}

Id(b) == <<b.sym, b.min, b.part>>

\* The ledger the live path implements: what is built, stored and dropped.
Ledger == INSTANCE BarLedger WITH built <- Bars, stored <- db, dropped <- failed

\* Every bar FlushAll ever built is in exactly one place: with the goroutine
\* that is to Add it, in the buffer, in the hands of one Flush, inserted, or
\* dropped by a failed insert.  No interleaving of the bar ticker, the two
\* kinds of flush and Shutdown loses a bar in between or inserts it twice.
EveryBarInOnePlace ==
  \A s \in Symbol, m \in Minute : \A k \in 1..closed[s][m] :
    \E pl \in Places :
      /\ \E b \in At(pl) : Id(b) = <<s, m, k>>
      /\ \A q \in Places \ {pl} : \A b \in At(q) : Id(b) # <<s, m, k>>

\* Each bar is handed to the database once, and what became of it is final:
\* no flush that repeats, overlaps another or runs into the shutdown stores a
\* bar that an insert has already refused, or drops one that is stored.
KeepsLedger == Ledger!Spec

\* At most one asynchronous flush runs, and the flag says whether one does,
\* although Add sets it under flushMu and the goroutine clears it later.
OneAsyncFlush ==
  /\ \A a, b \in Async : pc[a] # "idle" /\ pc[b] # "idle" => a = b
  /\ flushing <=> \E a \in Async : pc[a] # "idle"

\* A minute is built only once it is over, so its first bar has all the
\* events that arrived in time: the row of the minute, which keeps the bar
\* with the most trades, never counts fewer than those.
OnTimeEventsTogether ==
  \A b \in Bars :
    /\ b.min < clock
    /\ b.part = 1 => b.n >= onTime[b.sym][b.min]

\* If, when Shutdown swaps the buffer, both tickers have ended and no flush
\* is under way, then on return every bar that was built is stored or was
\* refused by the database.
QuietShutdownKeepsAll ==
  ~ Running /\ quiet => Bars = db \cup failed

\* An event of a finished minute reaches the database, or its insert fails,
\* unless the process is shut down first.  (The last two minutes of the
\* bounded clock are left out: their boundary never comes.)
Settled(s, m) ==
  /\ builders[s][m] = 0
  /\ \A k \in 1..closed[s][m] : \E b \in db \cup failed : Id(b) = <<s, m, k>>

EventsReachDatabase ==
  \A s \in Symbol, m \in 0..(MaxMinute - 2) :
    (builders[s][m] > 0) ~> (Settled(s, m) \/ cancelled)
=============================================================================
