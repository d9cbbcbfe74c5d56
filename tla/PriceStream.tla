---------------------------- MODULE PriceStream ----------------------------
(***************************************************************************)
(* The price bars of the live stream (streamer.go, makeEventHandler and    *)
(* startPriceBarFlusher): the websocket readers' trades build one open bar *)
(* per symbol; a trade of a later minute completes it, queues it for the   *)
(* minute's insert into price_bars and publishes it on NATS.               *)
(*                                                                         *)
(* A bar is the set of its trades: prices and volume are functions of it.  *)
(***************************************************************************)
EXTENDS Integers, Sequences, FiniteSets

CONSTANTS Symbol,
          Trade, SymbolOf, MinuteOf,   \* the trades; minutes by close time
          None,
          MaxRuns                      \* bound on the processes

ASSUME TradeAssumption ==
  /\ SymbolOf \in [Trade -> Symbol] /\ MinuteOf \in [Trade -> Nat]
  /\ MaxRuns \in Nat \ {0}

VARIABLES tradeBars,      \* per symbol the open bar
          completedBars,  \* bars that wait for the flusher
          pub,            \* the bar a handler publishes under tradeBarsMu, and its trade
          nats,           \* the NATS client exists
          published,      \* per symbol, what subscribers were sent
          hand,           \* barsToFlush: what the flusher took,
          todo,           \*   and the symbols of it that are still to be inserted
          flusher,        \* "waiting", "inserting" or "stopped"
          cancelled,      \* s.ctx
          rows,           \* price_bars
          run,            \* number of the process
          fate            \* history: what became of a trade

bars == <<tradeBars, completedBars, pub>>
taken == <<hand, todo>>
vars == <<bars, nats, published, taken, flusher, cancelled, rows, run, fate>>

\* The writer of a row: none, the price cache, or the number of a process.
NoRow == 0
Cache == -1

Minute == {MinuteOf[t] : t \in Trade}
Bar == [symbol : Symbol, time : Minute, trades : SUBSET Trade]
Publication == [bar : Bar, trade : Trade]
ASSUME NoneAssumption == None \notin Bar /\ None \notin Publication
Fates == {"none", "delivered", "stored", "kept out", "failed", "ended"}

TypeOK ==
  /\ tradeBars \in [Symbol -> Bar \cup {None}]
  /\ completedBars \in Seq(Bar)
  /\ pub \in Publication \cup {None}
  /\ nats \in BOOLEAN /\ cancelled \in BOOLEAN
  /\ published \in [Symbol -> Seq(Minute)]
  /\ hand \in Seq(Bar) /\ todo \subseteq Symbol
  /\ flusher \in {"waiting", "inserting", "stopped"}
  /\ rows \in [Symbol -> [Minute -> -1..MaxRuns]]
  /\ run \in 1..MaxRuns
  /\ fate \in [Trade -> Fates]

NoBars == [s \in Symbol |-> None]
Nothing == [s \in Symbol |-> <<>>]

Init ==
  /\ tradeBars = NoBars /\ completedBars = <<>> /\ pub = None
  /\ nats \in BOOLEAN /\ published = Nothing
  /\ hand = <<>> /\ todo = {} /\ flusher = "waiting" /\ cancelled = FALSE
  /\ rows = [s \in Symbol |-> [m \in Minute |-> NoRow]]
  /\ run = 1
  /\ fate = [t \in Trade |-> "none"]

-----------------------------------------------------------------------------
(* The event handler, called by any reader *)

Opened(t) == [symbol |-> SymbolOf[t], time |-> MinuteOf[t], trades |-> {t}]

\* Mutant of Starts: a bar for every trade of another minute.
StartsOther(bar, t) == bar = None \/ bar.time # MinuteOf[t]

\* The trade is of a later minute than the open bar.
Starts(bar, t) == bar = None \/ bar.time < MinuteOf[t]

\* A reader has the trade; tradeBarsMu is free.
Delivery(t) ==
  /\ fate[t] = "none" /\ pub = None
  /\ fate' = [fate EXCEPT ![t] = "delivered"]
  /\ UNCHANGED <<nats, published, taken, flusher, cancelled, rows, run>>

\* The symbol's first trade.
OpenFirst(t) ==
  /\ Delivery(t)
  /\ tradeBars[SymbolOf[t]] = None
  /\ tradeBars' = [tradeBars EXCEPT ![SymbolOf[t]] = Opened(t)]
  /\ UNCHANGED <<completedBars, pub>>

\* A trade of the bar's minute, or a late one of a minute before.
MergeTrade(t) ==
  /\ Delivery(t)
  /\ ~ Starts(tradeBars[SymbolOf[t]], t)
  /\ tradeBars' = [tradeBars EXCEPT ![SymbolOf[t]].trades = @ \cup {t}]
  /\ UNCHANGED <<completedBars, pub>>

\* A trade of a later minute queues the open bar.
Complete(t) ==
  LET bar == tradeBars[SymbolOf[t]] IN
  /\ Delivery(t)
  /\ bar # None /\ Starts(bar, t)
  /\ completedBars' = Append(completedBars, bar)
  /\ pub' = [bar |-> bar, trade |-> t]
  /\ UNCHANGED tradeBars

\* ... publishes it, which may fail unnoticed, and opens the next.
PublishAndOpen ==
  /\ pub # None
  /\ LET s == pub.bar.symbol IN
     /\ \/ nats /\ published' = [published EXCEPT ![s] = Append(@, pub.bar.time)]
        \/ UNCHANGED published
     /\ tradeBars' = [tradeBars EXCEPT ![s] = Opened(pub.trade)]
  /\ pub' = None
  /\ UNCHANGED <<completedBars, nats, taken, flusher, cancelled, rows, run, fate>>

\* retryNATS succeeds.
SetNATS ==
  /\ ~ nats /\ ~ cancelled /\ nats' = TRUE
  /\ UNCHANGED <<bars, published, taken, flusher, cancelled, rows, run, fate>>

-----------------------------------------------------------------------------
(* The flusher *)

Kept == UNCHANGED <<tradeBars, pub, nats, published, cancelled, run>>

\* barsBySymbol.
Group(s) == {i \in DOMAIN hand : hand[i].symbol = s}
TradesOf(I) == UNION {hand[i].trades : i \in I}

\* Mutant of Taken: the queue is not emptied in the same critical section.
TakenShared == completedBars
\* What the queue is after the flusher took it.
Taken == <<>>

\* A tick: all completed bars are taken.  Also when the context is done,
\* since select may choose either case.
FlushTake ==
  /\ flusher = "waiting"
  /\ hand' = completedBars /\ todo' = {completedBars[i].symbol : i \in DOMAIN completedBars}
  /\ completedBars' = Taken
  /\ flusher' = "inserting"
  /\ Kept /\ UNCHANGED <<rows, fate>>

\* InsertPriceBars of one symbol: ON CONFLICT DO NOTHING.
InsertPriceBars(s) ==
  LET new == {i \in Group(s) : /\ rows[s][hand[i].time] = NoRow
                               /\ \A j \in Group(s) : j < i => hand[j].time # hand[i].time} IN
  /\ rows' = [rows EXCEPT ![s] = [m \in Minute |->
                IF \E i \in new : hand[i].time = m THEN run ELSE @[m]]]
  /\ fate' = [t \in Trade |-> CASE t \in TradesOf(new) -> "stored"
                                [] t \in TradesOf(Group(s)) \ TradesOf(new) -> "kept out"
                                [] OTHER -> fate[t]]

FlushInsert(s) ==
  /\ flusher = "inserting" /\ s \in todo
  /\ \/ InsertPriceBars(s)
     \/ /\ fate' = [t \in Trade |-> IF t \in TradesOf(Group(s)) THEN "failed" ELSE fate[t]]
        /\ UNCHANGED rows
  /\ todo' = todo \ {s}
  /\ UNCHANGED <<hand, flusher, completedBars>> /\ Kept

FlushEnd ==
  /\ flusher = "inserting" /\ todo = {}
  /\ flusher' = "waiting" /\ hand' = <<>>
  /\ UNCHANGED <<todo, completedBars, rows, fate>> /\ Kept

FlushExit ==
  /\ flusher = "waiting" /\ cancelled
  /\ flusher' = "stopped"
  /\ UNCHANGED <<taken, completedBars, rows, fate>> /\ Kept

-----------------------------------------------------------------------------
(* The process and the other writers *)

\* Shutdown cancels the context; neither the flusher nor the open bars are
\* waited for.
Shutdown ==
  /\ ~ cancelled /\ cancelled' = TRUE
  /\ UNCHANGED <<bars, nats, published, taken, flusher, rows, run, fate>>

\* The process ends, by Shutdown or a crash, and another one starts.
Restart ==
  /\ run < MaxRuns /\ run' = run + 1
  /\ tradeBars' = NoBars /\ completedBars' = <<>> /\ pub' = None
  /\ nats' \in BOOLEAN /\ published' = Nothing
  /\ hand' = <<>> /\ todo' = {} /\ flusher' = "waiting" /\ cancelled' = FALSE
  /\ fate' = [t \in Trade |-> IF fate[t] = "delivered" THEN "ended" ELSE fate[t]]
  /\ UNCHANGED rows

\* The price cache stores a bar it fetched of one of the symbol's minutes.
OtherInsert(s, m) ==
  /\ \E t \in Trade : SymbolOf[t] = s /\ MinuteOf[t] = m
  /\ rows[s][m] = NoRow
  /\ rows' = [rows EXCEPT ![s][m] = Cache]
  /\ UNCHANGED <<bars, nats, published, taken, flusher, cancelled, run, fate>>

Handle == \E t \in Trade : OpenFirst(t) \/ MergeTrade(t) \/ Complete(t)
Insert == \E s \in Symbol : FlushInsert(s)

Next ==
  \/ Handle \/ PublishAndOpen \/ SetNATS
  \/ FlushTake \/ Insert \/ FlushEnd \/ FlushExit
  \/ Shutdown \/ Restart
  \/ \E s \in Symbol, m \in Minute : OtherInsert(s, m)

Spec == Init /\ [][Next]_vars

-----------------------------------------------------------------------------
(* Properties *)

\* The bars a trade is in, wherever they are now.
OpenWith(t) == {s \in Symbol : tradeBars[s] # None /\ t \in tradeBars[s].trades
                               /\ (pub = None \/ pub.bar.symbol # s)}
QueuedWith(t) == {i \in DOMAIN completedBars : t \in completedBars[i].trades}
TakenWith(t) == {i \in DOMAIN hand : hand[i].symbol \in todo /\ t \in hand[i].trades}
ArrivingAs(t) == {x \in {pub} \ {None} : x.trade = t}

Places(t) == ({"open"} \X OpenWith(t)) \cup ({"queued"} \X QueuedWith(t))
               \cup ({"taken"} \X TakenWith(t)) \cup ({"arriving"} \X ArrivingAs(t))

\* A delivered trade is in one bar, open, queued or taken, until that bar is
\* stored, refused or lost, whatever handlers, flusher and shutdown do in
\* between; its volume is counted once.
EveryTradeInOneBar ==
  \A t \in Trade : Cardinality(Places(t)) = IF fate[t] = "delivered" THEN 1 ELSE 0

Increasing(ms) == \A i, j \in DOMAIN ms : i < j => ms[i] < ms[j]

Before(b, c) == b.symbol = c.symbol => b.time < c.time
InOrder(queue) == \A i, j \in DOMAIN queue : i < j => Before(queue[i], queue[j])
BuiltBy(r, bar) == rows[bar.symbol][bar.time] = r

\* A minute is built once by a process: late trades go into the bar that is
\* open and not into a second bar of their minute.  So subscribers get the
\* minutes of a symbol in order and once each, and no bar is refused by the
\* table because of another bar of the same process.
MinutesBuiltOnce ==
  /\ \A s \in Symbol : Increasing(published[s])
  /\ InOrder(hand) /\ InOrder(completedBars)
  /\ \A i \in DOMAIN hand, j \in DOMAIN completedBars : Before(hand[i], completedBars[j])
  /\ \A i \in DOMAIN hand : hand[i].symbol \in todo => ~ BuiltBy(run, hand[i])
  /\ \A i \in DOMAIN completedBars : ~ BuiltBy(run, completedBars[i])
=============================================================================
