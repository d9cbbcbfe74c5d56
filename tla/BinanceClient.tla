--------------------------- MODULE BinanceClient ---------------------------
(***************************************************************************)
(* How internal/ws/client.go (StartExchange) and internal/ws/binance       *)
(* /binance.go keep the market-data connections of Binance alive: dial and *)
(* subscribe with retries, one readLoop goroutine per connection, a timer  *)
(* and a reconnect goroutine after a loss, and Close on shutdown.          *)
(*                                                                         *)
(* The client has one market connection, a wsConn that lives as long as    *)
(* the client, and depth connections, whose wsConns each Subscribe creates *)
(* anew.  One chunk of symbols is enough for the protocol, so Subscribe    *)
(* number k creates the object k, named "depth0" like its predecessors.    *)
(***************************************************************************)
EXTENDS Integers, FiniteSets

CONSTANTS MaxSubscribe,    \* bound: calls of Subscribe
          MaxLosses        \* bound: connections the network breaks

ASSUME BoundAssumption == MaxSubscribe \in Nat \ {0} /\ MaxLosses \in Nat

Depth == 1..MaxSubscribe   \* depth wsConns, by the Subscribe that made them
Market == 0                \* the market wsConn
WsConn == Depth \cup {Market}

VARIABLES
  done,       \* the ctx of the streamer is cancelled, and with it c.ctx
  sup,        \* StartExchange: "connect", "depth", "market" (both inside
              \* Subscribe), "wait", "closed"
  tries,      \* Subscribe calls so far
  current,    \* the object in c.depthConns, or Market for the empty list
  conn,       \* wc.conn: "nil", "open", "broken" (by the network)
  gen,        \* wc.gen
  timer,      \* wc.reconn.timer: "nil", "armed", "fired" (still not nil)
  reader,     \* readLoop: "none", "top", "read", "block"
  notifying,  \* generations of the market connection whose readers have armed
              \* the timer and not yet called OnStatusChange
  rec,        \* reconnect: "none", "begin", "dial", "install", "rearm",
              \* "restart"
  status,     \* last status the handler got for "binance"
  statusGen,  \* history: the generation that status was about
  upGen,      \* history: the generation last reported "connected"
  book,       \* the connections whose depth events went into the order books
              \* since their last reset
  panicked,   \* a goroutine panicked: the process is gone
  losses,     \* connections broken so far
  gaveUp      \* history: the dial of a reconnect has failed

supervisor == <<done, sup, tries, current>>

reports == <<status, statusGen, upGen>>

vars == <<supervisor, conn, gen, timer, reader, notifying, rec, reports, book,
          panicked, losses, gaveUp>>

TypeOK ==
  /\ {done, panicked, gaveUp} \subseteq BOOLEAN
  /\ sup \in {"connect", "depth", "market", "wait", "closed"}
  /\ tries \in 0..MaxSubscribe /\ current \in WsConn
  /\ conn \in [WsConn -> {"nil", "open", "broken"}]
  /\ gen \in [WsConn -> Nat]
  /\ timer \in [WsConn -> {"nil", "armed", "fired"}]
  /\ reader \in [WsConn -> {"none", "top", "read", "block"}]
  /\ notifying \subseteq Nat
  /\ rec \in [WsConn -> {"none", "begin", "dial", "install", "rearm", "restart"}]
  /\ status \in {"connecting", "connected", "reconnecting", "disconnected"}
  /\ statusGen \in Nat /\ upGen \in Nat
  /\ book \subseteq Depth \X Nat
  /\ losses \in 0..MaxLosses

Init ==
  /\ done = FALSE /\ panicked = FALSE /\ losses = 0 /\ gaveUp = FALSE
  /\ sup = "connect" /\ tries = 0 /\ current = Market
  /\ conn = [w \in WsConn |-> "nil"]
  /\ gen = [w \in WsConn |-> 0]
  /\ timer = [w \in WsConn |-> "nil"]
  /\ reader = [w \in WsConn |-> "none"]
  /\ notifying = {}
  /\ rec = [w \in WsConn |-> "none"]
  /\ status = "disconnected" /\ statusGen = 0 /\ upGen = 0
  /\ book = {}

\* c.stopped: Close is the last call.
Stopped == sup = "closed"

\* c.mu is held for the whole of Subscribe, its dials included.
MuFree == sup \notin {"depth", "market"}

-----------------------------------------------------------------------------
(* The environment *)

Cancel ==
  /\ ~ panicked /\ ~ done /\ done' = TRUE
  /\ UNCHANGED <<sup, tries, current, conn, gen, timer, reader, notifying, rec,
                 reports, book, panicked, losses, gaveUp>>

\* The peer drops the connection, or it stalls past the read deadline.
Break(w) ==
  /\ ~ panicked /\ conn[w] = "open" /\ losses < MaxLosses
  /\ conn' = [conn EXCEPT ![w] = "broken"]
  /\ losses' = losses + 1
  /\ UNCHANGED <<supervisor, gen, timer, reader, notifying, rec, reports, book,
                 panicked, gaveUp>>

-----------------------------------------------------------------------------
(* StartExchange, Connect, Subscribe, Close *)

\* OnStatusChange, about generation g of the market connection.
Report(s, g) == status' = s /\ statusGen' = g

\* The head of the loop found ctx live: Connect, then Subscribe takes c.mu.
\* After a failed Subscribe nothing is connected, so Connect succeeds.
Connect ==
  /\ ~ panicked /\ sup = "connect" /\ ~ done /\ tries < MaxSubscribe
  /\ sup' = "depth"
  /\ tries' = tries + 1
  /\ Report("connecting", gen[Market])
  /\ current' = Market            \* c.depthConns = nil
  /\ UNCHANGED <<done, conn, gen, timer, reader, notifying, rec, upGen, book, panicked,
                 losses, gaveUp>>

\* Subscribe's dial for wsConn w succeeds: a reader is started.
Dialled(w) ==
  /\ ~ done
  /\ conn' = [conn EXCEPT ![w] = "open"]
  /\ gen' = [gen EXCEPT ![w] = @ + 1]
  /\ reader' = [reader EXCEPT ![w] = "top"]

\* closeAll closes the connections and forgets them.
CloseAll ==
  /\ conn' = [w \in WsConn |-> IF w \in {current, Market} THEN "nil" ELSE conn[w]]
  /\ current' = Market

SubscribeFail ==
  /\ CloseAll
  /\ sup' = "connect"             \* after the backoff
  /\ UNCHANGED <<gen, reader, reports>>

SubscribeDepth ==
  /\ ~ panicked /\ sup = "depth"
  /\ \/ /\ Dialled(tries)
        /\ current' = tries
        /\ sup' = "market"
        /\ UNCHANGED reports
     \/ SubscribeFail
  /\ UNCHANGED <<done, tries, timer, notifying, rec, book, panicked, losses, gaveUp>>

SubscribeMarket ==
  /\ ~ panicked /\ sup = "market"
  /\ \/ /\ Dialled(Market)
        /\ Report("connected", gen'[Market]) /\ upGen' = gen'[Market]
        /\ sup' = "wait"
        /\ UNCHANGED current
     \/ SubscribeFail
  /\ UNCHANGED <<done, tries, timer, notifying, rec, book, panicked, losses, gaveUp>>

\* Mutant of Close: ctx is waited for only after a successful Subscribe.
CloseFromWait ==
  /\ ~ panicked /\ sup = "wait" /\ done
  /\ sup' = "closed"
  /\ timer' = [w \in WsConn |-> IF w \in {current, Market} THEN "nil" ELSE timer[w]]
  /\ CloseAll
  /\ Report("disconnected", gen[Market])
  /\ UNCHANGED <<done, tries, gen, reader, notifying, rec, upGen, book, panicked, losses,
                 gaveUp>>

\* Close stops the timers of the connections the client still lists.
Close ==
  /\ ~ panicked /\ sup \in {"connect", "wait"} /\ done
  /\ sup' = "closed"
  /\ timer' = [w \in WsConn |-> IF w \in {current, Market} THEN "nil" ELSE timer[w]]
  /\ CloseAll
  /\ Report("disconnected", gen[Market])
  /\ UNCHANGED <<done, tries, gen, reader, notifying, rec, upGen, book, panicked, losses,
                 gaveUp>>

-----------------------------------------------------------------------------
(* readLoop *)

\* A panic in any goroutine ends the process.
Panic ==
  /\ panicked' = TRUE
  /\ UNCHANGED <<supervisor, conn, gen, timer, reader, notifying, rec, reports, book,
                 losses, gaveUp>>

ReaderTo(w, next) == reader' = [reader EXCEPT ![w] = next]

\* Mutant of HandleDisconnect: its caller reads on.
HandleDisconnectReadsOn(w) ==
  IF Stopped \/ timer[w] # "nil"
  THEN ReaderTo(w, "none") /\ UNCHANGED <<timer, notifying>>
  ELSE /\ timer' = [timer EXCEPT ![w] = "armed"]
       /\ notifying' = IF w = Market THEN notifying \cup {gen[w]} ELSE notifying
       /\ ReaderTo(w, "top")

\* Mutant of HandleDisconnect: the loss is not reported.
HandleDisconnectSilent(w) ==
  /\ timer' = IF Stopped \/ timer[w] # "nil" THEN timer ELSE [timer EXCEPT ![w] = "armed"]
  /\ ReaderTo(w, "none")
  /\ UNCHANGED notifying

\* handleDisconnect: schedules a reconnect unless the client is stopped or a
\* timer is already there.  The reader that called it reads no more; that of
\* the market connection still has the status to report, when it gets to run.
HandleDisconnect(w) ==
  /\ ReaderTo(w, "none")
  /\ IF Stopped \/ timer[w] # "nil"
     THEN UNCHANGED <<timer, notifying>>
     ELSE /\ timer' = [timer EXCEPT ![w] = "armed"]
          /\ notifying' = IF w = Market THEN notifying \cup {gen[w]} ELSE notifying

\* ctx is looked at, then wc.conn is loaded for SetReadDeadline, without c.mu.
ReadTop(w) ==
  /\ ~ panicked /\ reader[w] = "top"
  /\ \/ ~ done /\ conn[w] = "nil" /\ Panic
     \/ /\ done \/ conn[w] # "nil"
        /\ ReaderTo(w, IF done THEN "none" ELSE "read")
        /\ UNCHANGED <<supervisor, conn, gen, timer, notifying, rec, reports, book,
                       panicked, losses, gaveUp>>

\* wc.conn is loaded again for ReadMessage.  When closeAll came in between,
\* either SetReadDeadline failed on the closed connection or this load is nil.
ReadStart(w) ==
  /\ ~ panicked /\ reader[w] = "read"
  /\ \/ conn[w] = "nil" /\ Panic
     \/ /\ \/ conn[w] = "nil" /\ MuFree /\ HandleDisconnect(w)
           \/ conn[w] # "nil" /\ ReaderTo(w, "block") /\ UNCHANGED <<timer, notifying>>
        /\ UNCHANGED <<supervisor, conn, gen, rec, reports, book, panicked, losses, gaveUp>>

\* ReadMessage returns a message, which the handler applies.
ReadMessage(w) ==
  /\ ~ panicked /\ reader[w] = "block" /\ conn[w] = "open" /\ MuFree
  /\ ReaderTo(w, "top")
  /\ book' = IF w \in Depth THEN book \cup {<<w, gen[w]>>} ELSE book
  /\ UNCHANGED <<supervisor, conn, gen, timer, notifying, rec, reports, panicked, losses,
                 gaveUp>>

\* currentGen looks the name up, so it answers for the current depth object.
CurrentGen(w) ==
  IF w = Market THEN gen[Market]
  ELSE IF current # Market THEN gen[current] ELSE 0

\* ReadMessage returns an error: the connection is broken, or was closed under
\* the call.  A connection that was replaced in the list is not mourned.
ReadError(w) ==
  /\ ~ panicked /\ reader[w] = "block" /\ conn[w] # "open" /\ MuFree
  /\ IF gen[w] = CurrentGen(w) THEN HandleDisconnect(w)
     ELSE ReaderTo(w, "none") /\ UNCHANGED <<timer, notifying>>
  /\ UNCHANGED <<supervisor, conn, gen, rec, reports, book, panicked, losses, gaveUp>>

\* The end of handleDisconnect for the market connection, after its locks are
\* released: nothing orders it before the reconnect that the timer starts.
Notify(g) ==
  /\ ~ panicked /\ g \in notifying
  /\ Report("reconnecting", g)
  /\ notifying' = notifying \ {g}
  /\ UNCHANGED <<supervisor, conn, gen, timer, reader, rec, upGen, book, panicked, losses,
                 gaveUp>>

-----------------------------------------------------------------------------
(* The timer and reconnect *)

Fire(w) ==
  /\ ~ panicked /\ timer[w] = "armed"
  /\ timer' = [timer EXCEPT ![w] = "fired"]
  /\ rec' = [rec EXCEPT ![w] = "begin"]
  /\ UNCHANGED <<supervisor, conn, gen, reader, notifying, reports, book, panicked,
                 losses, gaveUp>>

RecTo(w, from, to) ==
  /\ ~ panicked /\ rec[w] = from
  /\ rec' = [rec EXCEPT ![w] = to]

RecBegin(w) ==
  /\ MuFree /\ RecTo(w, "begin", "dial")
  /\ conn' = [conn EXCEPT ![w] = "nil"]
  /\ UNCHANGED <<supervisor, gen, timer, reader, notifying, reports, book, panicked,
                 losses, gaveUp>>

\* chunkSymbols divides by the number of depth connections.
NoChunks(w, from) ==
  ~ panicked /\ rec[w] = from /\ w \in Depth /\ current = Market /\ Panic

\* The streams of the connection are looked up, without a lock, and dialled
\* with c.ctx.  When the dial fails, handleDisconnect is called: the timer that
\* fired is still recorded, so it returns without scheduling another.
RecDial(w) ==
  \/ NoChunks(w, "dial")
  \/ /\ w = Market \/ current # Market
     /\ \/ /\ ~ done /\ RecTo(w, "dial", "install")
           /\ UNCHANGED <<timer, reader, notifying, gaveUp>>
        \/ /\ MuFree /\ RecTo(w, "dial", "none") /\ HandleDisconnect(w)
           /\ gaveUp' = TRUE
     /\ UNCHANGED <<supervisor, conn, gen, reports, book, panicked, losses>>

RecInstall(w) ==
  /\ MuFree /\ RecTo(w, "install", "rearm")
  /\ gen' = [gen EXCEPT ![w] = @ + 1]
  /\ conn' = [conn EXCEPT ![w] = "open"]
  /\ UNCHANGED <<supervisor, timer, reader, notifying, reports, book, panicked, losses,
                 gaveUp>>

\* Mutant of RecRearm: straight to the new reader.
RecRearmSpawns(w) ==
  /\ RecTo(w, "rearm", "none")
  /\ ReaderTo(w, "top")
  /\ timer' = [timer EXCEPT ![w] = "nil"]
  /\ UNCHANGED <<supervisor, conn, gen, notifying, reports, book, panicked, losses, gaveUp>>

\* Mutant of RecRearm: the timer that fired stays recorded.
RecRearmKeepsTimer(w) ==
  /\ RecTo(w, "rearm", "restart")
  /\ UNCHANGED <<supervisor, conn, gen, timer, reader, notifying, reports, book, panicked,
                 losses, gaveUp>>

\* attempts = 0, timer = nil.
RecRearm(w) ==
  /\ RecTo(w, "rearm", "restart")
  /\ timer' = [timer EXCEPT ![w] = "nil"]
  /\ UNCHANGED <<supervisor, conn, gen, reader, notifying, reports, book, panicked,
                 losses, gaveUp>>

\* A new readLoop, after OnDepthReset for the chunk of the name.
RestartDepth(w) ==
  \/ NoChunks(w, "restart")
  \/ /\ w \in Depth /\ current # Market
     /\ RecTo(w, "restart", "none") /\ ReaderTo(w, "top")
     /\ book' = {}
     /\ UNCHANGED <<supervisor, conn, gen, timer, notifying, reports, panicked, losses,
                    gaveUp>>

\* A new readLoop, after OnStatusChange(Connected).
RestartMarket ==
  /\ RecTo(Market, "restart", "none") /\ ReaderTo(Market, "top")
  /\ Report("connected", gen[Market]) /\ upGen' = gen[Market]
  /\ UNCHANGED <<supervisor, conn, gen, timer, notifying, book, panicked, losses, gaveUp>>

-----------------------------------------------------------------------------
Supervise == Connect \/ SubscribeDepth \/ SubscribeMarket \/ Close

Read(w) ==
  \/ ReadTop(w) \/ ReadStart(w) \/ ReadMessage(w) \/ ReadError(w)

\* The readers that ended with a report to make, each on its own.
LateReport == \E g \in notifying : Notify(g)

Reconnect(w) ==
  \/ Fire(w) \/ RecBegin(w) \/ RecDial(w) \/ RecInstall(w) \/ RecRearm(w)
  \/ RestartDepth(w) \/ (w = Market /\ RestartMarket)

\* What happens to a wsConn; one of its drivers has a step to take at a time.
Drive(w) == Read(w) \/ Reconnect(w)

\* The supervisor ended or the process did; what still runs may run out.
Terminated == (panicked \/ sup = "closed") /\ UNCHANGED vars

Next ==
  \/ Cancel
  \/ Supervise
  \/ LateReport
  \/ \E w \in WsConn : Break(w) \/ Drive(w)
  \/ Terminated

Spec == Init /\ [][Next]_vars

\* Goroutines run, timers fire, and the bound on Subscribe is not the reason
\* it stops.  The network owes nothing: it need not break, nor heal.
Fairness ==
  /\ WF_vars(Supervise) /\ WF_vars(LateReport)
  /\ \A w \in WsConn : WF_vars(Drive(w))

FairSpec == Spec /\ Fairness

-----------------------------------------------------------------------------
(* Properties *)

Reading == {"top", "read", "block"}

\* A wsConn is driven by at most one of its reader, its timer and its
\* reconnect goroutine: no loss is handled twice, no two goroutines read one
\* connection.
OneDriver ==
  \A w \in WsConn :
    /\ reader[w] \in Reading =>
         timer[w] = "nil" /\ rec[w] = "none"
    /\ timer[w] = "armed" => rec[w] = "none"

\* The books hold the depth events of one connection only: after a reconnect
\* they are reset before the new connection is read, and no old connection is.
\* (A Subscribe that is retried resets nothing.)
OneConnectionPerBook == tries = 1 => Cardinality(book) <= 1

\* A market connection is reported up before it is read, on the first dial as
\* on each redial, and what the handler was told last is not of its loss: only
\* the report of an earlier loss, made late by a reader that ended before the
\* redial, can stand after it.
ConnectedWhileRead ==
  sup = "wait" /\ reader[Market] \in Reading =>
    /\ upGen = gen[Market]
    /\ status = "connected" \/ (status = "reconnecting" /\ statusGen < gen[Market])

\* A broken market connection is reported, and not taken for a quiet one.
LossIsReported ==
  (sup = "wait" /\ conn[Market] = "broken") ~> (status # "connected" \/ done \/ panicked)

\* As long as redials succeed, each connection of the client that breaks is
\* open again later, or the client has replaced it.
LossIsRepaired ==
  \A w \in WsConn :
    (sup = "wait" /\ conn[w] = "broken") ~>
      (conn[w] = "open" \/ w \notin {current, Market} \/ gaveUp \/ done \/ panicked)

\* Shutdown is not held up by any connection.
ShutdownEnds == done ~> (sup = "closed" \/ panicked)
=============================================================================
