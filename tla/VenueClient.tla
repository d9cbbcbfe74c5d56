---------------------------- MODULE VenueClient ----------------------------
(***************************************************************************)
(* The Bybit and Hyperliquid websocket clients (bybit.go, hyperliquid.go;  *)
(* the two share their connection code) under StartExchange.  Unlike the   *)
(* Binance client they reconnect with their own Close and Connect.         *)
(*                                                                         *)
(* Methods that hold c.mu from end to end are single steps.                *)
(***************************************************************************)
EXTENDS Integers

CONSTANTS None, MaxConns, MaxDialFailures   \* bounds

VARIABLES conn,       \* c.conn
          stopped,    \* c.stopped
          ctxDone,    \* c.cancel was called for c.ctx, or its parent was done
          timer,      \* c.reconnectTimer is set
          dialled,    \* number of connections so far
          reading,    \* connections whose reader is in readLoop
          broken,     \* connections the network lost
          failures,   \* dials that failed
          sup,        \* StartExchange
          rec,        \* the reconnect goroutine
          cancelled   \* the streamer's context

client == <<conn, stopped, ctxDone, timer>>
net == <<dialled, reading, broken, failures>>
vars == <<client, net, sup, rec, cancelled>>

Conn == 1..MaxConns
SupPC == {"connect", "subscribe", "wait", "ended"}
RecPC == {"idle", "check", "close", "connect", "subscribe", "failed"}

TypeOK ==
  /\ conn \in Conn \cup {None}
  /\ {stopped, ctxDone, timer, cancelled} \subseteq BOOLEAN
  /\ dialled \in 0..MaxConns /\ failures \in 0..MaxDialFailures
  /\ reading \subseteq Conn /\ broken \subseteq Conn
  /\ sup \in SupPC /\ rec \in RecPC

Init ==
  /\ conn = None /\ stopped = FALSE /\ ctxDone = FALSE /\ timer = FALSE
  /\ dialled = 0 /\ reading = {} /\ broken = {} /\ failures = 0
  /\ sup = "connect" /\ rec = "idle" /\ cancelled = FALSE

\* c.ctx is done.
Done == ctxDone \/ cancelled

-----------------------------------------------------------------------------
(* The methods of the client *)

\* Connect(ctx) with a context that is done or not: it fails if there is a
\* connection, and after it took a new context if the dial does.
Connect(parentDone, ok, failed) ==
  \/ /\ conn # None /\ failed
     /\ UNCHANGED <<client, net>>
  \/ /\ conn = None
     /\ stopped' = FALSE /\ ctxDone' = parentDone /\ timer' = timer
     /\ \/ /\ parentDone /\ failed
           /\ UNCHANGED <<conn, net>>
        \/ /\ ~ parentDone /\ failures < MaxDialFailures /\ failed
           /\ failures' = failures + 1
           /\ UNCHANGED <<conn, dialled, reading, broken>>
        \/ /\ ~ parentDone /\ dialled < MaxConns /\ ok
           /\ dialled' = dialled + 1
           /\ conn' = dialled' /\ reading' = reading \cup {dialled'}
           /\ UNCHANGED <<broken, failures>>

\* Subscribe writes to the connection.
Subscribe(ok, failed) ==
  /\ \/ conn # None /\ conn \notin broken /\ ok
     \/ (conn = None \/ conn \in broken) /\ failed
  /\ UNCHANGED <<client, net>>

Close ==
  /\ stopped' = TRUE /\ timer' = FALSE /\ ctxDone' = TRUE /\ conn' = None

HandleDisconnect ==
  /\ timer' = (timer \/ ~ stopped)
  /\ UNCHANGED <<conn, stopped, ctxDone>>

-----------------------------------------------------------------------------
(* Goroutines *)

To(p) == sup' = p /\ UNCHANGED <<rec, cancelled>>

\* StartExchange
SupConnect ==
  /\ sup = "connect" /\ ~ cancelled
  /\ Connect(cancelled, To("subscribe"), To("connect"))

SupSubscribe ==
  /\ sup = "subscribe"
  /\ Subscribe(To("wait"), To("connect"))

SupClose ==
  /\ sup \in {"connect", "wait"} /\ cancelled
  /\ Close /\ To("ended") /\ UNCHANGED net

\* readLoop: the connection was lost or closed ...
ReadError(c) ==
  /\ c \in reading /\ (c \in broken \/ c # conn)
  /\ reading' = reading \ {c}
  /\ HandleDisconnect
  /\ UNCHANGED <<dialled, broken, failures, sup, rec, cancelled>>

\* ... or, between two messages, the context is done.
ReadDone(c) ==
  /\ c \in reading /\ Done
  /\ reading' = reading \ {c}
  /\ UNCHANGED <<client, dialled, broken, failures, sup, rec, cancelled>>

\* The timer's function; one reconnect at a time (a bound).
Fire ==
  /\ timer /\ rec = "idle"
  /\ timer' = FALSE /\ rec' = "check"
  /\ UNCHANGED <<conn, stopped, ctxDone, net, sup, cancelled>>

RecTo(p) == rec' = p /\ UNCHANGED <<sup, cancelled>>

RecCheck ==
  /\ rec = "check"
  /\ RecTo(IF stopped THEN "idle" ELSE "close")
  /\ UNCHANGED <<client, net>>

RecClose ==
  /\ rec = "close"
  /\ Close /\ RecTo("connect") /\ UNCHANGED net

\* Connect(c.ctx)
RecConnect ==
  /\ rec = "connect"
  /\ Connect(Done, RecTo("subscribe"), RecTo("failed"))

RecSubscribe ==
  /\ rec = "subscribe"
  /\ Subscribe(RecTo("idle"), RecTo("failed"))

RecFailed ==
  /\ rec = "failed"
  /\ HandleDisconnect /\ RecTo("idle") /\ UNCHANGED net

Break(c) ==
  /\ c = conn /\ c \notin broken /\ c < MaxConns
  /\ broken' = broken \cup {c}
  /\ UNCHANGED <<client, dialled, reading, failures, sup, rec, cancelled>>

Cancel ==
  /\ ~ cancelled /\ cancelled' = TRUE
  /\ UNCHANGED <<client, net, sup, rec>>

Supervise == SupConnect \/ SupSubscribe \/ SupClose
Read == \E c \in Conn : ReadError(c) \/ ReadDone(c)
Reconnect == Fire \/ RecCheck \/ RecClose \/ RecConnect \/ RecSubscribe \/ RecFailed

Next == Supervise \/ Read \/ Reconnect \/ (\E c \in Conn : Break(c)) \/ Cancel

\* Goroutines and timers go on; the network and the signal need not.
Fairness == WF_vars(Supervise) /\ WF_vars(Read) /\ WF_vars(Reconnect)

Spec == Init /\ [][Next]_vars
FairSpec == Spec /\ Fairness

-----------------------------------------------------------------------------
(* Properties *)

Alive == conn # None /\ conn \notin broken

\* "StartExchange connects a client and keeps it alive until ctx is done": a
\* connection that was lost after StartExchange had subscribed is replaced,
\* as long as dials do not fail for ever.
KeptAlive == (sup = "wait" /\ ~ Alive) ~> (Alive \/ cancelled)
=============================================================================
