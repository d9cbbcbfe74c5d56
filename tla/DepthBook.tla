----------------------------- MODULE DepthBook -----------------------------
(***************************************************************************)
(* The order book an aggregator keeps of one symbol, and what it samples.  *)
(* The batch aggregator (feed "file") reads the vendor's hourly files,     *)
(* where payloads may be missing, and detects the gaps by update ids; the  *)
(* live one (feed "stream") reads the exchange's depth stream and relies   *)
(* on the client to reset the book after a reconnect.                      *)
(*                                                                         *)
(* Here a side of the book is a function from prices to quantities;        *)
(* DepthBookTreap keeps it in the code's treap.                            *)
(***************************************************************************)
EXTENDS DepthLevels

VARIABLES feed,
          market, version,        \* the exchange: its book, the id of its last payload
          seen,                   \* history: the book as of the payload being read
          payload, rows,          \* that payload and its rows still to be processed
          chained,                \* history: a snapshot and no gap since
          book,
          lastFinalUpdateID, lastSnapshotUpdateID, warm,
          sample                  \* what the last row added to its bar

aggregator == <<book, lastFinalUpdateID, lastSnapshotUpdateID, warm, sample>>
vars == <<feed, market, version, seen, payload, rows, chained, aggregator>>

Kind == {"depthUpdate", "snapshot"}
NoSample == <<>>

TypeOK ==
  /\ feed \in Feed
  /\ market \in Market /\ seen \in Market /\ book \in Books
  /\ version \in Nat
  /\ payload \in [id : Nat, prev : Nat]
  /\ rows \subseteq Kind \X Side \X Price
  /\ chained \in BOOLEAN /\ warm \in BOOLEAN
  /\ lastFinalUpdateID \in Nat /\ lastSnapshotUpdateID \in Nat

Init ==
  /\ feed \in Feed
  /\ market \in Market /\ version = 2
  /\ seen = market
  /\ payload = [id |-> 0, prev |-> 0] /\ rows = {}
  /\ chained = FALSE
  /\ book = Empty
  /\ lastFinalUpdateID = 0 /\ lastSnapshotUpdateID = 0 /\ warm = FALSE
  /\ sample = NoSample

-----------------------------------------------------------------------------
(* The exchange and the recorder *)

\* A payload's id is even; odd ids are snapshots taken between two payloads.
NextVersion == version + 2

Rows(kind) == {kind} \X Side \X Price
DeltaRows(new) ==
  {r \in Rows("depthUpdate") : new[r[2]][r[3]] # market[r[2]][r[3]]}
SnapshotRows(new) == {r \in Rows("snapshot") : new[r[2]][r[3]] # 0}

\* A payload reaches the aggregator: its rows of one id are processed together.
Read(new, id, prev, rs) ==
  /\ rows = {} /\ rs # {}
  /\ rows' = rs
  /\ payload' = [id |-> id, prev |-> prev]
  /\ seen' = new
  /\ sample' = NoSample
  /\ UNCHANGED <<feed, book, lastFinalUpdateID, lastSnapshotUpdateID, warm>>

\* The changes of the book since the previous version.
Delta(new) ==
  /\ version < MaxVersion
  /\ market' = new /\ version' = NextVersion
  /\ chained' = (chained /\ payload.id = version)
  /\ Read(new, NextVersion, version, DeltaRows(new))

\* The same with a snapshot of the new version, which has the same id.
DeltaWithSnapshot(new) ==
  /\ feed = "file"
  /\ version < MaxVersion
  /\ market' = new /\ version' = NextVersion
  /\ chained' = TRUE
  /\ DeltaRows(new) # {} /\ SnapshotRows(new) # {}
  /\ Read(new, NextVersion, version, DeltaRows(new) \cup SnapshotRows(new))

\* A snapshot between two payloads, or of a version whose payload is missing.
Snapshot ==
  /\ feed = "file"
  /\ chained' = TRUE
  /\ \E id \in {version, version + 1} :
       /\ payload.id < id
       /\ Read(market, id, 0, SnapshotRows(market))
  /\ UNCHANGED <<market, version>>

\* A payload is missing from the file.
Lose(new) ==
  /\ feed = "file"
  /\ version < MaxVersion
  /\ rows = {}
  /\ market' = new /\ version' = NextVersion
  /\ UNCHANGED <<feed, seen, payload, rows, chained, aggregator>>

-----------------------------------------------------------------------------
(* The aggregator *)

SampleOf(bid, ask, bidDepth, askDepth) ==
  [spread |-> Spread(bid, ask), bidDepth |-> bidDepth, askDepth |-> askDepth]

SampleBook(b) ==
  SampleOf(Best(b, "bid"), Best(b, "ask"), SumDepth(b, "bid"), SumDepth(b, "ask"))

\* The first row of a snapshot.
NewSnapshot(r) == r[1] = "snapshot" /\ payload.id # lastSnapshotUpdateID

\* Mutant of Gap: gaps go unnoticed.
GapUnnoticed(r) == FALSE

\* Mutant of Gap: every row is compared, not the first of its payload.
GapOnEveryRow(r) ==
  /\ r[1] = "depthUpdate"
  /\ lastFinalUpdateID # 0
  /\ payload.prev # lastFinalUpdateID

\* The first row of a payload that does not follow the last one.
Gap(r) ==
  /\ r[1] = "depthUpdate"
  /\ lastFinalUpdateID # 0
  /\ payload.id # lastFinalUpdateID
  /\ payload.prev # lastFinalUpdateID

ResetOrderbook(r) == NewSnapshot(r) \/ Gap(r)

\* Mutant of FileOrder: the vendor's order within an id.
FileUnordered(r) == TRUE

\* StreamOrderBook sorts the rows of an id by price.
FileOrder(r) == \A x \in rows : r[3] <= x[3]

\* A parser emits the bids of a message before its asks.
StreamOrder(r) == r[2] = "ask" => \A x \in rows : x[2] = "ask"

Inserted(b, r) == [b EXCEPT ![r[2]][r[3]] = seen[r[2]][r[3]]]

\* ProcessOrderBookUpdate of the batch aggregator.
ProcessOrderBookUpdate(r) ==
  /\ feed = "file" /\ r \in rows /\ FileOrder(r)
  /\ rows' = rows \ {r}
  /\ book' = Inserted(IF ResetOrderbook(r) THEN Empty ELSE book, r)
  /\ lastFinalUpdateID' = payload.id
  /\ lastSnapshotUpdateID' = IF NewSnapshot(r) THEN payload.id ELSE lastSnapshotUpdateID
  /\ warm' = \/ r[1] = "snapshot"
             \/ warm /\ ~ Gap(r)
             \/ \A s \in Side : SumDepth(book', s) >= WarmDepth
  /\ sample' = IF warm' THEN SampleBook(book') ELSE NoSample
  /\ UNCHANGED <<feed, market, version, seen, payload, chained>>

\* processOrderBookUpdate of the live aggregator: no ids, no warming.
ProcessLiveUpdate(r) ==
  /\ feed = "stream" /\ r \in rows /\ StreamOrder(r)
  /\ rows' = rows \ {r}
  /\ book' = Inserted(book, r)
  /\ sample' = SampleBook(book')
  /\ UNCHANGED <<feed, market, version, seen, payload, chained,
                 lastFinalUpdateID, lastSnapshotUpdateID, warm>>

\* The connection is lost and comes back: nobody saw what changed meanwhile,
\* and OnDepthReset clears the book before the new stream is read.
ResetDepth(new) ==
  /\ feed = "stream"
  /\ version < MaxVersion
  /\ rows = {}
  /\ market' = new /\ version' = NextVersion
  /\ seen' = new
  /\ book' = Empty
  /\ sample' = NoSample
  /\ UNCHANGED <<feed, payload, rows, chained, lastFinalUpdateID, lastSnapshotUpdateID, warm>>

Next ==
  \/ \E new \in Market : Delta(new) \/ DeltaWithSnapshot(new) \/ Lose(new) \/ ResetDepth(new)
  \/ Snapshot
  \/ \E r \in rows : ProcessOrderBookUpdate(r) \/ ProcessLiveUpdate(r)

Spec == Init /\ [][Next]_vars

-----------------------------------------------------------------------------
(* Properties *)

\* The level at (s, p) still waits for a row of the payload.
Pending(s, p) == \E k \in Kind : <<k, s, p>> \in rows

\* No ghost levels: once the first row of a payload is processed, a level of
\* the book is the exchange's as of that payload or has a row still to come,
\* whatever payloads were missing before.
NoGhostLevels ==
  feed = "stream" \/ lastFinalUpdateID = payload.id =>
    \A s \in Side, p \in Price :
      book[s][p] # 0 => book[s][p] = seen[s][p] \/ Pending(s, p)

\* After a snapshot, and as long as payloads follow one another, the book is
\* the exchange's: no reset takes levels from it.
SnapshotKept == chained /\ rows = {} => book = seen

\* A spread sampled while a snapshot is loaded is the exchange's spread, though
\* the book is incomplete: rows come in the order of their prices.
SnapshotSpreadReal ==
  [][\A s \in Side, p \in Price :
       <<"snapshot", s, p>> \in rows \ rows' =>
         sample'.spread \in {<<>>, Spread(Best(seen, "bid"), Best(seen, "ask"))}]_vars
=============================================================================
