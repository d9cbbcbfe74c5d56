--------------------------- MODULE DepthBookTreap ---------------------------
(***************************************************************************)
(* DepthBook with each side kept in a Treap.  The exchange and the         *)
(* recorder are those of DepthBook, which this module implements           *)
(* (Refines).                                                              *)
(***************************************************************************)
EXTENDS Treap

VARIABLES feed, market, version, seen, payload, rows, chained,
          bids, asks,     \* the two treaps
          lastFinalUpdateID, lastSnapshotUpdateID, warm, sample

treaps == <<bids, asks>>
ids == <<lastFinalUpdateID, lastSnapshotUpdateID, warm>>
vars == <<feed, market, version, seen, payload, rows, chained, treaps, ids, sample>>

-----------------------------------------------------------------------------
\* The function from prices to quantities that a treap stands for.
Levels(t) == [p \in Price |-> Find(t.root, p)]

Book == INSTANCE DepthBook WITH
          book <- [s \in Side |-> Levels(IF s = "bid" THEN bids ELSE asks)]

TreapInit == bids = New /\ asks = New

Init == TreapInit /\ Book!Init

\* Steps of the exchange and the recorder leave the treaps alone.
Recorded ==
  /\ UNCHANGED treaps
  /\ \/ Book!Snapshot
     \/ \E new \in Market : Book!Delta(new) \/ Book!DeltaWithSnapshot(new) \/ Book!Lose(new)

SampleTreaps(b, a) == Book!SampleOf(MaxPrice(b.root), MinPrice(a.root), b.totalDepth, a.totalDepth)

\* The row is inserted on its side of books b and a.
InsertRow(b, a, r) ==
  \E priority \in Priority :
    LET q == seen[r[2]][r[3]] IN
    /\ bids' = IF r[2] = "bid" THEN Insert(b, r[3], q, priority) ELSE b
    /\ asks' = IF r[2] = "ask" THEN Insert(a, r[3], q, priority) ELSE a

\* ProcessOrderBookUpdate of the batch aggregator.
ProcessOrderBookUpdate(r) ==
  /\ feed = "file" /\ r \in rows /\ Book!FileOrder(r)
  /\ rows' = rows \ {r}
  /\ IF Book!ResetOrderbook(r) THEN InsertRow(New, New, r) ELSE InsertRow(bids, asks, r)
  /\ lastFinalUpdateID' = payload.id
  /\ lastSnapshotUpdateID' = IF Book!NewSnapshot(r) THEN payload.id ELSE lastSnapshotUpdateID
  /\ warm' = \/ r[1] = "snapshot"
             \/ warm /\ ~ Book!Gap(r)
             \/ bids'.totalDepth >= WarmDepth /\ asks'.totalDepth >= WarmDepth
  /\ sample' = IF warm' THEN SampleTreaps(bids', asks') ELSE Book!NoSample
  /\ UNCHANGED <<feed, market, version, seen, payload, chained>>

\* processOrderBookUpdate of the live aggregator.
ProcessLiveUpdate(r) ==
  /\ feed = "stream" /\ r \in rows /\ Book!StreamOrder(r)
  /\ rows' = rows \ {r}
  /\ InsertRow(bids, asks, r)
  /\ sample' = SampleTreaps(bids', asks')
  /\ UNCHANGED <<feed, market, version, seen, payload, chained, ids>>

ResetDepth(new) ==
  /\ bids' = New /\ asks' = New
  /\ Book!ResetDepth(new)

Next ==
  \/ Recorded
  \/ \E new \in Market : ResetDepth(new)
  \/ \E r \in rows : ProcessOrderBookUpdate(r) \/ ProcessLiveUpdate(r)

Spec == Init /\ [][Next]_vars

-----------------------------------------------------------------------------
(* Properties *)

\* The treaps implement the book: lookups, best prices and the running sums of
\* depth are those of the levels, after any order of inserts and removals and
\* whatever priorities were drawn.
Refines == Book!Spec
=============================================================================
