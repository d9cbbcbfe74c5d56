--------------------------- MODULE OrderbookStore ---------------------------
(***************************************************************************)
(* Table orderbook_bars for one (exchange, symbol), as internal/db/market  *)
(* .go writes it.  The writers are concurrent: the flusher of the live     *)
(* stream, the hourly overwrite backfill, gap-fill hydration and the       *)
(* liquidation backfill all use the same pool, and each call below is one  *)
(* transaction.  A call that fails is rolled back and changes nothing.     *)
(***************************************************************************)
EXTENDS BarMerge

CONSTANTS Minute,    \* the close times rows are keyed by
          Bar,       \* the bars writers may submit
          MaxBatch,  \* bars of one minute in one batch (bounds the choice)
          NoRow      \* no row for a minute

ASSUME BarAssumption == Bar \subseteq {b \in Row : WellFormed(b)}
ASSUME MinuteAssumption == Minute \subseteq Int
ASSUME MaxBatchAssumption == MaxBatch \in Nat \ {0}
ASSUME NoRowAssumption == NoRow \notin Row

VARIABLES rows,     \* the table: minute -> its row
          written   \* history: the bars submitted for a minute since its row
                    \* was created, those a batch dropped as duplicates too

vars == <<rows, written>>

TypeOK ==
  /\ rows \in [Minute -> Row \cup {NoRow}]
  /\ written \in [Minute -> SUBSET Bar]

Init ==
  /\ rows = [m \in Minute |-> NoRow]
  /\ written = [m \in Minute |-> {}]

Present(m) == rows[m] # NoRow

Upsert(m, b) == IF Present(m) THEN Merge(rows[m], b) ELSE b

Batch == UNION {[1..n -> Bar] : n \in 1..MaxBatch}   \* the bars of one minute

\* What a batch can come to for a minute: the bars submitted, the one kept.
Submission ==
  UNION {{[all |-> {bars[j] : j \in DOMAIN bars}, kept |-> bars[i]] :
            i \in {k \in DOMAIN bars : IsKept(bars, k)}} : bars \in Batch}

\* One transaction: deduplicate by timestamp, copy to the temporary table,
\* upsert.
InsertOrderbookBars ==
  \E ms \in SUBSET Minute \ {{}} :
    \E batch \in [ms -> Submission] :
      /\ rows' = [m \in Minute |-> IF m \in ms THEN Upsert(m, batch[m].kept) ELSE rows[m]]
      /\ written' = [m \in Minute |-> IF m \in ms THEN written[m] \cup batch[m].all
                                                 ELSE written[m]]

\* The bounds callers pass, the end of the last minute included; a nil bound
\* is the least or the greatest of them.
Bound == Minute \cup {m + 1 : m \in Minute}

\* The rows of [start, end) go.
DeleteOrderbookBars ==
  \E start, end \in Bound :
    LET hit == {m \in Minute : start <= m /\ m < end}
    IN /\ rows' = [m \in Minute |-> IF m \in hit THEN NoRow ELSE rows[m]]
       /\ written' = [m \in Minute |-> IF m \in hit THEN {} ELSE written[m]]

\* Mutant of SetLiqUnknownRange: the flag is left alone.
SetLiqUnknownKeepsFlag ==
  \E start, end \in Bound :
    /\ rows' = [m \in Minute |->
                  IF start <= m /\ m < end /\ Present(m)
                  THEN [rows[m] EXCEPT !.liq = Null] ELSE rows[m]]
    /\ UNCHANGED written

\* The liquidation parquet of the hour is missing: volumes become unknown.
SetLiqUnknownRange ==
  \E start, end \in Bound :
    /\ rows' = [m \in Minute |->
                  IF start <= m /\ m < end /\ Present(m)
                  THEN [rows[m] EXCEPT !.liq = Null, !.cov = 0]
                  ELSE rows[m]]
    /\ UNCHANGED written

\* The parquet was read: only existing rows are updated, no row is created.
SetLiqBars ==
  \E ts \in SUBSET Minute \ {{}}, src \in Source :
    /\ rows' = [m \in Minute |->
                  IF m \in ts /\ Present(m)
                  THEN [rows[m] EXCEPT !.liq = src, !.cov = 1]
                  ELSE rows[m]]
    /\ UNCHANGED written

Next ==
  \/ InsertOrderbookBars
  \/ DeleteOrderbookBars
  \/ SetLiqUnknownRange
  \/ SetLiqBars

Spec == Init /\ [][Next]_vars

-----------------------------------------------------------------------------
(* Properties *)

\* liq_covered = 1 exactly when the volumes are not NULL, whatever mix of
\* upserts and liquidation backfills produced the row: "covered, none" and
\* "no data" stay distinct.
CoveredIffVolumes ==
  \A m \in Minute : Present(m) => ((rows[m].cov = 1) <=> (rows[m].liq # Null))

\* A row's trade columns are those of a submitted bar with the most trades of
\* all the bars submitted since the row exists, dropped duplicates included:
\* no order of writers or batches lets a smaller bar replace a larger one.
LargestBarWins ==
  \A m \in Minute : Present(m) =>
    /\ \A b \in written[m] : b.tc <= rows[m].tc
    /\ \E b \in written[m] : b.tc = rows[m].tc /\ b.trades = rows[m].trades

\* The footprint columns describe the trades the VWAP was computed from.  A
\* bar without a footprint (its trades were all degenerate) is the one way to
\* a stitched row: if it has the most trades, its VWAP joins the footprint
\* that is there.
OnePopulation ==
  \A m \in Minute : Present(m) /\ rows[m].fp # Null /\ rows[m].fp # rows[m].trades =>
    \E b \in written[m] : b.tc = rows[m].tc /\ b.trades = rows[m].trades /\ b.fp = Null

\* An upsert takes coverage, trades or open interest away from no row; only
\* SetLiqUnknownRange uncovers, only DeleteOrderbookBars removes.
UpsertOnlyAdds ==
  [][\A m \in Minute : Present(m) /\ written'[m] # {} =>
       /\ rows'[m].tc >= rows[m].tc
       /\ rows[m].oi # Null => rows'[m].oi # Null
       /\ rows'[m].cov < rows[m].cov => UNCHANGED written]_vars
=============================================================================
