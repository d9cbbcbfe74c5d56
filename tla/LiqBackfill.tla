---------------------------- MODULE LiqBackfill ----------------------------
(***************************************************************************)
(* cmd/ob-backfill-liq for one symbol: it goes through the hours, rewrites *)
(* the liquidation columns of the rows of an hour from the vendor's file,  *)
(* or marks them unknown when there is no file, and records finished hours *)
(* in liq_backfill_progress so that a later run skips them.                *)
(*                                                                         *)
(* Bars are their close times: hour h has the keys h*K+1 .. h*K+K.  Each   *)
(* symbol has a worker with an aggregator and a marker buffer of its own.  *)
(***************************************************************************)
EXTENDS Integers, FiniteSets

CONSTANTS K,            \* minutes of an hour
          MaxHour,      \* hours 0..MaxHour are asked for
          Liquidated,   \* per key, the volume in the vendor's file
          MaxVolume,    \* the largest of them
          MarkerBatch,  \* markerBatch
          Live,         \* stands for volumes the live stream wrote
          Null, NoRow,
          MaxRuns,      \* bound on the runs
          MaxWrites     \* bound on the writes of others

ASSUME NumberAssumption ==
  /\ K \in Nat \ {0} /\ MaxHour \in Nat /\ MarkerBatch \in Nat \ {0}
  /\ MaxRuns \in Nat /\ MaxWrites \in Nat

Hour == 0..MaxHour
Key == 0..((MaxHour + 1) * K)
KeysOf(h) == {k \in Key : h * K < k /\ k <= h * K + K}

ASSUME VolumeAssumption ==
  /\ MaxVolume \in Nat /\ Liquidated \in [Key -> 0..MaxVolume]
  /\ Null \notin Nat /\ Live \notin Nat /\ Null # Live

VARIABLES rows,        \* orderbook_bars: the liquidation columns by close time
          marked,      \* liq_backfill_progress
          published,   \* hours whose file the vendor has
          pc, hour,    \* the worker: idle, or at an hour
          done,        \* markers loaded at the start of the run
          markerBuf,
          agg,         \* the aggregator's volumes by close time
          fate,        \* history: how the hour was last processed
          gaps,        \* history: hours that were marked unknown
          late,        \* history: rows others wrote after their hour was processed
          runs,
          writes        \* of others

worker == <<pc, hour, done, markerBuf, agg>>
history == <<fate, gaps, late>>
vars == <<rows, marked, published, worker, history, runs, writes>>

Volume == Nat \cup {Live, Null}
Row == [vol : Volume, cov : {0, 1}]
NoVolumes == [k \in Key |-> 0]

TypeOK ==
  /\ rows \in [Key -> Row \cup {NoRow}]
  /\ marked \subseteq Hour /\ published \subseteq Hour
  /\ done \subseteq Hour /\ markerBuf \subseteq Hour
  /\ pc \in {"idle", "running"} /\ hour \in 0..(MaxHour + 1)
  /\ agg \in [Key -> Nat]
  /\ fate \in [Hour -> {"none", "file", "unknown"}]
  /\ gaps \subseteq Hour /\ late \subseteq Key
  /\ runs \in 0..MaxRuns /\ writes \in 0..MaxWrites

Init ==
  /\ rows \in [Key -> {NoRow, [vol |-> Live, cov |-> 1], [vol |-> Null, cov |-> 0]}]
  /\ marked = {} /\ published \in SUBSET Hour
  /\ pc = "idle" /\ hour = 0
  /\ done = {} /\ markerBuf = {} /\ agg = NoVolumes
  /\ fate = [h \in Hour |-> "none"] /\ gaps = {} /\ late = {}
  /\ runs = 0 /\ writes = 0

Present(k) == rows[k] # NoRow

-----------------------------------------------------------------------------
(* Around the worker *)

\* The vendor publishes an hour's file, which it never takes back.
Publish(h) ==
  /\ h \notin published
  /\ published' = published \cup {h}
  /\ UNCHANGED <<rows, marked, worker, history, runs, writes>>

\* What the live stream writes, and the hydration with the hour's file and
\* without it.
OtherRow(k) == {[vol |-> Live, cov |-> 1], [vol |-> Liquidated[k], cov |-> 1], [vol |-> Null, cov |-> 0]}

\* COALESCE of the volumes and GREATEST of the flag, over an existing row.
Upserted(k, row) ==
  IF ~ Present(k) THEN row
  ELSE [vol |-> IF row.vol # Null THEN row.vol ELSE rows[k].vol,
        cov |-> IF row.cov = 1 THEN 1 ELSE rows[k].cov]

\* The live stream or the hydration writes a row.
UpsertRow(k, row) ==
  /\ writes < MaxWrites /\ writes' = writes + 1
  /\ rows' = [rows EXCEPT ![k] = Upserted(k, row)]
  /\ late' = IF rows'[k] # rows[k] /\ \E h \in Hour : k \in KeysOf(h) /\ fate[h] # "none"
             THEN late \cup {k} ELSE late
  /\ UNCHANGED <<marked, published, worker, fate, gaps, runs>>

\* The hydration deletes a row of an hour it writes again.
DeleteRow(k) ==
  /\ Present(k)
  /\ writes < MaxWrites /\ writes' = writes + 1
  /\ rows' = [rows EXCEPT ![k] = NoRow]
  /\ UNCHANGED <<marked, published, worker, history, runs>>

\* A run starts, with or without -reset, and loads the symbol's markers.
Start(reset) ==
  /\ pc = "idle" /\ runs < MaxRuns
  /\ marked' = IF reset THEN {} ELSE marked
  /\ done' = marked'
  /\ pc' = "running" /\ hour' = 0
  /\ markerBuf' = {} /\ agg' = NoVolumes
  /\ runs' = runs + 1
  /\ UNCHANGED <<rows, published, history, writes>>

\* The process ends: markers that were not written are lost.
Crash ==
  /\ pc = "running"
  /\ pc' = "idle" /\ hour' = 0
  /\ done' = {} /\ markerBuf' = {} /\ agg' = NoVolumes
  /\ UNCHANGED <<rows, marked, published, history, runs, writes>>

-----------------------------------------------------------------------------
(* backfillSymbol: one iteration over the hours *)

At(h) == pc = "running" /\ hour = h /\ hour' = h + 1 /\ pc' = pc /\ UNCHANGED <<published, done, runs, writes>>

\* MarkLiqProgress; when it fails the buffer is kept.
FlushMarkers(buf) ==
  \/ marked' = marked \cup buf /\ markerBuf' = {}
  \/ marked' = marked /\ markerBuf' = buf

\* The hour is processed; its marker is buffered and the buffer flushed when
\* it is full.
Processed(h, how) ==
  LET buf == markerBuf \cup {h} IN
  /\ fate' = [fate EXCEPT ![h] = how]
  /\ gaps' = IF how = "unknown" THEN gaps \cup {h} ELSE gaps
  /\ late' = late \ KeysOf(h)
  /\ IF Cardinality(buf) >= MarkerBatch
     THEN FlushMarkers(buf)
     ELSE marked' = marked /\ markerBuf' = buf

\* continue: nothing is recorded.
Unprocessed == UNCHANGED <<marked, markerBuf, history>>

Skip(h) == At(h) /\ h \in done /\ Unprocessed /\ UNCHANGED <<rows, agg>>

\* SetLiqUnknownRange(H:00, H+1:00), by close times and half open.
UnknownRange(h) == {k \in Key : h * K <= k /\ k < h * K + K}
SetLiqUnknownRange(h) ==
  rows' = [k \in Key |-> IF k \in UnknownRange(h) /\ Present(k)
                         THEN [vol |-> Null, cov |-> 0] ELSE rows[k]]

\* Mutant of NoSource: a failed update does not skip the marker.
NoSourceMarks(h) ==
  /\ At(h) /\ h \notin done /\ h \notin published
  /\ SetLiqUnknownRange(h) \/ UNCHANGED rows
  /\ Processed(h, "unknown")
  /\ UNCHANGED agg

\* The vendor has no file: 404.
NoSource(h) ==
  /\ At(h) /\ h \notin done /\ h \notin published
  /\ \/ SetLiqUnknownRange(h) /\ Processed(h, "unknown")
     \/ Unprocessed /\ UNCHANGED rows
  /\ UNCHANGED agg

\* The file cannot be downloaded or opened.
DownloadFails(h) ==
  /\ At(h) /\ h \notin done
  /\ Unprocessed /\ UNCHANGED <<rows, agg>>

\* ProcessLiquidation: what was read of each minute is added up.
Accumulated(read) == [k \in Key |-> IF k \in DOMAIN read THEN agg[k] + read[k] ELSE agg[k]]
Whole(h) == [k \in KeysOf(h) |-> Liquidated[k]]
Parts(h) == {read \in [KeysOf(h) -> 0..MaxVolume] : \A k \in KeysOf(h) : read[k] <= Liquidated[k]}

\* Reading stops half-way: what was read stays in the aggregator.
StreamFails(h) ==
  /\ At(h) /\ h \notin done /\ h \in published
  /\ \E read \in Parts(h) : agg' = Accumulated(read)
  /\ Unprocessed /\ UNCHANGED rows

\* Mutant of Grid: all the minutes Finalize returned.
GridOfFinalized(h, vols) == KeysOf(h) \cup {k \in Key : vols[k] > 0}

\* The minutes that are written: those of the hour, whatever else the
\* aggregator held.
Grid(h, vols) == KeysOf(h)

SetLiqBars(ks, vols) ==
  rows' = [k \in Key |-> IF k \in ks /\ Present(k)
                         THEN [vol |-> vols[k], cov |-> 1] ELSE rows[k]]

\* The file is read, finalized and written.  Finalize empties the aggregator,
\* also when the update then fails.
Source(h) ==
  /\ At(h) /\ h \notin done /\ h \in published
  /\ LET vols == Accumulated(Whole(h)) IN
     \/ SetLiqBars(Grid(h, vols), vols) /\ Processed(h, "file")
     \/ Unprocessed /\ UNCHANGED rows
  /\ agg' = NoVolumes

\* The last hour is behind: the rest of the markers is flushed.
Finish ==
  /\ pc = "running" /\ hour = MaxHour + 1
  /\ pc' = "idle" /\ hour' = 0
  /\ \/ marked' = marked \cup markerBuf
     \/ marked' = marked
  /\ done' = {} /\ markerBuf' = {} /\ agg' = NoVolumes
  /\ UNCHANGED <<rows, published, history, runs, writes>>

Iteration(h) ==
  Skip(h) \/ NoSource(h) \/ DownloadFails(h) \/ StreamFails(h) \/ Source(h)

Next ==
  \/ \E h \in Hour : Publish(h) \/ Iteration(h)
  \/ \E k \in Key : DeleteRow(k) \/ \E row \in OtherRow(k) : UpsertRow(k, row)
  \/ \E reset \in BOOLEAN : Start(reset)
  \/ Crash \/ Finish

Spec == Init /\ [][Next]_vars

-----------------------------------------------------------------------------
(* Properties *)

\* The hour after h was marked unknown, and with it the last bar of h.
TakenByNext(h, k) == k = h * K + K /\ h + 1 \in gaps

\* What the processing of hour h left in the row of k: the last bar of an hour
\* without file is not reached.
Written(h, k) ==
  /\ fate[h] # "none"
  /\ fate[h] = "file" => rows[k] = [vol |-> Liquidated[k], cov |-> 1] \/ TakenByNext(h, k)
  /\ fate[h] = "unknown" => rows[k] = [vol |-> Null, cov |-> 0] \/ k = h * K + K

\* An hour that a restart skips was written: whatever crashed, failed or was
\* reset before, its rows hold the whole volumes of its file, or unknown if it
\* had none; only its last bar may have been taken by the hour after it, and
\* the last bar of an hour without file is not reached.
MarkedHoursWritten ==
  \A h \in marked \cup markerBuf : \A k \in KeysOf(h) \ late : Present(k) => Written(h, k)

\* The volumes of a covered row are all of its file's, or the live stream's;
\* never those a failed read left behind or counted twice.
VolumesWhole ==
  \A k \in Key : Present(k) =>
    IF rows[k].cov = 1 THEN rows[k].vol \in {Live, Liquidated[k]} ELSE rows[k].vol = Null
=============================================================================
