-------------------------- MODULE LiqBackfillProofs --------------------------
(***************************************************************************)
(* Proofs about LiqBackfill for every length of an hour, every number of   *)
(* hours, every vendor file and every size of the marker buffer: its       *)
(* types, that covered rows hold whole volumes, and that the hours a       *)
(* restart skips were written.                                             *)
(*                                                                         *)
(* What a failed read left in the aggregator belongs to hours behind the   *)
(* worker (Behind), so the volumes of the hour at hand are the file's.     *)
(***************************************************************************)
EXTENDS LiqBackfill, TLAPS

\* The aggregator holds nothing of the hour at hand and of those after it.
Behind == \A k \in Key : k > hour * K => agg[k] = 0

\* A marker, buffered or written, is of a processed hour.
MarkersProcessed == \A h \in marked \cup markerBuf : fate[h] # "none"

IInv ==
  /\ TypeOK
  /\ Behind /\ MarkersProcessed
  /\ VolumesWhole /\ MarkedHoursWritten

-----------------------------------------------------------------------------
\* The keys of two hours are disjoint.
LEMMA KeysDisjoint ==
  ASSUME NEW g \in Hour, NEW h \in Hour, g # h, NEW k \in KeysOf(g)
  PROVE  k \notin KeysOf(h)
<1>1. K \in Nat \ {0} /\ MaxHour \in Nat
  BY NumberAssumption
<1>2. k \in Int /\ g * K < k /\ k <= g * K + K
  BY <1>1 DEF KeysOf, Key, Hour
<1>3. CASE g < h
  <2>1. g * K + K <= h * K
    BY <1>1, <1>3 DEF Hour
  <2> QED
    BY <1>1, <1>2, <2>1 DEF KeysOf, Hour
<1>4. CASE h < g
  <2>1. h * K + K <= g * K
    BY <1>1, <1>4 DEF Hour
  <2> QED
    BY <1>1, <1>2, <2>1 DEF KeysOf, Hour
<1> QED
  BY <1>1, <1>3, <1>4 DEF Hour

\* Marking hour h unknown reaches one bar of other hours: the last of h - 1.
LEMMA UnknownReach ==
  ASSUME NEW g \in Hour, NEW h \in Hour, g # h, NEW k \in KeysOf(g), k \in UnknownRange(h)
  PROVE  g + 1 = h /\ k = g * K + K
<1>1. K \in Nat \ {0} /\ MaxHour \in Nat
  BY NumberAssumption
<1>2. /\ k \in Int /\ g * K < k /\ k <= g * K + K
      /\ h * K <= k /\ k < h * K + K
  BY <1>1 DEF KeysOf, UnknownRange, Key, Hour
<1>3. ~ h < g
  <2>1. SUFFICES ASSUME h < g PROVE FALSE
    OBVIOUS
  <2>2. h * K + K <= g * K
    BY <1>1, <2>1 DEF Hour
  <2> QED
    BY <1>1, <1>2, <2>2 DEF Hour
<1>4. ~ g + 1 < h
  <2>1. SUFFICES ASSUME g + 1 < h PROVE FALSE
    OBVIOUS
  <2>2. g * K + K + K <= h * K
    BY <1>1, <2>1 DEF Hour
  <2> QED
    BY <1>1, <1>2, <2>2 DEF Hour
<1>5. g + 1 = h
  BY <1>1, <1>3, <1>4 DEF Hour
<1>6. h * K = g * K + K
  BY <1>1, <1>5 DEF Hour
<1> QED
  BY <1>1, <1>2, <1>5, <1>6 DEF Hour

\* The keys and the volumes are numbers; no row is one without a row.
LEMMA Values ==
  /\ K \in Nat \ {0} /\ MaxHour \in Nat /\ Key \subseteq Nat
  /\ \A k \in Key : Liquidated[k] \in Nat /\ Liquidated[k] # Null /\ Liquidated[k] # Live
<1>1. K \in Nat \ {0} /\ MaxHour \in Nat
  BY NumberAssumption
<1>2. Key \subseteq Nat
  BY <1>1 DEF Key
<1>3. \A k \in Key : Liquidated[k] \in Nat
  BY VolumeAssumption
<1> QED
  BY <1>1, <1>2, <1>3, VolumeAssumption

-----------------------------------------------------------------------------
\* What is left after an iteration that records nothing.
LEMMA UnprocessedStep ==
  ASSUME IInv, NEW h \in Hour, At(h), Unprocessed, UNCHANGED rows,
         agg' \in [Key -> Nat], \A k \in Key : k > h * K + K => agg'[k] = 0
  PROVE  IInv'
<1>1. h \in Nat /\ MaxHour \in Nat /\ K \in Nat \ {0} /\ Key \subseteq Nat
  BY Values DEF Hour
<1>2. TypeOK'
  BY <1>1 DEF IInv, TypeOK, At, Unprocessed, history, Hour
<1>3. Behind'
  <2>1. hour' = h + 1 /\ (h + 1) * K = h * K + K
    BY <1>1 DEF At
  <2> QED
    BY <2>1 DEF Behind
<1>4. MarkersProcessed' /\ VolumesWhole' /\ MarkedHoursWritten'
  BY DEF IInv, MarkersProcessed, VolumesWhole, MarkedHoursWritten, Written,
         TakenByNext, Present, Unprocessed, history
<1> QED
  BY <1>2, <1>3, <1>4 DEF IInv

\* What Processed records, whether or not the flush succeeds.
LEMMA ProcessedRecords ==
  ASSUME TypeOK, NEW h \in Hour, NEW how \in {"file", "unknown"}, Processed(h, how)
  PROVE  /\ marked' \cup markerBuf' \subseteq marked \cup markerBuf \cup {h}
         /\ marked' \subseteq Hour /\ markerBuf' \subseteq Hour
         /\ fate' = [fate EXCEPT ![h] = how] /\ fate' \in [Hour -> {"none", "file", "unknown"}]
         /\ gaps \subseteq gaps' /\ gaps' \subseteq Hour /\ (how = "unknown" => h \in gaps')
         /\ late' = late \ KeysOf(h) /\ late' \subseteq Key
<1>1. /\ marked' \cup markerBuf' \subseteq marked \cup markerBuf \cup {h}
      /\ marked' \subseteq Hour /\ markerBuf' \subseteq Hour
  BY DEF Processed, FlushMarkers, TypeOK
<1>2. /\ fate' = [fate EXCEPT ![h] = how] /\ fate' \in [Hour -> {"none", "file", "unknown"}]
      /\ late' = late \ KeysOf(h) /\ late' \subseteq Key
  BY DEF Processed, TypeOK
<1>3. gaps \subseteq gaps' /\ gaps' \subseteq Hour /\ (how = "unknown" => h \in gaps')
  BY DEF Processed, TypeOK
<1> QED
  BY <1>1, <1>2, <1>3

\* Iterations that leave the rows and the markers alone.
LEMMA SkipStep ==
  ASSUME IInv, NEW h \in Hour, Skip(h) \/ DownloadFails(h)
  PROVE  IInv'
<1>1. h \in Nat /\ K \in Nat /\ Key \subseteq Nat
  BY Values DEF Hour
<1>2. \A k \in Key : k > h * K + K => agg[k] = 0
  BY <1>1 DEF IInv, Behind, Skip, DownloadFails, At
<1> QED
  BY <1>2, UnprocessedStep DEF IInv, TypeOK, Skip, DownloadFails

\* The volumes after reading some of an hour.
LEMMA AccumulatedVolumes ==
  ASSUME TypeOK, NEW h \in Hour, NEW read, DOMAIN read = KeysOf(h), \A k \in KeysOf(h) : read[k] \in Nat
  PROVE  /\ Accumulated(read) \in [Key -> Nat]
         /\ \A k \in KeysOf(h) : Accumulated(read)[k] = agg[k] + read[k]
         /\ \A k \in Key \ KeysOf(h) : Accumulated(read)[k] = agg[k]
<1>1. KeysOf(h) \subseteq Key
  BY DEF KeysOf
<1> QED
  BY <1>1 DEF Accumulated, TypeOK

LEMMA StreamFailsStep ==
  ASSUME IInv, NEW h \in Hour, StreamFails(h)
  PROVE  IInv'
<1>1. h \in Nat /\ K \in Nat /\ MaxVolume \in Nat /\ Key \subseteq Nat
  BY Values, VolumeAssumption DEF Hour
<1>2. PICK read \in Parts(h) : agg' = Accumulated(read)
  BY DEF StreamFails
<1>3. DOMAIN read = KeysOf(h) /\ \A k \in KeysOf(h) : read[k] \in Nat
  BY <1>1, <1>2 DEF Parts
<1>4. agg' \in [Key -> Nat] /\ \A k \in Key \ KeysOf(h) : agg'[k] = agg[k]
  BY <1>2, <1>3, AccumulatedVolumes DEF IInv
<1>5. \A k \in Key : k > h * K + K => k \notin KeysOf(h) /\ k > h * K
  BY <1>1 DEF KeysOf
<1>6. hour = h
  BY DEF StreamFails, At
<1>7. \A k \in Key : k > h * K + K => agg'[k] = 0
  BY <1>4, <1>5, <1>6 DEF IInv, Behind
<1> QED
  BY <1>4, <1>7, UnprocessedStep DEF StreamFails

\* The hour has no file.
LEMMA NoSourceStep ==
  ASSUME IInv, NEW h \in Hour, NoSource(h)
  PROVE  IInv'
<1>1. h \in Nat /\ K \in Nat \ {0} /\ MaxHour \in Nat /\ Key \subseteq Nat
  BY Values DEF Hour
<1>2. \A k \in Key : k > h * K + K => agg[k] = 0
  BY <1>1 DEF IInv, Behind, NoSource, At
<1>3. CASE Unprocessed /\ UNCHANGED rows
  BY <1>2, <1>3, UnprocessedStep DEF IInv, TypeOK, NoSource
<1>4. CASE SetLiqUnknownRange(h) /\ Processed(h, "unknown")
  <2>1. TypeOK /\ "unknown" \in {"file", "unknown"}
    BY DEF IInv
  <2>2. /\ marked' \cup markerBuf' \subseteq marked \cup markerBuf \cup {h}
        /\ marked' \subseteq Hour /\ markerBuf' \subseteq Hour
        /\ fate' = [fate EXCEPT ![h] = "unknown"] /\ fate' \in [Hour -> {"none", "file", "unknown"}]
        /\ gaps \subseteq gaps' /\ gaps' \subseteq Hour /\ h \in gaps'
        /\ late' = late \ KeysOf(h) /\ late' \subseteq Key
    BY <1>4, <2>1, ProcessedRecords
  <2>3. /\ rows' \in [Key -> Row \cup {NoRow}]
        /\ \A k \in Key : rows'[k] = IF k \in UnknownRange(h) /\ Present(k)
                                     THEN [vol |-> Null, cov |-> 0] ELSE rows[k]
    BY <1>4, <2>1 DEF SetLiqUnknownRange, TypeOK, Row, Volume
  <2>4. TypeOK'
    BY <1>1, <2>1, <2>2, <2>3 DEF TypeOK, NoSource, At, Hour
  <2>5. Behind'
    <3>1. hour' = h + 1 /\ (h + 1) * K = h * K + K /\ agg' = agg
      BY <1>1 DEF NoSource, At
    <3> QED
      BY <3>1, <1>2 DEF Behind
  <2>6. MarkersProcessed'
    BY <2>1, <2>2 DEF IInv, MarkersProcessed, TypeOK
  <2>7. VolumesWhole'
    BY <2>3 DEF IInv, VolumesWhole, Present
  <2>8. MarkedHoursWritten'
    <3>1. SUFFICES ASSUME NEW g \in (marked \cup markerBuf)', NEW k \in KeysOf(g) \ late', Present(k)'
                   PROVE  Written(g, k)'
      BY DEF MarkedHoursWritten
    <3>2. g \in Hour /\ k \in Key /\ g \in Nat
      BY <1>1, <2>2 DEF KeysOf, Hour
    <3>3. Present(k)
      BY <2>3, <3>1, <3>2 DEF Present
    <3>4. CASE g = h
      <4>1. fate'[g] = "unknown"
        BY <2>1, <2>2, <3>4 DEF TypeOK
      <4>2. k \in UnknownRange(h) \/ k = h * K + K
        BY <1>1, <3>2, <3>4 DEF KeysOf, UnknownRange
      <4> QED
        BY <2>3, <3>2, <3>3, <3>4, <4>1, <4>2 DEF Written
    <3>5. CASE g # h
      <4>1. fate'[g] = fate[g] /\ g \in marked \cup markerBuf
        BY <2>1, <2>2, <3>2, <3>5 DEF TypeOK
      <4>2. k \notin late
        BY <2>2, <3>2, <3>5, KeysDisjoint
      <4>3. fate[g] # "none"
        BY <4>1 DEF IInv, MarkersProcessed
      <4>4. CASE k \in UnknownRange(h)
        <5>1. g + 1 = h /\ k = g * K + K
          BY <3>2, <3>5, <4>4, UnknownReach
        <5>2. TakenByNext(g, k)'
          BY <2>2, <5>1 DEF TakenByNext
        <5> QED
          BY <4>1, <4>3, <5>1, <5>2 DEF Written
      <4>5. CASE k \notin UnknownRange(h)
        <5>1. rows'[k] = rows[k]
          BY <2>3, <3>2, <4>5
        <5>2. TakenByNext(g, k) => TakenByNext(g, k)'
          BY <2>2 DEF TakenByNext
        <5> QED
          BY <3>3, <4>1, <4>2, <5>1, <5>2 DEF IInv, MarkedHoursWritten, Written
      <4> QED
        BY <4>4, <4>5
    <3> QED
      BY <3>4, <3>5
  <2> QED
    BY <2>4, <2>5, <2>6, <2>7, <2>8 DEF IInv
<1> QED
  BY <1>3, <1>4 DEF NoSource

\* The hour's file is read.
LEMMA SourceStep ==
  ASSUME IInv, NEW h \in Hour, Source(h)
  PROVE  IInv'
<1> DEFINE vols == Accumulated(Whole(h))
<1>1. h \in Nat /\ K \in Nat \ {0} /\ MaxHour \in Nat /\ Key \subseteq Nat
  BY Values DEF Hour
<1>2. TypeOK /\ agg' = NoVolumes /\ hour = h /\ hour' = h + 1 /\ "file" \in {"file", "unknown"}
  BY DEF IInv, Source, At
<1>3. KeysOf(h) \subseteq Key /\ \A k \in KeysOf(h) : k > h * K
  BY DEF KeysOf
<1>4. /\ vols \in [Key -> Nat]
      /\ \A k \in KeysOf(h) : vols[k] = Liquidated[k]
  <2>1. DOMAIN Whole(h) = KeysOf(h) /\ \A k \in KeysOf(h) : Whole(h)[k] = Liquidated[k] /\ Liquidated[k] \in Nat
    BY <1>3, Values DEF Whole
  <2>2. \A k \in KeysOf(h) : agg[k] = 0
    BY <1>2, <1>3 DEF IInv, Behind
  <2> QED
    BY <1>2, <2>1, <2>2, AccumulatedVolumes
<1>5. agg' \in [Key -> Nat] /\ \A k \in Key : agg'[k] = 0
  BY <1>2 DEF NoVolumes
<1>6. CASE Unprocessed /\ UNCHANGED rows
  BY <1>5, <1>6, UnprocessedStep DEF Source
<1>7. CASE SetLiqBars(Grid(h, vols), vols) /\ Processed(h, "file")
  <2>1. /\ marked' \cup markerBuf' \subseteq marked \cup markerBuf \cup {h}
        /\ marked' \subseteq Hour /\ markerBuf' \subseteq Hour
        /\ fate' = [fate EXCEPT ![h] = "file"] /\ fate' \in [Hour -> {"none", "file", "unknown"}]
        /\ gaps \subseteq gaps' /\ gaps' \subseteq Hour
        /\ late' = late \ KeysOf(h) /\ late' \subseteq Key
    BY <1>2, <1>7, ProcessedRecords
  <2>2. rows' = [k \in Key |-> IF k \in KeysOf(h) /\ Present(k)
                               THEN [vol |-> vols[k], cov |-> 1] ELSE rows[k]]
    BY <1>7 DEF SetLiqBars, Grid
  <2>3. \A k \in Key : rows'[k] = IF k \in KeysOf(h) /\ Present(k)
                                  THEN [vol |-> Liquidated[k], cov |-> 1] ELSE rows[k]
    BY <1>4, <2>2
  <2>4. rows' \in [Key -> Row \cup {NoRow}]
    BY <1>2, <1>3, <2>2, <2>3, Values DEF TypeOK, Row, Volume
  <2>5. TypeOK'
    BY <1>1, <1>2, <1>5, <2>1, <2>4 DEF TypeOK, Source, At, Hour
  <2>6. Behind'
    BY <1>5 DEF Behind
  <2>7. MarkersProcessed'
    BY <1>2, <2>1 DEF IInv, MarkersProcessed, TypeOK
  <2>8. VolumesWhole'
    <3>1. SUFFICES ASSUME NEW k \in Key, Present(k)'
                   PROVE  (IF rows[k].cov = 1 THEN rows[k].vol \in {Live, Liquidated[k]}
                                             ELSE rows[k].vol = Null)'
      BY DEF VolumesWhole
    <3>2. CASE k \in KeysOf(h) /\ Present(k)
      <4>1. rows'[k] = [vol |-> Liquidated[k], cov |-> 1]
        BY <2>3, <3>2
      <4> QED
        BY <4>1
    <3>3. CASE ~ (k \in KeysOf(h) /\ Present(k))
      <4>1. rows'[k] = rows[k]
        BY <2>3, <3>3
      <4>2. Present(k)
        BY <3>1, <4>1 DEF Present
      <4> QED
        BY <4>1, <4>2 DEF IInv, VolumesWhole
    <3> QED
      BY <3>2, <3>3
  <2>9. MarkedHoursWritten'
    <3>1. SUFFICES ASSUME NEW g \in (marked \cup markerBuf)', NEW k \in KeysOf(g) \ late', Present(k)'
                   PROVE  Written(g, k)'
      BY DEF MarkedHoursWritten
    <3>2. g \in Hour /\ k \in Key
      BY <2>1 DEF KeysOf
    <3>3. Present(k)
      BY <2>3, <3>1, <3>2 DEF Present
    <3>4. CASE g = h
      <4>1. fate'[g] = "file"
        BY <1>2, <2>1, <3>4 DEF TypeOK
      <4> QED
        BY <2>3, <3>2, <3>3, <3>4, <4>1 DEF Written
    <3>5. CASE g # h
      <4>1. fate'[g] = fate[g] /\ g \in marked \cup markerBuf
        BY <1>2, <2>1, <3>2, <3>5 DEF TypeOK
      <4>2. k \notin KeysOf(h) /\ k \notin late
        BY <2>1, <3>2, <3>5, KeysDisjoint
      <4>3. rows'[k] = rows[k]
        BY <2>3, <3>2, <4>2
      <4>4. TakenByNext(g, k) => TakenByNext(g, k)'
        BY <2>1 DEF TakenByNext
      <4> QED
        BY <3>3, <4>1, <4>2, <4>3, <4>4 DEF IInv, MarkedHoursWritten, Written
    <3> QED
      BY <3>4, <3>5
  <2> QED
    BY <2>5, <2>6, <2>7, <2>8, <2>9 DEF IInv
<1> QED
  BY <1>6, <1>7 DEF Source

-----------------------------------------------------------------------------
\* A write of another process that leaves no row of a processed hour changed
\* without telling: it deletes the row of k or adds k to late, if at all.
LEMMA OtherStep ==
  ASSUME IInv, NEW k \in Key, NEW row \in Row \cup {NoRow},
         rows' = [rows EXCEPT ![k] = row],
         row = NoRow \/ (IF row.cov = 1 THEN row.vol \in {Live, Liquidated[k]} ELSE row.vol = Null),
         late \subseteq late', late' \subseteq Key,
         row = NoRow \/ row = rows[k]
           \/ \A h \in Hour : k \in KeysOf(h) /\ fate[h] # "none" => k \in late',
         writes' \in 0..MaxWrites, UNCHANGED <<marked, published, worker, fate, gaps, runs>>
  PROVE  IInv'
<1>1. TypeOK
  BY DEF IInv
<1>2. rows' \in [Key -> Row \cup {NoRow}] /\ \A j \in Key : rows'[j] = IF j = k THEN row ELSE rows[j]
  BY <1>1 DEF TypeOK
<1>3. TypeOK'
  BY <1>1, <1>2 DEF TypeOK, worker
<1>4. Behind' /\ MarkersProcessed'
  BY DEF IInv, Behind, MarkersProcessed, worker
<1>5. VolumesWhole'
  BY <1>2 DEF IInv, VolumesWhole, Present
<1>6. MarkedHoursWritten'
  <2>1. SUFFICES ASSUME NEW h \in marked \cup markerBuf, NEW j \in KeysOf(h) \ late', Present(j)'
                 PROVE  Written(h, j)'
    BY DEF MarkedHoursWritten, worker
  <2>2. h \in Hour /\ j \in Key /\ fate[h] # "none"
    BY <1>1 DEF TypeOK, KeysOf, IInv, MarkersProcessed
  <2>3. rows'[j] = rows[j]
    BY <1>2, <2>1, <2>2 DEF Present
  <2>4. Present(j) /\ j \notin late
    BY <2>1, <2>3 DEF Present
  <2> QED
    BY <2>3, <2>4 DEF IInv, MarkedHoursWritten, Written, TakenByNext
<1> QED
  BY <1>3, <1>4, <1>5, <1>6 DEF IInv

\* A bar of another writer over an existing row: its volumes win unless they
\* are unknown, and then the row stays as it was.
LEMMA UpsertedWhole ==
  ASSUME IInv, NEW k \in Key, NEW row \in OtherRow(k)
  PROVE  /\ Upserted(k, row) \in Row
         /\ IF Upserted(k, row).cov = 1 THEN Upserted(k, row).vol \in {Live, Liquidated[k]}
                                        ELSE Upserted(k, row).vol = Null
<1>1. Liquidated[k] \in Nat /\ Liquidated[k] # Null /\ Live # Null
  BY Values, VolumeAssumption
<1>2. /\ row.vol \in {Live, Liquidated[k], Null} /\ row.cov \in {0, 1} /\ row \in Row
      /\ row.cov = 1 <=> row.vol # Null
  BY <1>1 DEF OtherRow, Row, Volume
<1>3. CASE ~ Present(k)
  BY <1>1, <1>2, <1>3 DEF Upserted
<1>4. CASE Present(k)
  <2>1. /\ rows[k] \in Row
        /\ IF rows[k].cov = 1 THEN rows[k].vol \in {Live, Liquidated[k]} ELSE rows[k].vol = Null
    BY <1>4 DEF IInv, TypeOK, VolumesWhole, Present
  <2>2. rows[k].vol \in Volume /\ rows[k].cov \in {0, 1}
    BY <2>1 DEF Row
  <2>3. Upserted(k, row) = [vol |-> IF row.vol # Null THEN row.vol ELSE rows[k].vol,
                            cov |-> IF row.cov = 1 THEN 1 ELSE rows[k].cov]
    BY <1>4 DEF Upserted
  <2>4. CASE row.cov = 1
    BY <1>1, <1>2, <2>3, <2>4 DEF Row, Volume
  <2>5. CASE row.cov = 0
    <3>1. Upserted(k, row) = [vol |-> rows[k].vol, cov |-> rows[k].cov]
      BY <1>2, <2>3, <2>5
    <3> QED
      BY <2>1, <2>2, <3>1 DEF Row
  <2> QED
    BY <1>2, <2>4, <2>5
<1> QED
  BY <1>3, <1>4

LEMMA UpsertRowStep ==
  ASSUME IInv, NEW k \in Key, NEW row \in OtherRow(k), UpsertRow(k, row)
  PROVE  IInv'
<1> DEFINE new == Upserted(k, row)
<1>1. TypeOK
  BY DEF IInv
<1>2. new \in Row /\ IF new.cov = 1 THEN new.vol \in {Live, Liquidated[k]} ELSE new.vol = Null
  BY UpsertedWhole
<1>3. rows' = [rows EXCEPT ![k] = new] /\ UNCHANGED <<marked, published, worker, fate, gaps, runs>>
  BY DEF UpsertRow
<1> HIDE DEF new
<1>4. rows'[k] = new
  BY <1>1, <1>3 DEF TypeOK
<1>5. /\ late \subseteq late' /\ late' \subseteq Key
      /\ new = rows[k] \/ \A h \in Hour : k \in KeysOf(h) /\ fate[h] # "none" => k \in late'
  BY <1>1, <1>4 DEF UpsertRow, TypeOK
<1>6. writes' \in 0..MaxWrites
  BY <1>1, NumberAssumption DEF UpsertRow, TypeOK
<1> QED
  BY <1>2, <1>3, <1>5, <1>6, OtherStep

LEMMA DeleteRowStep ==
  ASSUME IInv, NEW k \in Key, DeleteRow(k)
  PROVE  IInv'
<1>1. TypeOK
  BY DEF IInv
<1>2. writes' \in 0..MaxWrites
  BY <1>1, NumberAssumption DEF DeleteRow, TypeOK
<1>3. late' = late /\ late \subseteq Key /\ UNCHANGED <<marked, published, worker, fate, gaps, runs>>
  BY <1>1 DEF DeleteRow, TypeOK, history
<1>4. rows' = [rows EXCEPT ![k] = NoRow] /\ NoRow \in Row \cup {NoRow}
  BY DEF DeleteRow
<1> QED
  BY <1>2, <1>3, <1>4, OtherStep

\* Steps that empty the aggregator and add no marker.
LEMMA FreshStep ==
  ASSUME IInv, TypeOK', agg' = NoVolumes, UNCHANGED <<rows, history, writes>>,
         marked' \cup markerBuf' \subseteq marked \cup markerBuf
  PROVE  IInv'
<1>1. Behind'
  BY DEF Behind, NoVolumes
<1>2. MarkersProcessed' /\ VolumesWhole' /\ MarkedHoursWritten'
  BY DEF IInv, MarkersProcessed, VolumesWhole, MarkedHoursWritten, Written,
         TakenByNext, Present, history
<1> QED
  BY <1>1, <1>2 DEF IInv

LEMMA RunSteps ==
  ASSUME IInv, (\E reset \in BOOLEAN : Start(reset)) \/ Crash \/ Finish
  PROVE  IInv'
<1>1. TypeOK /\ MaxHour \in Nat /\ MaxRuns \in Nat /\ NoVolumes \in [Key -> Nat]
  BY NumberAssumption DEF IInv, NoVolumes
<1>2. ASSUME NEW reset \in BOOLEAN, Start(reset) PROVE IInv'
  <2>1. TypeOK' /\ marked' \cup markerBuf' \subseteq marked \cup markerBuf
    BY <1>1, <1>2 DEF TypeOK, Start, history
  <2> QED
    BY <1>2, <2>1, FreshStep DEF Start
<1>3. CASE Crash
  <2>1. TypeOK' /\ marked' \cup markerBuf' \subseteq marked \cup markerBuf
    BY <1>1, <1>3 DEF TypeOK, Crash, history
  <2> QED
    BY <1>3, <2>1, FreshStep DEF Crash
<1>4. CASE Finish
  <2>1. TypeOK' /\ marked' \cup markerBuf' \subseteq marked \cup markerBuf
    BY <1>1, <1>4 DEF TypeOK, Finish, history
  <2> QED
    BY <1>4, <2>1, FreshStep DEF Finish
<1> QED
  BY <1>2, <1>3, <1>4

\* Steps that leave everything but the vendor's files alone.
LEMMA PublishStep ==
  ASSUME IInv, published' \subseteq Hour, UNCHANGED <<rows, marked, worker, history, runs, writes>>
  PROVE  IInv'
BY DEF IInv, TypeOK, Behind, MarkersProcessed, VolumesWhole, MarkedHoursWritten, Written,
       TakenByNext, Present, worker, history

LEMMA Initially ==
  ASSUME Init
  PROVE  IInv
<1>1. MaxHour \in Nat /\ MaxRuns \in Nat /\ MaxWrites \in Nat
  BY NumberAssumption
<1>2. TypeOK
  BY <1>1 DEF Init, TypeOK, NoVolumes, Row, Volume
<1>3. Behind /\ MarkersProcessed /\ MarkedHoursWritten
  BY DEF Init, Behind, NoVolumes, MarkersProcessed, MarkedHoursWritten
<1>4. VolumesWhole
  BY DEF Init, VolumesWhole, Present
<1> QED
  BY <1>2, <1>3, <1>4 DEF IInv

LEMMA Invariance ==
  ASSUME IInv, [Next]_vars
  PROVE  IInv'
<1>1. ASSUME NEW h \in Hour, Publish(h) PROVE IInv'
  <2>1. published' \subseteq Hour
    BY <1>1 DEF IInv, TypeOK, Publish
  <2> QED
    BY <1>1, <2>1, PublishStep DEF Publish
<1>2. ASSUME NEW h \in Hour, Iteration(h) PROVE IInv'
  BY <1>2, SkipStep, NoSourceStep, StreamFailsStep, SourceStep DEF Iteration
<1>3. CASE UNCHANGED vars
  BY <1>3, PublishStep DEF vars, IInv, TypeOK
<1> QED
  BY <1>1, <1>2, <1>3, UpsertRowStep, DeleteRowStep, RunSteps DEF Next

LEMMA Inductive == Spec => []IInv
<1>1. Init => IInv
  BY Initially
<1>2. IInv /\ [Next]_vars => IInv'
  BY Invariance
<1> QED
  BY <1>1, <1>2, PTL DEF Spec

-----------------------------------------------------------------------------
\* The rows, the markers and the worker of the backfill keep their types, for
\* every length of an hour and every vendor file.
THEOREM TypeCorrect == Spec => []TypeOK
<1>1. IInv => TypeOK
  BY DEF IInv
<1> QED
  BY <1>1, Inductive, PTL

\* A covered row never holds what a failed read of its file left behind, or a
\* minute counted twice, whichever hours failed and were run again.
THEOREM WholeTheorem == Spec => []VolumesWhole
<1>1. IInv => VolumesWhole
  BY DEF IInv
<1> QED
  BY <1>1, Inductive, PTL

\* What a restart skips was written, whatever crashed, failed or was lost
\* before the marker was, and however full the buffer.
THEOREM MarkedTheorem == Spec => []MarkedHoursWritten
<1>1. IInv => MarkedHoursWritten
  BY DEF IInv
<1> QED
  BY <1>1, Inductive, PTL
=============================================================================
