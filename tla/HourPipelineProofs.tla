-------------------------- MODULE HourPipelineProofs --------------------------
(***************************************************************************)
(* Proofs about HourPipeline for any number of minutes in an hour, hours   *)
(* in a range, runs and live bars: what an hour that was written keeps.    *)
(*                                                                         *)
(* A run takes its hours in order, so what it writes for one can be        *)
(* touched by a later one only through the minute that both windows claim, *)
(* or through trades of a failed hour, which stay in the aggregator.  The  *)
(* invariant says that these belong to hours that were not written.        *)
(***************************************************************************)
EXTENDS HourPipeline, WellFoundedInduction, TLAPS

\* A bar counts all trades of its minute or misses some.
Counted ==
  \A k \in Key : /\ Present(k) => rows[k].tc \in {Partial, Complete}
                 /\ bars[k] # NoRow => bars[k].tc \in {Partial, Complete}

\* A run goes through its hours in order.
InOrder ==
  /\ todo = {} <=> pc = "idle"
  /\ \A h \in wrote, g \in todo : h < g
  /\ \A h \in wrote \cup todo : h <= past

\* k is a minute of an hour that failed before.
Leftover(k) == \E f \in Hour \ wrote : k \in KeysOf(f) /\ \A g \in todo : f < g

\* Between two hours the aggregator has only what failed hours left there.
Gathered == \A k \in Key : agg[k] # "none" => Leftover(k)

\* The bars on their way to the table are those of the hour in hand, all its
\* minutes and complete, and what failed hours left.
InHand ==
  pc \in {"delete", "insert"} =>
    \A k \in Key :
      IF k \in KeysOf(Current)
      THEN bars[k] # NoRow /\ bars[k].tc = Complete /\ Sources(bars[k]) = {Hist}
      ELSE bars[k] # NoRow => Leftover(k)

\* An overwriting insert finds nothing in the minutes the delete selected.
Cleared == pc = "insert" /\ mode = "overwrite" => \A k \in Inside(Current) : rows[k] = NoRow

IInv ==
  /\ TypeOK /\ Counted /\ InOrder /\ Gathered /\ InHand /\ Cleared
  /\ WrittenHoursComplete /\ OverwrittenInsideUnmixed

-----------------------------------------------------------------------------
\* Hours and keys.
LEMMA Shape ==
  /\ K \in Nat /\ K > 0 /\ MaxHour \in Nat /\ MaxRuns \in Nat /\ MaxLive \in Nat
  /\ Hour \subseteq Nat /\ \A h \in Hour : h <= MaxHour
  /\ (MaxHour + 1) * K \in Nat /\ Key = 0..(MaxHour + 1) * K /\ Key \subseteq Nat
<1>1. K \in Nat /\ K > 0 /\ MaxHour \in Nat /\ MaxRuns \in Nat /\ MaxLive \in Nat
  BY ShapeAssumption
<1>2. (MaxHour + 1) * K \in Nat
  BY <1>1
<1> QED
  BY <1>1, <1>2 DEF Hour, Key

\* A set of hours has a first one.
LEMMA Least ==
  ASSUME NEW T, T \subseteq Nat, T # {}
  PROVE  \E h \in T : \A g \in T : h <= g
<1> DEFINE R == {ss \in Nat \X Nat : ss[1] < ss[2]}
<1>1. IsWellFoundedOn(R, Nat)
  BY NatLessThanWellFounded DEF OpToRel
<1>2. \E h \in T : \A g \in T : ~ (<<g, h>> \in R)
  <2> HIDE DEF R
  <2> QED
    BY <1>1, WFMin
<1>3. \A g \in Nat, h \in Nat : ~ (<<g, h>> \in R) => h <= g
  OBVIOUS
<1> HIDE DEF R
<1> QED
  BY <1>2, <1>3

LEMMA CurrentLeast ==
  ASSUME TypeOK, todo # {}
  PROVE  Current \in todo /\ Current \in Hour /\ Current \in Nat /\ \A g \in todo : Current <= g
<1>1. todo \subseteq Hour
  BY DEF TypeOK
<1>2. \E h \in todo : \A g \in todo : h <= g
  BY <1>1, Least, Shape
<1> QED
  BY <1>1, <1>2, Shape DEF Current

\* The first key of a later hour is past the last key of an earlier one.
LEMMA Products ==
  ASSUME NEW h \in Nat, NEW g \in Nat
  PROVE  /\ h * K \in Nat /\ (h + 1) * K = h * K + K /\ (h + 1) * K \in Nat
         /\ h < g => (h + 1) * K <= g * K
<1>1. h * K \in Nat /\ (h + 1) * K = h * K + K
  BY Shape
<1>2. ASSUME h < g PROVE (h + 1) * K <= g * K
  <2>1. PICK d \in Nat : g = h + 1 + d
    BY <1>2, g - h - 1 \in Nat
  <2>2. g * K = (h + 1) * K + d * K
    BY <2>1, Shape
  <2>3. d * K \in Nat
    BY Shape
  <2> QED
    BY <1>1, <2>2, <2>3, Shape
<1> QED
  BY <1>1, <1>2, Shape

LEMMA KeyRange ==
  ASSUME NEW h \in Hour, NEW k \in KeysOf(h)
  PROVE  k \in Key /\ k \in Nat /\ h * K < k /\ k <= (h + 1) * K
<1>1. h \in Nat /\ h <= MaxHour
  BY Shape
<1>2. (h + 1) * K <= (MaxHour + 1) * K
  BY <1>1, Products, Shape, h < MaxHour + 1, MaxHour + 1 \in Nat
<1> QED
  BY <1>1, <1>2, Products, Shape DEF KeysOf

LEMMA Disjoint ==
  ASSUME NEW h \in Hour, NEW g \in Hour, NEW k \in KeysOf(h), k \in KeysOf(g)
  PROVE  h = g
<1>1. h \in Nat /\ g \in Nat
  BY Shape
<1>2. h * K < k /\ k <= (h + 1) * K /\ g * K < k /\ k <= (g + 1) * K /\ k \in Nat
  BY KeyRange
<1>3. ~ (h < g)
  BY <1>1, <1>2, Products
<1>4. ~ (g < h)
  BY <1>1, <1>2, Products
<1> QED
  BY <1>1, <1>3, <1>4

LEMMA Insides ==
  ASSUME NEW h \in Hour, NEW k \in Inside(h)
  PROVE  k \in KeysOf(h) /\ k \in Window(h) /\ k \in Key
<1>1. k \in KeysOf(h) /\ k # (h + 1) * K
  BY DEF Inside
<1>2. h * K < k /\ k <= (h + 1) * K /\ k \in Nat /\ k \in Key
  BY <1>1, KeyRange
<1> QED
  BY <1>1, <1>2, Products, Shape DEF Window

\* A later hour's delete takes the last minute of the hour before, no more.
LEMMA WindowReach ==
  ASSUME NEW h \in Hour, NEW c \in Hour, h < c, NEW k \in KeysOf(h), k \in Window(c)
  PROVE  c = h + 1 /\ k \notin Inside(h)
<1>1. h \in Nat /\ c \in Nat
  BY Shape
<1>2. k <= (h + 1) * K /\ k \in Nat /\ c * K <= k
  BY KeyRange, <1>1, Products DEF Window
<1>3. (h + 1) * K <= c * K /\ (h + 1) * K \in Nat /\ c * K \in Nat
  BY <1>1, Products
<1>4. k = (h + 1) * K
  BY <1>2, <1>3
<1>5. ~ (h + 1 < c)
  <2> SUFFICES ASSUME h + 1 < c PROVE FALSE
    OBVIOUS
  <2>1. (h + 1 + 1) * K <= c * K /\ (h + 1 + 1) * K = (h + 1) * K + K
    BY <1>1, Products, h + 1 \in Nat
  <2> QED
    BY <1>2, <1>3, <1>4, <2>1, Shape
<1> QED
  BY <1>1, <1>4, <1>5 DEF Inside

\* A live bar comes after every hour a run was asked for.
LEMMA LiveLater ==
  ASSUME TypeOK, NEW h \in Hour, h <= past, NEW k \in Key, k > (past + 1) * K
  PROVE  k \notin KeysOf(h)
<1>1. h \in Nat /\ past \in Nat /\ k \in Nat
  BY Shape DEF TypeOK
<1>2. (h + 1) * K <= (past + 1) * K
  BY <1>1, Products, h < past + 1, past + 1 \in Nat
<1>3. (h + 1) * K \in Nat /\ (past + 1) * K \in Nat
  BY <1>1, Products
<1> QED
  BY <1>1, <1>2, <1>3, KeyRange

-----------------------------------------------------------------------------
\* Rows and bars.
LEMMA MergeRow ==
  ASSUME NEW r \in Row, NEW b \in Row
  PROVE  /\ Merge(r, b) \in Row
         /\ r.tc \in {Partial, Complete} /\ b.tc \in {Partial, Complete} =>
              /\ Merge(r, b).tc \in {Partial, Complete}
              /\ b.tc = Complete => Merge(r, b).tc = Complete
<1>1. Merge(r, b) \in Row
  BY DEF Row, Merge, Greatest, Coalesce, Wins
<1>2. Merge(r, b).tc = Greatest(r.tc, b.tc)
  BY DEF Merge
<1> QED
  BY <1>1, <1>2 DEF Greatest, Partial, Complete

LEMMA BuiltRow ==
  ASSUME NEW s \in Source, NEW n \in {Partial, Complete}, NEW liq \in Source \cup {Null}
  PROVE  /\ BuiltBar(s, n, liq) \in Row /\ BuiltBar(s, n, liq) # NoRow
         /\ BuiltBar(s, n, liq).tc = n
         /\ liq \in {s, Null} => Sources(BuiltBar(s, n, liq)) = {s}
<1>1. BuiltBar(s, n, liq) \in Row
  BY DEF BuiltBar, Row, Partial, Complete
<1>2. BuiltBar(s, n, liq).tc = n
  BY DEF BuiltBar
<1>3. ASSUME liq \in {s, Null} PROVE Sources(BuiltBar(s, n, liq)) = {s}
  <2>1. s # Null
    BY NullAssumption
  <2> QED
    BY <1>3, <2>1 DEF Sources, BuiltBar
<1> QED
  BY <1>1, <1>2, <1>3, NoRowAssumption

\* A row after an upsert.
LEMMA Upserted ==
  ASSUME TypeOK, NEW bs \in [Key -> Row \cup {NoRow}], Upsert(bs)
  PROVE  /\ rows' \in [Key -> Row \cup {NoRow}]
         /\ \A k \in Key : /\ bs[k] = NoRow => rows'[k] = rows[k]
                           /\ bs[k] # NoRow => /\ rows'[k] # NoRow
                                               /\ rows[k] = NoRow => rows'[k] = bs[k]
                                               /\ rows[k] # NoRow => rows'[k] = Merge(rows[k], bs[k])
<1>1. \A k \in Key : rows'[k] = IF bs[k] = NoRow THEN rows[k]
                                ELSE IF rows[k] # NoRow THEN Merge(rows[k], bs[k]) ELSE bs[k]
  BY DEF Upsert, Present
<1>2. \A k \in Key : bs[k] # NoRow /\ rows[k] # NoRow =>
                       Merge(rows[k], bs[k]) \in Row /\ Merge(rows[k], bs[k]) # NoRow
  BY MergeRow, NoRowAssumption DEF TypeOK
<1>3. \A k \in Key : rows'[k] \in Row \cup {NoRow}
  BY <1>1, <1>2 DEF TypeOK
<1> QED
  BY <1>1, <1>2, <1>3 DEF Upsert

LEMMA UpsertCounts ==
  ASSUME TypeOK, NEW bs \in [Key -> Row \cup {NoRow}], Upsert(bs), NEW k \in Key,
         rows[k] # NoRow => rows[k].tc \in {Partial, Complete},
         bs[k] # NoRow => bs[k].tc \in {Partial, Complete}
  PROVE  /\ rows'[k] # NoRow => rows'[k].tc \in {Partial, Complete}
         /\ bs[k] # NoRow /\ bs[k].tc = Complete => rows'[k] # NoRow /\ rows'[k].tc = Complete
<1>1. /\ bs[k] = NoRow => rows'[k] = rows[k]
      /\ bs[k] # NoRow => /\ rows'[k] # NoRow
                          /\ rows[k] = NoRow => rows'[k] = bs[k]
                          /\ rows[k] # NoRow => rows'[k] = Merge(rows[k], bs[k])
  BY Upserted
<1>2. CASE bs[k] # NoRow /\ rows[k] # NoRow
  <2>1. rows[k] \in Row /\ bs[k] \in Row
    BY <1>2 DEF TypeOK
  <2> QED
    BY <1>1, <1>2, <2>1, MergeRow
<1>3. CASE ~ (bs[k] # NoRow /\ rows[k] # NoRow)
  BY <1>1, <1>3
<1> QED
  BY <1>2, <1>3

\* What Process hands on.
LEMMA Finalized ==
  ASSUME TypeOK, NEW liqSucceeded \in BOOLEAN, NEW built \in [Key -> {"none", "part", "full"}]
  PROVE  LET bs == Finalize(built, liqSucceeded) IN
         /\ bs \in [Key -> Row \cup {NoRow}]
         /\ \A k \in Key : /\ built[k] = "none" <=> bs[k] = NoRow
                           /\ bs[k] # NoRow => bs[k].tc \in {Partial, Complete}
                           /\ built[k] = "full" => bs[k].tc = Complete
                           /\ built[k] # "none" /\ k \in KeysOf(Current) => Sources(bs[k]) = {Hist}
<1> DEFINE bs == Finalize(built, liqSucceeded)
           liq(k) == CASE ~ liqSucceeded -> Null [] k \in KeysOf(Current) -> Hist [] OTHER -> Leak
           n(k) == IF built[k] = "full" THEN Complete ELSE Partial
<1>1. \A k \in Key : bs[k] = IF built[k] = "none" THEN NoRow ELSE BuiltBar(Hist, n(k), liq(k))
  BY DEF Finalize
<1>2. \A k \in Key : liq(k) \in Source \cup {Null} /\ n(k) \in {Partial, Complete}
                     /\ (k \in KeysOf(Current) => liq(k) \in {Hist, Null})
  BY SourceAssumption
<1>3. Hist \in Source
  BY SourceAssumption
<1>4. \A k \in Key : /\ BuiltBar(Hist, n(k), liq(k)) \in Row
                     /\ BuiltBar(Hist, n(k), liq(k)) # NoRow
                     /\ BuiltBar(Hist, n(k), liq(k)).tc = n(k)
                     /\ k \in KeysOf(Current) => Sources(BuiltBar(Hist, n(k), liq(k))) = {Hist}
  <2> HIDE DEF liq, n
  <2> QED
    BY <1>2, <1>3, BuiltRow
<1>5. bs = [k \in Key |-> bs[k]]
  BY DEF Finalize
<1>6. \A k \in Key : built[k] = "full" => n(k) = Complete
  OBVIOUS
<1> HIDE DEF bs, n, liq
<1>7. \A k \in Key : bs[k] \in Row \cup {NoRow}
  BY <1>1, <1>4
<1>8. bs \in [Key -> Row \cup {NoRow}]
  BY <1>5, <1>7
<1>9. \A k \in Key : /\ built[k] = "none" <=> bs[k] = NoRow
                     /\ bs[k] # NoRow => bs[k].tc \in {Partial, Complete}
                     /\ built[k] = "full" => bs[k].tc = Complete
                     /\ built[k] # "none" /\ k \in KeysOf(Current) => Sources(bs[k]) = {Hist}
  BY <1>1, <1>2, <1>4, <1>6
<1> QED
  BY <1>8, <1>9 DEF bs

-----------------------------------------------------------------------------
\* Steps.
LEMMA LiveEffect ==
  ASSUME TypeOK, LiveInsert
  PROVE  /\ \E bs \in [Key -> Row \cup {NoRow}] :
              /\ Upsert(bs)
              /\ \A k \in Key : bs[k] # NoRow => k > (past + 1) * K /\ bs[k].tc \in {Partial, Complete}
         /\ lives' = lives + 1 /\ lives < MaxLive
         /\ UNCHANGED <<avail, pc, mode, todo, agg, bars, found, asked, deleted, wrote, past, runs>>
<1>1. PICK k \in Key \ {0}, n \in {Partial, Complete}, liq \in {Live, Null} :
        /\ k > (past + 1) * K
        /\ Upsert([Nothing EXCEPT ![k] = BuiltBar(Live, n, liq)])
  BY DEF LiveInsert
<1>2. Live \in Source
  BY SourceAssumption
<1>3. BuiltBar(Live, n, liq) \in Row /\ BuiltBar(Live, n, liq).tc = n
  BY <1>2, BuiltRow
<1> DEFINE bs == [Nothing EXCEPT ![k] = BuiltBar(Live, n, liq)]
<1>4. bs \in [Key -> Row \cup {NoRow}]
  BY <1>3 DEF Nothing
<1>5. \A j \in Key : bs[j] # NoRow => j = k /\ bs[j] = BuiltBar(Live, n, liq)
  BY DEF Nothing
<1>6. \A j \in Key : bs[j] # NoRow => j > (past + 1) * K /\ bs[j].tc \in {Partial, Complete}
  BY <1>1, <1>3, <1>5
<1>7. Upsert(bs)
  BY <1>1
<1> HIDE DEF bs
<1> QED
  BY <1>4, <1>6, <1>7 DEF LiveInsert

\* What a processed hour hands on: the aggregator's minutes and its own.
LEMMA ProcessEffect ==
  ASSUME TypeOK, Process
  PROVE  \E built \in [Key -> {"none", "part", "full"}], liqSucceeded \in BOOLEAN :
           /\ \A k \in Key : built[k] = IF k \in KeysOf(Current) THEN "full" ELSE agg[k]
           /\ bars' = Finalize(built, liqSucceeded)
<1>1. PICK liqSucceeded \in BOOLEAN :
        bars' = Finalize([k \in Key |-> IF k \in KeysOf(Current) THEN "full" ELSE agg[k]], liqSucceeded)
  BY DEF Process
<1> DEFINE built == [k \in Key |-> IF k \in KeysOf(Current) THEN "full" ELSE agg[k]]
<1>2. built \in [Key -> {"none", "part", "full"}]
  BY DEF TypeOK
<1>3. \A k \in Key : built[k] = IF k \in KeysOf(Current) THEN "full" ELSE agg[k]
  OBVIOUS
<1> QED
  BY <1>1, <1>2, <1>3

LEMMA TypeStep ==
  ASSUME TypeOK, InOrder, [Next]_vars
  PROVE  TypeOK'
<1> USE DEF TypeOK
<1>1. CASE LiveInsert
  <2>1. rows' \in [Key -> Row \cup {NoRow}]
    BY <1>1, LiveEffect, Upserted
  <2>2. lives' \in 0..MaxLive
    BY <1>1, LiveEffect, Shape
  <2> QED
    BY <1>1, <2>1, <2>2, LiveEffect
<1>2. CASE Run
  <2>1. PICK start \in Hour, end \in Hour, m \in Modes :
          /\ start <= end
          /\ mode' = m
          /\ asked' = start..end
          /\ past' = IF end > past THEN end ELSE past
          /\ todo' = {h \in start..end : ~ BeforeFirst(h) /\ (m = "resume" => ~ Exists(h))}
          /\ pc' = IF todo' = {} THEN "idle" ELSE "process"
    BY <1>2 DEF Run
  <2>2. start..end \subseteq Hour
    BY Shape DEF Hour
  <2>3. runs' \in 0..MaxRuns
    BY <1>2, Shape DEF Run
  <2>4. agg' \in [Key -> {"none", "part", "full"}]
    BY <1>2 DEF Run, Fresh
  <2> QED
    BY <1>2, <2>1, <2>2, <2>3, <2>4 DEF Run
<1>3. CASE SkipUnavailable
  BY <1>3 DEF SkipUnavailable, Advance, history
<1>4. CASE FailTrades
  <2>1. agg' \in [Key -> {"none", "part", "full"}]
    BY <1>4 DEF FailTrades
  <2> QED
    BY <1>4, <2>1 DEF FailTrades, Advance, history
<1>5. CASE Process
  <2>1. bars' \in [Key -> Row \cup {NoRow}]
    BY <1>5, ProcessEffect, Finalized
  <2> QED
    BY <1>5, <2>1 DEF Process, Fresh, history
<1>6. CASE DeleteOrderbookBars
  <2>1. Current \in Hour
    BY <1>6, CurrentLeast DEF DeleteOrderbookBars, InOrder
  <2>2. rows' \in [Key -> Row \cup {NoRow}]
    BY <1>6 DEF DeleteOrderbookBars
  <2> QED
    BY <1>6, <2>1, <2>2 DEF DeleteOrderbookBars
<1>7. CASE InsertOrderbookBars
  <2>1. Current \in Hour
    BY <1>7, CurrentLeast DEF InsertOrderbookBars, InOrder
  <2>2. rows' \in [Key -> Row \cup {NoRow}]
    BY <1>7, Upserted DEF InsertOrderbookBars
  <2> QED
    BY <1>7, <2>1, <2>2 DEF InsertOrderbookBars, Advance, Nothing
<1>8. CASE FailDatabase
  BY <1>8 DEF FailDatabase, Advance, Nothing, history
<1>9. CASE Crash
  BY <1>9 DEF Crash, Nothing, Fresh, history
<1>10. CASE Done \/ UNCHANGED vars
  BY <1>10 DEF Done, vars, history
<1> QED
  BY <1>1, <1>2, <1>3, <1>4, <1>5, <1>6, <1>7, <1>8, <1>9, <1>10 DEF Next

LEMMA CountedStep ==
  ASSUME TypeOK, Counted, [Next]_vars
  PROVE  Counted'
<1>1. ASSUME NEW bs \in [Key -> Row \cup {NoRow}], Upsert(bs), bars' \in {bars, Nothing},
             \A k \in Key : bs[k] # NoRow => bs[k].tc \in {Partial, Complete}
      PROVE  Counted'
  <2>1. \A k \in Key : rows'[k] # NoRow => rows'[k].tc \in {Partial, Complete}
    BY <1>1, UpsertCounts DEF Counted, Present
  <2>2. \A k \in Key : bars'[k] # NoRow => bars'[k].tc \in {Partial, Complete}
    BY <1>1 DEF Counted, Nothing
  <2> QED
    BY <2>1, <2>2 DEF Counted, Present, Partial, Complete
<1>2. CASE LiveInsert
  BY <1>1, <1>2, LiveEffect
<1>3. CASE InsertOrderbookBars
  BY <1>1, <1>3 DEF InsertOrderbookBars, Counted, TypeOK
<1>4. CASE Process
  <2>1. \A k \in Key : bars'[k] # NoRow => bars'[k].tc \in {Partial, Complete}
    BY <1>4, ProcessEffect, Finalized
  <2>2. rows' = rows
    BY <1>4 DEF Process
  <2> QED
    BY <2>1, <2>2 DEF Counted, Present, Partial, Complete
<1>5. CASE DeleteOrderbookBars
  <2>1. bars' = bars /\ \A k \in Key : rows'[k] \in {NoRow, rows[k]}
    BY <1>5 DEF DeleteOrderbookBars
  <2> QED
    BY <2>1 DEF Counted, Present, Partial, Complete
<1>6. CASE Run \/ SkipUnavailable \/ FailTrades \/ FailDatabase \/ Crash \/ Done \/ UNCHANGED vars
  <2>1. rows' = rows /\ bars' \in {bars, Nothing}
    BY <1>6 DEF Run, SkipUnavailable, FailTrades, FailDatabase, Crash, Done, vars
  <2> QED
    BY <2>1 DEF Counted, Present, Partial, Complete, Nothing
<1> QED
  BY <1>2, <1>3, <1>4, <1>5, <1>6 DEF Next

\* The hours left shrink from the front.
LEMMA LeftLater ==
  ASSUME TypeOK, todo # {}
  PROVE  \A g \in todo \ {Current} : Current < g
<1>1. \A g \in todo : g \in Nat
  BY Shape DEF TypeOK
<1>2. Current \in Nat /\ \A g \in todo : Current <= g
  BY CurrentLeast
<1> HIDE DEF Current
<1> QED
  BY <1>1, <1>2

LEMMA InOrderStep ==
  ASSUME TypeOK, InOrder, [Next]_vars
  PROVE  InOrder'
<1>1. ASSUME UNCHANGED <<todo, pc, wrote, past>> PROVE InOrder'
  BY <1>1 DEF InOrder
<1>2. ASSUME NEW left \in SUBSET todo, Advance(left), UNCHANGED <<wrote, past>> PROVE InOrder'
  BY <1>2 DEF Advance, InOrder
<1>3. CASE LiveInsert
  BY <1>1, <1>3, LiveEffect
<1>4. CASE Run
  <2>1. PICK start \in Hour, end \in Hour, m \in Modes :
          /\ start <= end
          /\ past' = IF end > past THEN end ELSE past
          /\ todo' = {h \in start..end : ~ BeforeFirst(h) /\ (m = "resume" => ~ Exists(h))}
          /\ pc' = IF todo' = {} THEN "idle" ELSE "process"
    BY <1>4 DEF Run
  <2>2. wrote' = {}
    BY <1>4 DEF Run
  <2>3. past \in Int /\ end \in Int /\ \A h \in todo' : h \in Int /\ h <= end
    BY <2>1, Shape DEF TypeOK
  <2>4. \A h \in todo' : h <= past'
    BY <2>1, <2>3
  <2> QED
    BY <2>1, <2>2, <2>4 DEF InOrder
<1>5. CASE SkipUnavailable
  BY <1>2, <1>5 DEF SkipUnavailable, history
<1>6. CASE FailTrades
  BY <1>2, <1>6 DEF FailTrades, history
<1>7. CASE FailDatabase
  BY <1>2, <1>7 DEF FailDatabase, history
<1>8. CASE Process
  BY <1>8 DEF Process, InOrder, history
<1>9. CASE DeleteOrderbookBars
  BY <1>9 DEF DeleteOrderbookBars, InOrder
<1>10. CASE InsertOrderbookBars
  <2>1. todo # {}
    BY <1>10 DEF InsertOrderbookBars, InOrder
  <2>2. Current \in todo /\ \A g \in todo \ {Current} : Current < g
    BY <2>1, CurrentLeast, LeftLater
  <2>3. todo' = todo \ {Current} /\ wrote' = wrote \cup {Current} /\ past' = past
        /\ pc' = IF todo' = {} THEN "idle" ELSE "process"
    BY <1>10 DEF InsertOrderbookBars, Advance
  <2> HIDE DEF Current
  <2> QED
    BY <2>2, <2>3 DEF InOrder
<1>11. CASE Crash
  BY <1>11 DEF Crash, InOrder, history
<1>12. CASE Done \/ UNCHANGED vars
  BY <1>1, <1>12 DEF Done, vars, history
<1> QED
  BY <1>3, <1>4, <1>5, <1>6, <1>7, <1>8, <1>9, <1>10, <1>11, <1>12 DEF Next

-----------------------------------------------------------------------------
\* What is in the aggregator and in hand.
LEMMA LeftoverStays ==
  ASSUME NEW k \in Key, Leftover(k), wrote' = wrote, todo' \subseteq todo
  PROVE  Leftover(k)'
BY DEF Leftover

LEMMA GatheredStep ==
  ASSUME TypeOK, InOrder, Gathered, [Next]_vars
  PROVE  Gathered'
<1>1. ASSUME agg' = agg, wrote' = wrote, todo' \subseteq todo PROVE Gathered'
  BY <1>1, LeftoverStays DEF Gathered
<1>2. ASSUME agg' = Fresh PROVE Gathered'
  BY <1>2 DEF Gathered, Fresh
<1>3. CASE Run \/ Process \/ Crash
  BY <1>2, <1>3 DEF Run, Process, Crash
<1>4. CASE LiveInsert
  BY <1>1, <1>4, LiveEffect
<1>5. CASE SkipUnavailable \/ FailDatabase
  BY <1>1, <1>5 DEF SkipUnavailable, FailDatabase, Advance, history
<1>6. CASE DeleteOrderbookBars
  BY <1>1, <1>6 DEF DeleteOrderbookBars
<1>7. CASE FailTrades
  <2>1. PICK ks \in SUBSET KeysOf(Current) : agg' = [k \in Key |-> IF k \in ks THEN "part" ELSE agg[k]]
    BY <1>7 DEF FailTrades
  <2>2. wrote' = wrote /\ todo' = todo \ {Current} /\ todo # {}
    BY <1>7 DEF FailTrades, Advance, history, InOrder
  <2>3. Current \in todo /\ Current \in Hour /\ Current \in Nat /\ \A g \in todo \ {Current} : Current < g
    BY <2>2, CurrentLeast, LeftLater
  <2>4. Current \notin wrote
    BY <2>3 DEF InOrder
  <2>5. ASSUME NEW k \in Key, agg'[k] # "none" PROVE Leftover(k)'
    <3>1. CASE k \in ks
      BY <2>1, <2>2, <2>3, <2>4, <3>1 DEF Leftover
    <3>2. CASE k \notin ks
      BY <2>1, <2>2, <2>5, <3>2, LeftoverStays DEF Gathered
    <3> QED
      BY <3>1, <3>2
  <2> QED
    BY <2>5 DEF Gathered
<1>8. CASE InsertOrderbookBars
  <2>1. agg' = agg /\ wrote' = wrote \cup {Current} /\ todo' = todo \ {Current} /\ todo # {}
    BY <1>8 DEF InsertOrderbookBars, Advance, InOrder
  <2>2. Current \in todo /\ Current \in Nat
    BY <2>1, CurrentLeast
  <2>3. ASSUME NEW k \in Key, Leftover(k) PROVE Leftover(k)'
    <3>1. PICK f \in Hour \ wrote : k \in KeysOf(f) /\ \A g \in todo : f < g
      BY <2>3 DEF Leftover
    <3>2. f < Current /\ f \in Nat
      BY <2>2, <3>1, Shape
    <3>3. f \notin wrote'
      BY <2>1, <2>2, <3>1, <3>2
    <3> QED
      BY <2>1, <3>1, <3>3 DEF Leftover
  <2> QED
    BY <2>1, <2>3 DEF Gathered
<1>9. CASE Done \/ UNCHANGED vars
  BY <1>1, <1>9 DEF Done, vars, history
<1> QED
  BY <1>3, <1>4, <1>5, <1>6, <1>7, <1>8, <1>9 DEF Next

LEMMA InHandStep ==
  ASSUME TypeOK, InOrder, Gathered, InHand, [Next]_vars
  PROVE  InHand'
<1>1. ASSUME UNCHANGED <<bars, todo, wrote>>, pc \in {"delete", "insert"} PROVE InHand'
  BY <1>1 DEF InHand, Current, Leftover
<1>2. ASSUME pc' \notin {"delete", "insert"} PROVE InHand'
  BY <1>2 DEF InHand
<1>3. CASE LiveInsert
  BY <1>1, <1>2, <1>3, LiveEffect
<1>4. CASE Run \/ SkipUnavailable \/ FailTrades \/ InsertOrderbookBars \/ FailDatabase \/ Crash
  BY <1>2, <1>4 DEF Run, SkipUnavailable, FailTrades, InsertOrderbookBars, FailDatabase, Crash, Advance
<1>5. CASE DeleteOrderbookBars
  BY <1>1, <1>5 DEF DeleteOrderbookBars
<1>6. CASE Process
  <2>1. PICK built \in [Key -> {"none", "part", "full"}], liqSucceeded \in BOOLEAN :
          /\ \A k \in Key : built[k] = IF k \in KeysOf(Current) THEN "full" ELSE agg[k]
          /\ bars' = Finalize(built, liqSucceeded)
    BY <1>6, ProcessEffect
  <2>2. todo' = todo /\ wrote' = wrote
    BY <1>6 DEF Process, history
  <2>3. Current' = Current
    BY <2>2 DEF Current
  <2>4. ASSUME NEW k \in Key, k \in KeysOf(Current)
        PROVE  bars'[k] # NoRow /\ bars'[k].tc = Complete /\ Sources(bars'[k]) = {Hist}
    BY <2>1, <2>4, Finalized
  <2>5. ASSUME NEW k \in Key, k \notin KeysOf(Current), bars'[k] # NoRow PROVE Leftover(k)'
    <3>1. agg[k] # "none"
      BY <2>1, <2>5, Finalized
    <3> QED
      BY <2>2, <3>1, LeftoverStays DEF Gathered
  <2>6. \A k \in Key : IF k \in KeysOf(Current')
                       THEN bars'[k] # NoRow /\ bars'[k].tc = Complete /\ Sources(bars'[k]) = {Hist}
                       ELSE bars'[k] # NoRow => Leftover(k)'
    BY <2>3, <2>4, <2>5
  <2> QED
    BY <2>6 DEF InHand, KeysOf, Sources, Complete
<1>7. CASE Done \/ UNCHANGED vars
  BY <1>7 DEF Done, vars, history, InHand, Current, Leftover
<1> QED
  BY <1>3, <1>4, <1>5, <1>6, <1>7 DEF Next

LEMMA ClearedStep ==
  ASSUME TypeOK, InOrder, Cleared, [Next]_vars
  PROVE  Cleared'
<1>1. ASSUME pc' # "insert" PROVE Cleared'
  BY <1>1 DEF Cleared
<1>2. CASE LiveInsert
  <2>1. PICK bs \in [Key -> Row \cup {NoRow}] :
          Upsert(bs) /\ \A k \in Key : bs[k] # NoRow => k > (past + 1) * K
    BY <1>2, LiveEffect
  <2>2. UNCHANGED <<pc, mode, todo>>
    BY <1>2, LiveEffect
  <2>3. SUFFICES ASSUME pc = "insert", mode = "overwrite"
                 PROVE  \A k \in Inside(Current) : rows'[k] = NoRow
    BY <2>2 DEF Cleared, Current, Inside, KeysOf
  <2>4. Current \in Hour /\ Current <= past
    BY <2>3, CurrentLeast DEF InOrder
  <2>5. ASSUME NEW k \in Inside(Current) PROVE rows'[k] = NoRow
    <3>1. k \in Key /\ k \in KeysOf(Current)
      BY <2>4, <2>5, Insides
    <3>2. bs[k] = NoRow
      BY <2>1, <2>4, <3>1, LiveLater
    <3>3. rows[k] = NoRow
      BY <2>3, <2>5 DEF Cleared
    <3> QED
      BY <2>1, <3>1, <3>2, <3>3, Upserted
  <2> QED
    BY <2>5
<1>3. CASE Process
  BY <1>3 DEF Process, Cleared
<1>4. CASE DeleteOrderbookBars
  <2>1. Current \in Hour
    BY <1>4, CurrentLeast DEF DeleteOrderbookBars, InOrder
  <2>2. ASSUME NEW k \in Inside(Current) PROVE rows'[k] = NoRow
    BY <1>4, <2>1, <2>2, Insides DEF DeleteOrderbookBars
  <2>3. todo' = todo
    BY <1>4 DEF DeleteOrderbookBars
  <2> QED
    BY <2>2, <2>3 DEF Cleared, Current, Inside, KeysOf
<1>5. CASE Run \/ SkipUnavailable \/ FailTrades \/ InsertOrderbookBars \/ FailDatabase \/ Crash
  BY <1>1, <1>5 DEF Run, SkipUnavailable, FailTrades, InsertOrderbookBars, FailDatabase, Crash, Advance
<1>6. CASE Done \/ UNCHANGED vars
  BY <1>6 DEF Done, vars, Cleared, Current
<1> QED
  BY <1>2, <1>3, <1>4, <1>5, <1>6 DEF Next

-----------------------------------------------------------------------------
\* What written hours keep.
Claimed(h) == IF h + 1 \in deleted THEN Inside(h) ELSE KeysOf(h)

\* An upsert leaves a written hour alone: the bars in hand are not of its minutes.
LEMMA InsertElsewhere ==
  ASSUME TypeOK, InOrder, InHand, InsertOrderbookBars, NEW h \in wrote, NEW k \in KeysOf(h)
  PROVE  k \in Key /\ rows'[k] = rows[k]
<1>1. todo # {} /\ pc = "insert" /\ Upsert(bars)
  BY DEF InsertOrderbookBars, InOrder
<1>2. Current \in todo /\ Current \in Hour /\ Current \in Nat /\ h \in Hour /\ h \in Nat
  BY <1>1, CurrentLeast, Shape DEF TypeOK
<1>3. h < Current
  BY <1>2 DEF InOrder
<1>4. k \in Key
  BY <1>2, KeyRange
<1>5. k \notin KeysOf(Current)
  BY <1>2, <1>3, Disjoint
<1>6. ~ Leftover(k)
  BY <1>2, Disjoint DEF Leftover
<1>7. bars[k] = NoRow
  BY <1>1, <1>4, <1>5, <1>6 DEF InHand
<1> QED
  BY <1>1, <1>4, <1>7, Upserted DEF TypeOK

\* Nor does a live bar touch one.
LEMMA LiveElsewhere ==
  ASSUME TypeOK, InOrder, LiveInsert, NEW h \in wrote, NEW k \in KeysOf(h)
  PROVE  k \in Key /\ rows'[k] = rows[k]
<1>1. PICK bs \in [Key -> Row \cup {NoRow}] :
        Upsert(bs) /\ \A j \in Key : bs[j] # NoRow => j > (past + 1) * K
  BY LiveEffect
<1>2. h \in Hour /\ h <= past
  BY DEF TypeOK, InOrder
<1>3. k \in Key
  BY <1>2, KeyRange
<1>4. bs[k] = NoRow
  BY <1>1, <1>2, <1>3, LiveLater
<1> QED
  BY <1>1, <1>3, <1>4, Upserted

LEMMA WrittenStep ==
  ASSUME TypeOK, Counted, InOrder, InHand, WrittenHoursComplete, [Next]_vars
  PROVE  WrittenHoursComplete'
<1>1. \A h \in wrote : \A k \in Claimed(h) : rows[k] # NoRow /\ rows[k].tc = Complete
  BY DEF WrittenHoursComplete, Claimed, Present
<1>2. \A h \in wrote : h \in Hour
  BY DEF TypeOK
<1>3. \A h \in Hour : Inside(h) \subseteq KeysOf(h)
  BY DEF Inside
<1>4. SUFFICES ASSUME NEW h \in wrote', NEW k, k \in Claimed(h)'
               PROVE  rows'[k] # NoRow /\ rows'[k].tc = Complete
  BY DEF WrittenHoursComplete, Claimed, Present, Inside, KeysOf, Complete
<1>5. CASE LiveInsert
  <2>1. h \in wrote /\ k \in Claimed(h)
    BY <1>4, <1>5, LiveEffect DEF Claimed, Inside, KeysOf
  <2>2. k \in KeysOf(h)
    BY <1>2, <1>3, <2>1 DEF Claimed
  <2> QED
    BY <1>1, <1>5, <2>1, <2>2, LiveElsewhere
<1>6. CASE DeleteOrderbookBars
  <2>1. /\ rows' = [j \in Key |-> IF j \in Window(Current) THEN NoRow ELSE rows[j]]
        /\ deleted' = deleted \cup {Current} /\ wrote' = wrote /\ todo # {}
    BY <1>6 DEF DeleteOrderbookBars, InOrder
  <2>2. Current \in todo /\ Current \in Hour
    BY <2>1, CurrentLeast
  <2>3. h \in wrote /\ h \in Hour /\ h < Current
    BY <1>2, <2>1, <2>2 DEF InOrder
  <2>4. k \in (IF h + 1 \in deleted \cup {Current} THEN Inside(h) ELSE KeysOf(h))
    BY <1>4, <2>1 DEF Claimed, Inside, KeysOf
  <2>5. k \in Claimed(h) /\ k \in KeysOf(h)
    BY <1>3, <2>3, <2>4 DEF Claimed
  <2>6. k \notin Window(Current)
    BY <2>2, <2>3, <2>4, <2>5, WindowReach
  <2>7. k \in Key
    BY <2>3, <2>5, KeyRange
  <2> QED
    BY <1>1, <2>1, <2>3, <2>5, <2>6, <2>7
<1>7. CASE InsertOrderbookBars
  <2>1. wrote' = wrote \cup {Current} /\ deleted' = deleted /\ todo # {} /\ pc = "insert" /\ Upsert(bars)
    BY <1>7 DEF InsertOrderbookBars, InOrder
  <2>2. Current \in Hour
    BY <2>1, CurrentLeast
  <2>3. h \in Hour /\ k \in Claimed(h) /\ k \in KeysOf(h)
    BY <1>2, <1>3, <1>4, <2>1, <2>2 DEF Claimed, Inside, KeysOf
  <2>4. CASE h \in wrote
    BY <1>1, <1>7, <2>3, <2>4, InsertElsewhere
  <2>5. CASE h = Current
    <3>1. k \in Key
      BY <2>3, KeyRange
    <3>2. bars[k] # NoRow /\ bars[k].tc = Complete
      BY <2>1, <2>3, <2>5, <3>1 DEF InHand
    <3> QED
      BY <2>1, <3>1, <3>2, UpsertCounts DEF Counted, Present, TypeOK
  <2> QED
    BY <1>4, <2>1, <2>4, <2>5
<1>8. CASE Run
  BY <1>4, <1>8 DEF Run
<1>9. CASE SkipUnavailable \/ FailTrades \/ Process \/ FailDatabase \/ Crash \/ Done \/ UNCHANGED vars
  <2>1. UNCHANGED <<rows, wrote, deleted>>
    BY <1>9 DEF SkipUnavailable, FailTrades, Process, FailDatabase, Crash, Done, vars, history
  <2>2. k \in Claimed(h)
    BY <1>4, <2>1 DEF Claimed, Inside, KeysOf
  <2> QED
    BY <1>1, <1>4, <2>1, <2>2
<1> QED
  BY <1>5, <1>6, <1>7, <1>8, <1>9 DEF Next

LEMMA UnmixedStep ==
  ASSUME TypeOK, InOrder, InHand, Cleared, OverwrittenInsideUnmixed, [Next]_vars
  PROVE  OverwrittenInsideUnmixed'
<1>1. mode = "overwrite" => \A h \in wrote : \A k \in Inside(h) : rows[k] # NoRow => Sources(rows[k]) = {Hist}
  BY DEF OverwrittenInsideUnmixed, Present
<1>2. SUFFICES ASSUME mode' = "overwrite", NEW h \in wrote', NEW k \in Inside(h), rows'[k] # NoRow
               PROVE  Sources(rows'[k]) = {Hist}
  BY DEF OverwrittenInsideUnmixed, Present, Inside, KeysOf, Sources
<1>3. ASSUME h \in wrote, mode' = mode, rows'[k] = rows[k] PROVE Sources(rows'[k]) = {Hist}
  BY <1>1, <1>2, <1>3
<1>4. h \in wrote => k \in KeysOf(h)
  BY DEF Inside
<1>5. CASE LiveInsert
  BY <1>3, <1>4, <1>5, LiveEffect, LiveElsewhere
<1>6. CASE DeleteOrderbookBars
  <2>1. wrote' = wrote /\ mode' = mode /\ h \in Hour
    BY <1>6 DEF DeleteOrderbookBars, TypeOK
  <2>2. k \in Key
    BY <2>1, Insides
  <2>3. rows'[k] = rows[k]
    BY <1>2, <1>6, <2>2 DEF DeleteOrderbookBars
  <2> QED
    BY <1>3, <2>1, <2>3
<1>7. CASE InsertOrderbookBars
  <2>1. wrote' = wrote \cup {Current} /\ mode' = mode /\ todo # {} /\ pc = "insert" /\ Upsert(bars)
    BY <1>7 DEF InsertOrderbookBars, InOrder
  <2>2. CASE h \in wrote
    BY <1>3, <1>4, <1>7, <2>1, <2>2, InsertElsewhere
  <2>3. CASE h = Current
    <3>1. Current \in Hour
      BY <2>1, CurrentLeast
    <3>2. k \in Key /\ k \in KeysOf(Current)
      BY <2>3, <3>1, Insides
    <3>3. rows[k] = NoRow
      BY <1>2, <2>1, <2>3 DEF Cleared
    <3>4. bars[k] # NoRow /\ Sources(bars[k]) = {Hist}
      BY <2>1, <3>2 DEF InHand
    <3>5. rows'[k] = bars[k]
      BY <2>1, <3>2, <3>3, <3>4, Upserted DEF TypeOK
    <3> QED
      BY <3>4, <3>5
  <2> QED
    BY <2>1, <2>2, <2>3
<1>8. CASE Run
  BY <1>8 DEF Run
<1>9. CASE SkipUnavailable \/ FailTrades \/ Process \/ FailDatabase \/ Crash \/ Done \/ UNCHANGED vars
  <2>1. UNCHANGED <<rows, wrote, mode>>
    BY <1>9 DEF SkipUnavailable, FailTrades, Process, FailDatabase, Crash, Done, vars, history
  <2> QED
    BY <1>3, <2>1
<1> QED
  BY <1>5, <1>6, <1>7, <1>8, <1>9 DEF Next

-----------------------------------------------------------------------------
\* The invariant.
LEMMA InitInv == Init => IInv
<1> SUFFICES ASSUME Init PROVE IInv
  OBVIOUS
<1>1. TypeOK
  <2>1. rows \in [Key -> Row \cup {NoRow}] /\ bars \in [Key -> Row \cup {NoRow}]
    BY DEF Init, Nothing
  <2>2. agg \in [Key -> {"none", "part", "full"}]
    BY DEF Init, Fresh
  <2>3. runs \in 0..MaxRuns /\ lives \in 0..MaxLive
    BY Shape DEF Init
  <2> QED
    BY <2>1, <2>2, <2>3 DEF Init, TypeOK
<1>2. Counted
  BY DEF Init, Counted, Present, Nothing
<1>3. Gathered
  BY DEF Init, Gathered, Fresh
<1>4. InOrder /\ InHand /\ Cleared
  BY DEF Init, InOrder, InHand, Cleared
<1>5. WrittenHoursComplete /\ OverwrittenInsideUnmixed
  BY DEF Init, WrittenHoursComplete, OverwrittenInsideUnmixed
<1> QED
  BY <1>1, <1>2, <1>3, <1>4, <1>5 DEF IInv

LEMMA StepInv == IInv /\ [Next]_vars => IInv'
BY TypeStep, CountedStep, InOrderStep, GatheredStep, InHandStep, ClearedStep, WrittenStep,
   UnmixedStep DEF IInv

THEOREM Invariance == Spec => []IInv
BY InitInv, StepInv, PTL DEF Spec

\* The variables keep their types: in particular every upsert leaves rows.
THEOREM TypeCorrect == Spec => []TypeOK
<1>1. IInv => TypeOK
  BY DEF IInv
<1> QED
  BY <1>1, Invariance, PTL

\* An hour whose insert succeeded stays complete to the end of the run, up to
\* the one minute the next hour's DELETE takes.
THEOREM WrittenTheorem == Spec => []WrittenHoursComplete
<1>1. IInv => WrittenHoursComplete
  BY DEF IInv
<1> QED
  BY <1>1, Invariance, PTL

\* Overwriting leaves only the data of the hour's own files in the minutes
\* that DELETE selected.
THEOREM UnmixedTheorem == Spec => []OverwrittenInsideUnmixed
<1>1. IInv => OverwrittenInsideUnmixed
  BY DEF IInv
<1> QED
  BY <1>1, Invariance, PTL
=============================================================================
