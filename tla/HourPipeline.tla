---------------------------- MODULE HourPipeline ----------------------------
(***************************************************************************)
(* Historical hydration of one symbol: pipeline.Coordinator.Run over a     *)
(* range of hours, HourProcessor.Process for each, and the rows it leaves  *)
(* in orderbook_bars next to those of the live stream.                     *)
(*                                                                         *)
(* An hour has K minutes.  The bar of a minute is keyed by its CLOSE time: *)
(* the minutes of hour h have the keys h*K+1 .. (h+1)*K, while DELETE and  *)
(* the existence queries select the keys h*K .. (h+1)*K-1.                 *)
(***************************************************************************)
EXTENDS BarMerge, FiniteSets

CONSTANTS K,            \* minutes of an hour (60)
          HoursPerDay,  \* hours of a day (24)
          MaxHour,      \* the hours are 0..MaxHour
          Live, Hist,   \* sources: the live stream, the vendor's files
          Leak,         \* source: zero volumes for a file nobody read
          NoRow,
          Modes,        \* of "overwrite", "gapfill" and "resume"
          MaxRuns,      \* bound: calls of Run
          MaxLive       \* bound: bars of the live stream

ASSUME ShapeAssumption == {K, HoursPerDay, MaxHour, MaxRuns, MaxLive} \subseteq Nat \ {0}
ASSUME SourceAssumption == Source = {Live, Hist, Leak}
ASSUME NoRowAssumption == NoRow \notin Row
ASSUME ModesAssumption == Modes \subseteq {"overwrite", "gapfill", "resume"}

Hour == 0..MaxHour
Key == 0..(MaxHour + 1) * K
KeysOf(h) == (h * K + 1) .. ((h + 1) * K)
Day(h) == h \div HoursPerDay

Complete == 2   \* trades of a bar built from the whole minute
Partial == 1    \* and of one that misses some

VARIABLES
  rows,     \* the table: key -> row
  avail,    \* hours whose trades file the vendor has (fixed)
  pc,       \* the coordinator: "idle", "process", "delete", "insert"
  mode,     \* how this run treats existing bars
  todo,     \* hours left, the one in hand included
  agg,      \* the aggregator of the run: key -> "none", "part", "full"
  bars,     \* what Finalize returned: key -> bar or NoRow
  found     \* totalBars > 0

VARIABLES     \* history of the latest run, and budgets
  asked,    \* its hours
  deleted,  \* hours whose window was deleted
  wrote,    \* hours whose bars were inserted
  past,     \* the last hour any run was asked for, or -1
  runs, lives

history == <<asked, deleted, wrote, past, runs, lives>>
vars == <<rows, avail, pc, mode, todo, agg, bars, found, history>>

TypeOK ==
  /\ rows \in [Key -> Row \cup {NoRow}] /\ bars \in [Key -> Row \cup {NoRow}]
  /\ pc \in {"idle", "process", "delete", "insert"} /\ mode \in Modes
  /\ agg \in [Key -> {"none", "part", "full"}]
  /\ found \in BOOLEAN
  /\ \A hs \in {avail, todo, asked, deleted, wrote} : hs \subseteq Hour
  /\ past \in Hour \cup {-1} /\ runs \in 0..MaxRuns /\ lives \in 0..MaxLive

Nothing == [k \in Key |-> NoRow]
Fresh == [k \in Key |-> "none"]

Init ==
  /\ rows = Nothing /\ avail \in SUBSET Hour
  /\ pc = "idle" /\ mode \in Modes /\ todo = {}
  /\ agg = Fresh /\ bars = Nothing /\ found = FALSE
  /\ asked = {} /\ deleted = {} /\ wrote = {}
  /\ past = -1 /\ runs = 0 /\ lives = 0

Present(k) == rows[k] # NoRow

\* A bar of source s with n trades and the given volumes; what the order book
\* and open interest contribute is there only for a minute read completely.
BuiltBar(s, n, liq) ==
  LET sampled == IF n = Complete THEN s ELSE Null
  IN [tc |-> n, trades |-> s, fp |-> s, spread |-> sampled, std |-> sampled,
      depth |-> sampled, oi |-> sampled, oiChg |-> sampled, liq |-> liq,
      cov |-> IF liq = Null THEN 0 ELSE 1]

Upsert(bs) ==
  rows' = [k \in Key |-> IF bs[k] = NoRow THEN rows[k]
                         ELSE IF Present(k) THEN Merge(rows[k], bs[k]) ELSE bs[k]]

-----------------------------------------------------------------------------
\* A flush of the live stream.  Runs work an hour and more behind: the live
\* bars of an hour are there before any run asks for it.
LiveInsert ==
  /\ lives < MaxLive
  /\ \E k \in Key \ {0}, n \in {Partial, Complete}, liq \in {Live, Null} :
       /\ k > (past + 1) * K
       /\ Upsert([Nothing EXCEPT ![k] = BuiltBar(Live, n, liq)])
  /\ lives' = lives + 1
  /\ UNCHANGED <<avail, pc, mode, todo, agg, bars, found, asked, deleted,
                 wrote, past, runs>>

\* Mutant of Window: the delete starts a minute early.
WindowEarly(h) == {k \in Key : h * K - 1 <= k /\ k < (h + 1) * K}

\* DeleteOrderbookBars and ExistingHours: timestamp >= h:00 AND < h+1:00.
Window(h) == (h * K) .. ((h + 1) * K - 1)

\* HourExists / ExistingHours.
Exists(h) == \E k \in Window(h) : Present(k)

\* Hours before the one of the first row: GetOrderbookBarRange.
BeforeFirst(h) ==
  /\ \E k \in Key : Present(k)
  /\ \A k \in Key : Present(k) => h < k \div K

\* Run: GenerateHours, the cut to the first row, resume's filterExisting; a
\* new processor with a new aggregator.
Run ==
  /\ pc = "idle" /\ runs < MaxRuns
  /\ \E start, end \in Hour, m \in Modes :
       /\ start <= end
       /\ mode' = m
       /\ asked' = start..end
       /\ past' = IF end > past THEN end ELSE past
       /\ todo' = {h \in start..end : ~ BeforeFirst(h) /\ (m = "resume" => ~ Exists(h))}
       /\ pc' = IF todo' = {} THEN "idle" ELSE "process"
  /\ agg' = Fresh /\ found' = FALSE
  /\ deleted' = {} /\ wrote' = {}
  /\ runs' = runs + 1
  /\ UNCHANGED <<rows, avail, bars, lives>>

Current == CHOOSE h \in todo : \A g \in todo : h <= g

\* On to the next of the hours left, or to the end of the run.
Advance(left) ==
  /\ todo' = left
  /\ pc' = IF left = {} THEN "idle" ELSE "process"

\* The trades file is not there.  As long as the run has saved nothing, the
\* rest of the day is skipped too.
SkipUnavailable ==
  /\ pc = "process" /\ Current \notin avail
  /\ Advance({h \in todo \ {Current} : found \/ Day(h) # Day(Current)})
  /\ UNCHANGED <<rows, avail, mode, agg, bars, found, history>>

\* The trades file cannot be downloaded, or reading it stops half-way: what
\* was read stays in the aggregator.  The hour has failed, the run goes on.
FailTrades ==
  /\ pc = "process" /\ Current \in avail
  /\ \E ks \in SUBSET KeysOf(Current) :
       agg' = [k \in Key |-> IF k \in ks THEN "part" ELSE agg[k]]
  /\ Advance(todo \ {Current})
  /\ UNCHANGED <<rows, avail, mode, bars, found, history>>

\* Finalize(liqSucceeded): a bar for every minute gathered, all with the flag
\* of the hour in hand; the aggregator is emptied.  The volumes of minutes of
\* another hour are the zeros of a builder that saw no liquidations.
Finalize(built, liqSucceeded) ==
  [k \in Key |->
     IF built[k] = "none" THEN NoRow
     ELSE BuiltBar(Hist, IF built[k] = "full" THEN Complete ELSE Partial,
                   CASE ~ liqSucceeded          -> Null
                     [] k \in KeysOf(Current)   -> Hist
                     [] OTHER                   -> Leak)]

\* Mutant of Process: bars are inserted without the delete.
ProcessMerges ==
  /\ pc = "process" /\ Current \in avail
  /\ \E liqSucceeded \in BOOLEAN :
       bars' = Finalize([k \in Key |-> IF k \in KeysOf(Current) THEN "full" ELSE agg[k]],
                        liqSucceeded)
  /\ agg' = Fresh
  /\ pc' = "insert"
  /\ UNCHANGED <<rows, avail, mode, todo, found, history>>

\* Trades are read; the other files may or may not be.
Process ==
  /\ pc = "process" /\ Current \in avail
  /\ \E liqSucceeded \in BOOLEAN :
       bars' = Finalize([k \in Key |-> IF k \in KeysOf(Current) THEN "full" ELSE agg[k]],
                        liqSucceeded)
  /\ agg' = Fresh
  /\ pc' = IF mode = "overwrite" THEN "delete" ELSE "insert"
  /\ UNCHANGED <<rows, avail, mode, todo, found, history>>

DeleteOrderbookBars ==
  /\ pc = "delete"
  /\ rows' = [k \in Key |-> IF k \in Window(Current) THEN NoRow ELSE rows[k]]
  /\ deleted' = deleted \cup {Current}
  /\ pc' = "insert"
  /\ UNCHANGED <<avail, mode, todo, agg, bars, found, asked, wrote, past,
                 runs, lives>>

InsertOrderbookBars ==
  /\ pc = "insert"
  /\ Upsert(bars)
  /\ wrote' = wrote \cup {Current}
  /\ found' = TRUE
  /\ bars' = Nothing
  /\ Advance(todo \ {Current})
  /\ UNCHANGED <<avail, mode, agg, asked, deleted, past, runs,
                 lives>>

\* A database call fails (the run's deadline has passed, say): the hour has
\* failed and its bars are gone; a delete already done stays done.
FailDatabase ==
  /\ pc \in {"delete", "insert"}
  /\ bars' = Nothing
  /\ Advance(todo \ {Current})
  /\ UNCHANGED <<rows, avail, mode, agg, found, history>>

\* The process ends during a run.
Crash ==
  /\ pc # "idle"
  /\ pc' = "idle" /\ todo' = {} /\ agg' = Fresh /\ bars' = Nothing /\ found' = FALSE
  /\ UNCHANGED <<rows, avail, mode, history>>

\* The bounds are used up.
Done == pc = "idle" /\ runs = MaxRuns /\ UNCHANGED vars

Next ==
  \/ LiveInsert
  \/ Run
  \/ SkipUnavailable
  \/ FailTrades
  \/ Process
  \/ DeleteOrderbookBars
  \/ InsertOrderbookBars
  \/ FailDatabase
  \/ Crash
  \/ Done

Spec == Init /\ [][Next]_vars

-----------------------------------------------------------------------------
(* Properties *)

\* The minutes of an hour but the last one, whose close is the first key of
\* the next hour's window.
Inside(h) == KeysOf(h) \ {(h + 1) * K}

\* Once its insert succeeded, an hour keeps all its minutes, complete, to the
\* end of the run, whatever fails or crashes later, except for what the next
\* hour's delete takes.
WrittenHoursComplete ==
  \A h \in wrote :
    \A k \in IF h + 1 \in deleted THEN Inside(h) ELSE KeysOf(h) :
      Present(k) /\ rows[k].tc = Complete

Sources(r) == {r.trades, r.fp, r.spread, r.std, r.depth, r.oi, r.oiChg, r.liq} \ {Null}

\* An overwritten hour holds its own files' data only, in every minute that
\* the delete selected before the insert: no order of live bars, failed hours
\* and crashed runs leaves a mixed row there, nor one that is covered by the
\* liquidation file of another hour.
OverwrittenInsideUnmixed ==
  mode = "overwrite" =>
    \A h \in wrote : \A k \in Inside(h) : Present(k) => Sources(rows[k]) = {Hist}
=============================================================================
