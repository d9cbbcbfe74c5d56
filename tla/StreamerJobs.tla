---------------------------- MODULE StreamerJobs ----------------------------
(***************************************************************************)
(* The background jobs of the streamer (streamer.go, startOBBackfill,      *)
(* startNetflowBackfill, startFredBackfill): each is one goroutine that    *)
(* waits for its slot, runs, and computes its next slot when the run is    *)
(* over, however long that took.  A run of the order book job makes a      *)
(* Coordinator run for each of some hundred symbols, one after the other,  *)
(* which rebuilds the two hours before the last full one; the model looks  *)
(* at one symbol, and the others take time before and after it.            *)
(*                                                                         *)
(* Time is counted in units; an hour has HourLen of them.                  *)
(***************************************************************************)
EXTENDS Integers

CONSTANTS HourLen, DayLen,
          Interval, Offset,   \* per job, its cadence and its place in it
          Limit,              \* per job, the longest run (a bound)
          SkipWindow,         \* startupSkipWindow
          Horizon             \* bound on the time

Job == {"ob", "netflow", "fred"}

ASSUME TimeAssumption ==
  /\ HourLen \in Nat \ {0} /\ DayLen \in Nat \ {0} /\ DayLen % HourLen = 0
  /\ Interval \in [Job -> Nat \ {0}] /\ Interval["ob"] = HourLen
  /\ \A j \in Job : Offset[j] \in 0..(Interval[j] - 1)
  /\ Limit \in [Job -> Nat] /\ SkipWindow \in Nat /\ Horizon \in Nat /\ HourLen <= Horizon

VARIABLES now,
          pc,         \* per job: "off", "waiting", "running" or "stopped"
          next,       \* per job, the slot its timer is set to
          since,      \* per job, when its last run started, or the streamer
          ended,      \* history: per job, when its last run was over
          hours,      \* the hours the order book job's run has left to do
          begun,      \* the symbol's Coordinator run has begun
          anyBars,    \* totalBars > 0
          ctxDone,    \* s.ctx
          files,      \* hours whose file the vendor has
          first,      \* the hour of the symbol's first row, or NoRows
          captured,   \* hours the job rebuilt
          failed,     \* history: hours whose second sweep failed
          cut,        \* history: hours a sweep dropped as before the first row
          due         \* history: hours published at their second slot, and no
                      \* run was in the way

jobs == <<pc, next, since, ended>>
sweep == <<hours, begun, anyBars, first, captured, failed, cut>>
jobsVars == <<now, jobs, sweep, ctxDone, files, due>>

HourOf(t) == t \div HourLen
DayOf(h) == (h * HourLen) \div DayLen
Hour == -2..HourOf(Horizon)
NoRows == HourOf(Horizon) + 1
SecondSlot(h) == (h + 2) * HourLen + Offset["ob"]

JobsTypeOK ==
  /\ now \in 0..Horizon
  /\ pc \in [Job -> {"off", "waiting", "running", "stopped"}]
  /\ {next, since, ended} \subseteq [Job -> Nat]
  /\ {begun, anyBars, ctxDone} \subseteq BOOLEAN
  /\ first \in Hour \cup {NoRows}
  /\ {hours, files, captured, failed, cut, due} \subseteq SUBSET Hour

JobsInit ==
  /\ now \in 0..(HourLen - 1)
  /\ pc = [j \in Job |-> "off"]
  /\ next = [j \in Job |-> 0]
  /\ since = [j \in Job |-> now] /\ ended = [j \in Job |-> now]
  /\ hours = {} /\ begun = FALSE /\ anyBars = FALSE
  /\ ctxDone = FALSE
  /\ files = {h \in Hour : h < 0} /\ first \in files \cup {NoRows}
  /\ captured = {} /\ failed = {} /\ cut = {} /\ due = {}

\* nextHourlyAt, nextSixHourAt and nextDailyAt: the first slot strictly after t.
NextSlot(j, t) ==
  LET base == (t \div Interval[j]) * Interval[j] + Offset[j]
  IN  IF base > t THEN base ELSE base + Interval[j]

To(j, p) == pc' = [pc EXCEPT ![j] = p]

-----------------------------------------------------------------------------
(* The goroutine of a job *)

\* The first tick is so near that the startup run is skipped.
Near(slot) == slot - now <= SkipWindow

\* Netflow and FRED run at once when the streamer starts.
Start(j) ==
  LET slot == NextSlot(j, now) IN
  /\ pc[j] = "off"
  /\ next' = [next EXCEPT ![j] = slot]
  /\ since' = [since EXCEPT ![j] = now] /\ ended' = [ended EXCEPT ![j] = now]
  /\ To(j, IF j # "ob" /\ ~ Near(slot) THEN "running" ELSE "waiting")
  /\ UNCHANGED <<now, sweep, ctxDone, files, due>>

\* The hours of the sweep: the two before the last full hour's end.
Swept == LET end == HourOf(now) - 1 IN {end - 1, end}

\* The timer fires.
Fire(j) ==
  /\ pc[j] = "waiting" /\ next[j] <= now
  /\ To(j, "running")
  /\ since' = [since EXCEPT ![j] = now]
  /\ IF j = "ob" THEN hours' = Swept /\ begun' = FALSE /\ anyBars' = FALSE
                 ELSE UNCHANGED <<hours, begun, anyBars>>
  /\ UNCHANGED <<now, next, ended, first, captured, failed, cut, ctxDone, files, due>>

\* Mutant of Rearmed: one interval after the end of the run.
RearmedLate(j) == now + Interval[j]

\* The next slot: after a startup run the one computed before it.
Rearmed(j) == IF since[j] < next[j] THEN next[j] ELSE NextSlot(j, now)

\* The run is over; that of the order book job has been through its symbols.
Finish(j) ==
  /\ pc[j] = "running" /\ (j = "ob" => begun /\ hours = {})
  /\ To(j, "waiting")
  /\ next' = [next EXCEPT ![j] = Rearmed(j)] /\ ended' = [ended EXCEPT ![j] = now]
  /\ UNCHANGED <<now, since, sweep, ctxDone, files, due>>

\* select takes the cancelled context; a run in progress is cancelled with it.
Stop(j) ==
  /\ ctxDone /\ pc[j] = "waiting"
  /\ To(j, "stopped")
  /\ UNCHANGED <<now, next, since, ended, sweep, ctxDone, files, due>>

-----------------------------------------------------------------------------
(* The Coordinator run of the symbol in a run of the order book job *)

InRun == pc["ob"] = "running" /\ UNCHANGED <<now, jobs, ctxDone, files, due>>

\* The hour the run is at, and whether this is its second sweep.
Current(h) == h \in hours /\ \A g \in hours : h <= g
SecondSweep(h) == Current(h) /\ h = HourOf(since["ob"]) - 2

\* Mutant: the hour of the first row is dropped as well.
AfterFirstRow == {h \in hours : first < h}

\* "Skip to earliest data in DB".
FromFirstRow == {h \in hours : first <= h}

\* The run begins, with the hours since the first row; with all of them
\* when there is no row or it cannot be read; or the funding history cannot be
\* fetched, and the symbol is left out.
Begin ==
  /\ InRun /\ ~ begun /\ begun' = TRUE
  /\ \/ /\ first # NoRows /\ hours' = FromFirstRow
        /\ cut' = cut \cup {h \in hours : h < first} /\ UNCHANGED failed
     \/ UNCHANGED <<hours, failed, cut>>
     \/ /\ hours' = {} /\ failed' = failed \cup {h \in Hour : SecondSweep(h)}
        /\ UNCHANGED cut
  /\ UNCHANGED <<anyBars, first, captured>>

AtHour(h) == InRun /\ begun /\ Current(h) /\ UNCHANGED <<begun, cut>>

\* The hour is rebuilt, unless its file has no bar.
Rebuild(h) ==
  /\ AtHour(h) /\ h \in files
  /\ captured' = captured \cup {h}
  /\ hours' = hours \ {h}
  /\ \/ anyBars' = TRUE /\ first' = IF h < first THEN h ELSE first
     \/ UNCHANGED <<anyBars, first>>
  /\ UNCHANGED failed

\* The hour fails, the run goes on; its rows may be deleted by then.
Fail(h) ==
  /\ AtHour(h)
  /\ failed' = failed \cup {g \in {h} : SecondSweep(g)}
  /\ hours' = hours \ {h}
  /\ first' \in {first} \cup (IF first = h THEN {NoRows} \cup (h + 1)..HourOf(now) ELSE {})
  /\ UNCHANGED <<captured, anyBars>>

\* The hours dropped with one that has no file: before any bars were found,
\* the rest of the day.
SkippedWith(h) ==
  IF anyBars THEN {h} ELSE {g \in hours : DayOf(g) = DayOf(h)}

\* 404
NoFile(h) ==
  /\ AtHour(h) /\ h \notin files
  /\ hours' = hours \ SkippedWith(h)
  /\ UNCHANGED <<first, captured, failed, anyBars>>

-----------------------------------------------------------------------------
(* Around the jobs *)

\* The vendor publishes an hour, up to two hours late (a bound).
Publish(h) ==
  /\ h \notin files
  /\ (h + 1) * HourLen <= now /\ now < (h + 3) * HourLen
  /\ files' = files \cup {h}
  /\ UNCHANGED <<now, jobs, sweep, ctxDone, due>>

\* The live stream writes the first row of the symbol.
LiveRow ==
  /\ HourOf(now) < first /\ first' = HourOf(now)
  /\ UNCHANGED <<now, jobs, hours, begun, anyBars, captured, failed, cut, ctxDone, files, due>>

\* Time passes: timers fire in their unit, runs end within their limit, and
\* the goroutines of the streamer start at once.
Tick ==
  /\ now < Horizon
  /\ \A j \in Job : /\ pc[j] # "off"
                    /\ pc[j] = "waiting" => now < next[j]
                    /\ pc[j] = "running" => now < since[j] + Limit[j]
  /\ now' = now + 1
  /\ due' = due \cup {h \in files : SecondSlot(h) = now + 1 /\ pc["ob"] # "running"}
  /\ UNCHANGED <<jobs, sweep, ctxDone, files>>

Cancel ==
  /\ ~ ctxDone /\ ctxDone' = TRUE
  /\ UNCHANGED <<now, jobs, sweep, files, due>>

Goroutine(j) == Start(j) \/ Fire(j) \/ Finish(j) \/ Stop(j)
SweepHour(h) == Rebuild(h) \/ Fail(h) \/ NoFile(h)

JobsNext ==
  \/ \E j \in Job : Goroutine(j)
  \/ \E h \in Hour : SweepHour(h) \/ Publish(h)
  \/ Begin \/ LiveRow \/ Tick \/ Cancel

JobsSpec == JobsInit /\ [][JobsNext]_jobsVars

-----------------------------------------------------------------------------
(* Properties *)

\* The times a job has a slot.
IsSlot(j, t) == t % Interval[j] = Offset[j]

\* The run that began when the streamer started.
Startup(j) == pc[j] = "running" /\ since[j] < next[j]

\* A slot is lost only to a run of the same job that was still going at that
\* time.  The job waits for a slot that is not over, or else was over when its
\* startup run was, and every run but that one begins at its slot or, after
\* such a startup run, at once.
NoSlotLost ==
  \A j \in Job :
    /\ pc[j] = "waiting" =>
         /\ IsSlot(j, next[j]) /\ (now <= next[j] \/ now = ended[j])
         /\ \A t \in (since[j] + 1)..(next[j] - 1) : IsSlot(j, t) => t <= ended[j]
    /\ pc[j] = "running" /\ ~ Startup(j) =>
         since[j] = next[j] \/ (since[j] = ended[j] /\ next[j] < ended[j])

\* "Each hour swept twice so a delayed tail is still captured": an hour whose
\* file is there at its second slot is rebuilt in that run at the latest, also
\* when the first sweep missed it or was cut short by an hour without a file.
\* Three things lose it: a run that lasts over the slot, a failure of the
\* second sweep, and a table whose first row is of a later hour.
DelayedHourCaptured ==
  pc["ob"] = "waiting" /\ now < next["ob"] => due \subseteq captured \cup failed \cup cut
=============================================================================
