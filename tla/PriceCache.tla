----------------------------- MODULE PriceCache -----------------------------
(***************************************************************************)
(* One-minute price bars of one symbol: the table price_bars, the history  *)
(* server's PriceCache in front of it (internal/cache), the overwriting    *)
(* cmd/price tool and the live stream, which all write to the table.       *)
(*                                                                         *)
(* Minutes are numbered by their opening time; a bar is keyed by its CLOSE *)
(* time, so minute t has the key t+1.  Days and months have DayLen and     *)
(* MonthLen minutes.  NATS runs one history request at a time; a request   *)
(* that needs the exchange is cut where it fetches and where it stores, as *)
(* is the overwriting process, whose delete and insert are transactions of *)
(* their own.  A coarser bar is represented by the minutes it is made of.  *)
(***************************************************************************)
EXTENDS Integers, FiniteSetsExt

CONSTANTS DayLen, MonthLen,
          Bucket,      \* minutes of the intraday timeframe
          Page,        \* MaxBarsPerRequest
          Slack,       \* minutes isDataComplete allows at the start (5)
          NoBar,
          LastMinute,  \* bound: the clock stops here
          FirstNow,    \* the minute the clock starts in
          Asked,       \* ranges of opening times that are asked for
          MaxCalls,    \* bound: calls of GetHistory, overwriting ones included
          MaxLive      \* bound: bars of the live stream

ASSUME ShapeAssumption ==
  /\ {DayLen, MonthLen, Bucket, Page} \subseteq Nat \ {0} /\ MonthLen % DayLen = 0
  /\ {Slack, LastMinute, MaxCalls, MaxLive} \subseteq Nat /\ FirstNow \in 0..LastMinute

ASSUME NoBarAssumption == NoBar \notin {"final", "partial"}

ASSUME AskedAssumption ==
  \A a \in Asked : a[1] \in Nat /\ a[2] \in a[1]..LastMinute + 1

Key == 1..LastMinute + 1
Day(t) == t \div DayLen
Month(t) == t \div MonthLen

VARIABLES
  now,     \* the current minute: its bar is still forming
  table,   \* price_bars: key -> "final", "partial" or NoBar
  chunks,  \* chunkCache: day -> keys of the bars cached for it, or {}
  higher,  \* higherTfCache: cached [s, e, keys]
  req,     \* the request for which the server is fetching
  tool,    \* the fetch of cmd/price -overwrite
  last,    \* history: the latest answer of the server
  lost,    \* history: keys without a row whose insert failed, or was never
           \* made because the overwriting process ended after its delete
  calls, lives

cacheVars == <<now, table, chunks, higher, req, tool, last, lost, calls, lives>>

Days == 0..Day(LastMinute + 2)

\* fetch1mData between two of its requests: the turns of the loop over months
\* that are left, the keys had from the table and got so far, the part in hand
\* and the minute that was forming when it was fetched.
NoFetch ==
  [on |-> FALSE, kind |-> "1m", s |-> 0, e |-> 0, had |-> {}, due |-> {}, turns |-> {},
   part |-> {}, open |-> 0, got |-> {}, sound |-> FALSE, hole |-> FALSE]

NoCall == [s |-> 0, e |-> 0, had |-> {}, answer |-> {}, due |-> {}, how |-> "none", sound |-> FALSE]

Fetch ==
  [on : BOOLEAN, kind : {"1m", "intraday", "daily"}, s : Nat, e : Nat,
   had : SUBSET Key, due : SUBSET Key, turns : SUBSET [at : Nat, from : Nat, end : Nat],
   part : SUBSET Key, open : Nat, got : SUBSET Key, sound : BOOLEAN, hole : BOOLEAN]

CacheTypeOK ==
  /\ now \in FirstNow..LastMinute
  /\ table \in [Key -> {"final", "partial", NoBar}]
  /\ chunks \in [Days -> SUBSET Key]
  /\ \A h \in higher : h.keys \subseteq Key /\ h.keys # {}
  /\ req \in Fetch /\ tool \in Fetch
  /\ last.had \subseteq Key /\ last.answer \subseteq Key
  /\ last.how \in {"none", "cache", "table", "fetch"}
  /\ lost \subseteq Key /\ calls \in 0..MaxCalls /\ lives \in 0..MaxLive

CacheInit ==
  /\ now = FirstNow /\ table = [k \in Key |-> NoBar]
  /\ chunks = [d \in Days |-> {}] /\ higher = {}
  /\ req = NoFetch /\ tool = NoFetch
  /\ last = NoCall /\ lost = {} /\ calls = 0 /\ lives = 0

Stored == {k \in Key : table[k] # NoBar}
Between(K, s, e) == {k \in K : s <= k /\ k < e}   \* filterBarsByTime

\* What the exchange has of [s, e): the bars of all minutes up to this one.
Traded(s, e) == {k \in Key : s <= k /\ k < e /\ k - 1 <= now}

\* The value a bar has that is fetched while minute m is forming.
Fetched(k, m) == IF k - 1 = m THEN "partial" ELSE "final"

\* A transaction on the table.  The keys in X should have a row after it.
Commit(t, X) ==
  /\ table' = t
  /\ lost' = {k \in lost \cup X : t[k] = NoBar}

-----------------------------------------------------------------------------
(* fetch1mData: what the table lacks, from monthly files or page by page. *)

\* A day counts as present as soon as it has one bar.
DaysWithData(K) == {Day(k - 1) : k \in K}

Missing(K, s, e) == (Day(s)..Day(e)) \ DaysWithData(K)

\* Mutant: the last run ends with the last day instead of after it.
MissingRangesShort(K, s, e) ==
  LET M == Missing(K, s, e)
      Start == {d \in M : d - 1 \notin M}
      Stop(d) == Min({x \in Day(s)..(Day(e) + 1) : x > d /\ x \notin M})
  IN {[from |-> d * DayLen,
       to |-> IF Stop(d) > Day(e) THEN Day(e) * DayLen ELSE (Stop(d) + 1) * DayLen] : d \in Start}

\* findMissingDayRanges: runs of missing days.  A run that is followed by a
\* day with data extends over that day.
MissingRanges(K, s, e) ==
  LET M == Missing(K, s, e)
      Start == {d \in M : d - 1 \notin M}
      Stop(d) == Min({x \in Day(s)..(Day(e) + 1) : x > d /\ x \notin M})
  IN {[from |-> d * DayLen,
       to |-> IF Stop(d) > Day(e) THEN Stop(d) * DayLen ELSE (Stop(d) + 1) * DayLen] : d \in Start}

\* The loop over a range goes month by month FROM THE DAY THE RANGE STARTS.
MonthStarts(r, end) ==
  {t \in {Day(r.from) * DayLen + j * MonthLen : j \in 0..Month(LastMinute + 1)} : t <= end}

\* DownloadMonthlyZip: the minutes of a calendar month in the range.
FromZip(t, r, end) == {k \in Traded(r.from, end) : Month(k - 1) = Month(t)}

\* backfillGap: pages from t on, until one reaches the end of the gap, the
\* present or an error.
Pages == (MonthLen + Page - 1) \div Page
OnePage(t, i) == Traded(t + 1 + (i - 1) * Page, t + 1 + i * Page)
FromPages(t, n) == Traded(t + 1, t + 1 + n * Page)

Turns(R, e) ==
  UNION {LET end == Min({e, r.to})
         IN {[at |-> t, from |-> r.from, end |-> end] : t \in MonthStarts(r, end)} : r \in R}

Earliest(T) == {x \in T : \A y \in T : x.from < y.from \/ (x.from = y.from /\ x.at <= y.at)}

\* Months whose files the exchange may have published.
PastMonths == {m \in 0..Month(now) : m < Month(now)}

\* What turn x, the earliest of T, may bring: the part of a month's file, or n
\* pages, of which those in J are stored as they come; an error on the first
\* page ends the loop over the months of the range.
FromFile(T, x) ==
  {[left |-> T \ {x}, part |-> FromZip(x.at, x, x.end), stored |-> {}, full |-> TRUE]}

FromExchange(T, x) ==
  {[left |-> IF n = 0 THEN {y \in T : y.from # x.from} ELSE T \ {x},
    part |-> FromPages(x.at, n),
    stored |-> UNION {OnePage(x.at, i) : i \in J \cap 1..n},
    full |-> n = Pages] : n \in 0..Pages, J \in SUBSET (1..Pages)}

Outcomes(T, x) ==
  FromExchange(T, x) \cup (IF Month(x.at) \in PastMonths THEN FromFile(T, x) ELSE {})

\* InsertPriceBars: ON CONFLICT DO NOTHING.
Insert(F, m) == [k \in Key |-> IF k \in F /\ table[k] = NoBar THEN Fetched(k, m) ELSE table[k]]

\* One turn of fetch f: f1 is what it has then.
Turn(f, f1) ==
  /\ f.on /\ f.part = {}
  /\ \E x \in Earliest(f.turns) : \E o \in Outcomes(f.turns, x) :
       /\ f1 = [f EXCEPT !.turns = o.left, !.part = o.part, !.open = now, !.sound = @ /\ o.full]
       /\ Commit(Insert(o.stored, now), {})

-----------------------------------------------------------------------------
(* GetHistory of the server. *)

\* isDataComplete for bars at the times T, b minutes apart.
DataComplete(T, s, e, b) ==
  /\ T # {}
  /\ LET first == Min(T)
         dur == IF Cardinality(T) > 1 THEN Min(T \ {first}) - first ELSE b
     IN /\ Max(T) >= e - dur
        /\ first - dur <= s + Slack
        /\ Cardinality(T) >= (((e - s) \div b) * 95) \div 100

\* QueryPriceBarsGrouped: close times of the buckets with a row.
Grouped(K, b) == {((k - 1) \div b) * b + b : k \in K}

Today == Day(now)
ChunkDays(s, e) == Day(s)..Day(e)
ChunksHit(s, e) ==
  /\ \A d \in ChunkDays(s, e) : d # Today /\ chunks[d] # {}
  /\ chunks # [d \in Days |-> {}]
Cached(s, e) == Between(UNION {chunks[d] : d \in ChunkDays(s, e)}, s, e)

Answered(s, e, A, how, sound) ==
  /\ last' = [s |-> s, e |-> e, had |-> Between(Stored, s, e), answer |-> A, due |-> Traded(s, e),
              how |-> how, sound |-> sound]
  /\ calls' = calls + 1

\* fetch1mData reads the table once more, unless that fails.  It is also
\* where a failed completeness query leads.
BeginFetch(kind, s, e) ==
  /\ \E read \in BOOLEAN :
       LET had == IF read THEN Between(Stored, s, e) ELSE {}
       IN req' = [NoFetch EXCEPT !.on = TRUE, !.kind = kind, !.s = s, !.e = e, !.had = had,
                                 !.due = Traded(s, e), !.sound = read,
                                 !.turns = Turns(MissingRanges(had, s, e), e)]
  /\ calls' = calls + 1
  /\ UNCHANGED last

\* getHistory1m: cached days, else the table if it looks complete, else a fetch.
History1m(s, e) ==
  LET K == Between(Stored, s, e)
  IN \/ /\ ChunksHit(s, e)
        /\ Answered(s, e, Cached(s, e), "cache", TRUE) /\ UNCHANGED req
     \/ /\ ~ChunksHit(s, e) /\ DataComplete(K, s, e, 1)
        /\ Answered(s, e, K, "table", TRUE) /\ UNCHANGED req
     \/ /\ ~ChunksHit(s, e)
        /\ BeginFetch("1m", s, e)

\* Timeframes between a minute and a day: nothing ever writes their chunks.
HistoryIntraday(s, e) ==
  LET K == Between(Stored, s, e)
  IN \/ /\ DataComplete(Grouped(K, Bucket), s, e, Bucket)
        /\ Answered(s, e, K, "table", TRUE) /\ UNCHANGED req
     \/ BeginFetch("intraday", s, e)

Hits(s, e) == {h \in higher : h.s = s /\ h.e = e}

SetHigherTfCache(s, e, A) ==
  IF A = {} THEN higher ELSE higher \cup {[s |-> s, e |-> e, keys |-> A]}

\* A day and more: cached by the exact range, never from the grouped query.
HistoryDaily(s, e) ==
  \/ \E h \in Hits(s, e) : Answered(s, e, h.keys, "cache", TRUE) /\ UNCHANGED req
  \/ Hits(s, e) = {} /\ BeginFetch("daily", s, e)

\* Callers give opening times; everything behind works with closing times.
GetHistory ==
  /\ ~req.on /\ calls < MaxCalls
  /\ \E a \in Asked :
       LET s == a[1] + 1
           e == a[2] + 1
       IN History1m(s, e) \/ HistoryIntraday(s, e) \/ HistoryDaily(s, e)
  /\ UNCHANGED <<now, table, chunks, higher, tool, lost, lives>>

ServerTurn ==
  /\ Turn(req, req')
  /\ UNCHANGED <<now, chunks, higher, tool, last, calls, lives>>

Took == [req EXCEPT !.part = {}, !.got = @ \cup req.part]

\* Mutant of ServerStore: what is fetched for bars that were there is not stored.
ServerStoreNew ==
  /\ req.part # {}
  /\ IF req.had = {} THEN Commit(Insert(req.part, req.open), {}) ELSE UNCHANGED <<table, lost>>
  /\ req' = Took
  /\ UNCHANGED <<now, chunks, higher, tool, last, calls, lives>>

\* A part goes to the table and to the caller; a failed insert is logged.
ServerStore ==
  /\ req.part # {}
  /\ Commit(Insert(req.part, req.open), {}) \/ Commit(table, req.part)
  /\ req' = Took
  /\ UNCHANGED <<now, chunks, higher, tool, last, calls, lives>>

\* The loop has ended.  A minute answer is cached under its day if it lies
\* within a past one, a daily one by its range.
ServerAnswer ==
  /\ req.on /\ req.turns = {} /\ req.part = {}
  /\ LET A == Between(req.had \cup req.got, req.s, req.e)
     IN /\ last' = [s |-> req.s, e |-> req.e, had |-> req.had, answer |-> A, due |-> req.due,
                    how |-> "fetch", sound |-> req.sound]
        /\ chunks' = IF req.kind = "1m" /\ Day(req.s) = Day(req.e) /\ Day(req.s) # Today /\ A # {}
                     THEN [chunks EXCEPT ![Day(req.s)] = A] ELSE chunks
        /\ higher' = IF req.kind = "daily" THEN SetHigherTfCache(req.s, req.e, A) ELSE higher
  /\ req' = NoFetch
  /\ UNCHANGED <<now, table, tool, lost, calls, lives>>

-----------------------------------------------------------------------------
(* cmd/price -overwrite: a process and a cache of its own. *)

ToolBegin ==
  /\ ~tool.on /\ calls < MaxCalls /\ calls' = calls + 1
  /\ \E a \in Asked :
       LET s == a[1] + 1
           e == a[2] + 1
       IN tool' = [NoFetch EXCEPT !.on = TRUE, !.s = s, !.e = e,
                                  !.turns = Turns({[from |-> s, to |-> e]}, e)]
  /\ UNCHANGED <<now, table, chunks, higher, req, last, lost, lives>>

ToolTurn ==
  /\ Turn(tool, tool')
  /\ UNCHANGED <<now, chunks, higher, req, last, calls, lives>>

\* Mutant of Deleted: the minutes asked for, not the fetched ones.
DeletedAsked(f) == {k \in Key : f.s <= k /\ k < f.e}

\* From the first to the last bar of the part.
Deleted(f) == Min(f.part)..Max(f.part)

\* deletePriceBarsForRange: a transaction of its own, whose error is logged.
ToolDelete ==
  /\ tool.part # {} /\ ~tool.hole
  /\ \/ Commit([k \in Key |-> IF k \in Deleted(tool) THEN NoBar ELSE table[k]], {})
     \/ UNCHANGED <<table, lost>>
  /\ tool' = [tool EXCEPT !.hole = TRUE]
  /\ UNCHANGED <<now, chunks, higher, req, last, calls, lives>>

ToolInsert ==
  /\ tool.hole
  /\ Commit(Insert(tool.part, tool.open), {}) \/ Commit(table, tool.part)
  /\ tool' = [tool EXCEPT !.part = {}, !.hole = FALSE]
  /\ UNCHANGED <<now, chunks, higher, req, last, calls, lives>>

\* The loop has ended, or the process is killed at any point.
ToolEnd ==
  /\ tool.on
  /\ Commit(table, IF tool.hole THEN tool.part ELSE {})
  /\ tool' = NoFetch
  /\ UNCHANGED <<now, chunks, higher, req, last, calls, lives>>

-----------------------------------------------------------------------------
\* The live stream stores the minute that ended; one it did not see from the
\* beginning is incomplete.
LiveBar ==
  /\ lives < MaxLive /\ lives' = lives + 1
  /\ now \in Key
  /\ \E v \in {"final", "partial"} :
       Commit(IF table[now] = NoBar THEN [table EXCEPT ![now] = v] ELSE table, {})
  /\ UNCHANGED <<now, chunks, higher, req, tool, last, calls>>

Tick ==
  /\ now < LastMinute /\ now' = now + 1
  /\ UNCHANGED <<table, chunks, higher, req, tool, last, lost, calls, lives>>

Server == GetHistory \/ ServerTurn \/ ServerStore \/ ServerAnswer
Tool == ToolBegin \/ ToolTurn \/ ToolDelete \/ ToolInsert \/ ToolEnd

CacheNext == Server \/ Tool \/ LiveBar \/ Tick

CacheSpec == CacheInit /\ [][CacheNext]_cacheVars

-----------------------------------------------------------------------------
(* Properties. *)

\* What the overwriting process has deleted, or was about to, and has in hand.
Held == IF tool.hole THEN tool.part ELSE {}

\* Whatever the server has answered or keeps in memory is in the table, also
\* while and after a process overwrites it: a bar without a row is in the hand
\* of that process, which inserts it next, or its own insert failed.
AnswersStored ==
  /\ last.answer \subseteq Stored \cup Held \cup lost
  /\ \A d \in Days : chunks[d] \subseteq Stored \cup Held \cup lost
  /\ \A h \in higher : h.keys \subseteq Stored \cup Held \cup lost

\* A row never changes its values, whoever stores its minute again, and only
\* disappears when the overwriting process has its minute in hand.
RowsKept ==
  [][\A k \in Key : table[k] # NoBar /\ table'[k] # table[k] =>
                      table'[k] = NoBar /\ k \in Held']_cacheVars

\* A history of minutes the table has no bar of, all in one calendar month,
\* has all of them that were traded, if the exchange answered everything
\* that was asked: cutting the range into days, days into months and months
\* into pages leaves no minute out.  (A range that begins with the last
\* minute of a day loses that minute: its closing time is of the next day.)
EmptySpanFetched ==
  last.how = "fetch" /\ last.sound /\ last.had = {} /\ last.s % DayLen # 0
      /\ Month(last.s) = Month(last.e)
    => last.due \subseteq last.answer
=============================================================================
