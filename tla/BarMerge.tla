------------------------------ MODULE BarMerge ------------------------------
(***************************************************************************)
(* The column algebra of table orderbook_bars: what one upsert does to the *)
(* row of a minute (InsertOrderbookBars) and which of several bars of one  *)
(* minute a batch submits (deduplicateOrderbookBars).                      *)
(*                                                                         *)
(* A column group is represented by WHERE its value came from: a source    *)
(* (the writer's run that computed it), or Null for SQL NULL and for the   *)
(* zero that the CASE guards treat as "no sample".  trade_count and        *)
(* liq_covered are compared by the SQL, so they are numbers.               *)
(*   tc     trade_count               trades  vwap, buy_, sell_volume      *)
(*   fp     the 15 footprint columns  spread  avg_spread                   *)
(*   std    spread_std_dev            depth   depth_imbalance, depth_ratio *)
(*   oi     open_interest (funding_rate merges alike)                      *)
(*   oiChg  open_interest_change (funding_rate_change merges alike)        *)
(*   liq    liq_long_vol, liq_short_vol      cov  liq_covered              *)
(***************************************************************************)
EXTENDS Integers, Sequences

CONSTANTS Source,   \* the runs that compute bars
          Null      \* SQL NULL, or the zero of a column without samples

ASSUME NullAssumption == Null \notin Source

Row == [tc : Nat, trades : Source \cup {Null}, fp : Source \cup {Null},
        spread : Source \cup {Null}, std : Source \cup {Null},
        depth : Source \cup {Null}, oi : Source \cup {Null},
        oiChg : Source \cup {Null}, liq : Source \cup {Null}, cov : {0, 1}]

\* What both aggregators' buildBar can produce: liquidation volumes exactly
\* when the minute is covered, a footprint only from counted trades, a
\* standard deviation only with a mean, an OI change only with an OI.
WellFormed(b) ==
  /\ (b.tc = 0) <=> (b.trades = Null)
  /\ b.fp # Null => b.tc > 0 /\ b.fp = b.trades
  /\ (b.cov = 1) <=> (b.liq # Null)
  /\ b.std # Null => b.spread # Null
  /\ b.oiChg # Null => b.oi # Null

\* Mutant of Greatest: the flags are added.
GreatestSum(m, n) == m + n

Greatest(m, n) == IF m >= n THEN m ELSE n

\* Mutant of Coalesce: excluded.col without COALESCE.
CoalesceIncoming(x, y) == x

Coalesce(x, y) == IF x # Null THEN x ELSE y

\* Mutant of Wins: the last writer wins.
WinsAlways(old, exc) == TRUE

\* The incoming bar brings at least as many trades as the row holds.
Wins(old, exc) == exc.tc >= old.tc

\* Mutant of Merge: the footprint columns are merged like the sampled ones.
MergeFootprintAlways(old, exc) ==
  [c \in DOMAIN old |->
     CASE c \in {"tc", "cov"} -> Greatest(old[c], exc[c])
       [] c = "trades"        -> IF Wins(old, exc) /\ exc.tc > 0 THEN exc[c] ELSE old[c]
       [] OTHER               -> Coalesce(exc[c], old[c])]

\* ON CONFLICT (exchange, symbol, timestamp) DO UPDATE SET ...
Merge(old, exc) ==
  [tc     |-> Greatest(old.tc, exc.tc),
   trades |-> IF Wins(old, exc) /\ exc.tc > 0 THEN exc.trades ELSE old.trades,
   fp     |-> IF exc.fp # Null /\ Wins(old, exc) THEN exc.fp ELSE old.fp,
   spread |-> Coalesce(exc.spread, old.spread),
   std    |-> Coalesce(exc.std, old.std),
   depth  |-> Coalesce(exc.depth, old.depth),
   oi     |-> Coalesce(exc.oi, old.oi),
   oiChg  |-> Coalesce(exc.oiChg, old.oiChg),
   liq    |-> Coalesce(exc.liq, old.liq),
   cov    |-> Greatest(old.cov, exc.cov)]

\* deduplicateOrderbookBars replaces the kept bar e by b: more trades, or as
\* many and a spread where the kept one has none.
Better(b, e) ==
  \/ b.tc > e.tc
  \/ b.tc = e.tc /\ b.spread # Null /\ e.spread = Null

\* The bar kept of a batch for one minute: scanning in order and replacing
\* only by a better one keeps the first of the best.
IsKept(batch, i) ==
  /\ \A j \in DOMAIN batch : ~ Better(batch[j], batch[i])
  /\ \A j \in DOMAIN batch : j < i => Better(batch[i], batch[j])
=============================================================================
