-------------------------- MODULE MCOrderbookStore --------------------------
(***************************************************************************)
(* OrderbookStore for TLC: two minutes, two sources and the kinds of bar   *)
(* the two aggregators submit.                                             *)
(***************************************************************************)
EXTENDS OrderbookStore

CONSTANTS live, batch   \* the two aggregators

\* A bar of source s with n trades in which every column has a value.
FullBar(s, n) ==
  [tc |-> n, trades |-> s, fp |-> s, spread |-> s, std |-> s, depth |-> s,
   oi |-> s, oiChg |-> s, liq |-> s, cov |-> 1]

\* A bar built just after a restart: a trade, no depth sample, no open
\* interest polled yet, no liquidation feed.
ThinBar(s, n) ==
  [FullBar(s, n) EXCEPT !.spread = Null, !.std = Null, !.depth = Null, !.oi = Null,
                        !.oiChg = Null, !.liq = Null, !.cov = 0]

\* A minute without trades.
QuietBar(s) == [FullBar(s, 0) EXCEPT !.trades = Null, !.fp = Null]

\* Trades without a price or a quantity: they count, no footprint has them.
DegenerateBar(s, n) == [FullBar(s, n) EXCEPT !.fp = Null]

mcSource == {live, batch}
mcMinute == 1..2
mcBar ==
  {FullBar(batch, 2), FullBar(live, 2), ThinBar(live, 1), QuietBar(live), DegenerateBar(live, 2)}
=============================================================================
