------------------------------ MODULE LevelHist ------------------------------
(***************************************************************************)
(* internal/orderbook/levelhist: the trade histogram of one minute and its *)
(* reduction to the footprint columns.  The batch and the live aggregator  *)
(* each feed the trades of the minute into a Hist of their own, in the     *)
(* order of the vendor's file and in the order the websocket delivers.     *)
(*                                                                         *)
(* Prices and quantities are whole numbers: sums are exact here and        *)
(* rounded in the code.  Levels and points of control go by the key of a   *)
(* price; the range, the values and the moments by the price itself.       *)
(***************************************************************************)
EXTENDS Integers, FiniteSetsExt

CONSTANTS Path,   \* who accumulates: the batch and the live aggregator
          Quote,  \* prices
          Scale,  \* how many units of a price make one of a key (1 / KeyScale)
          Trade,  \* trades of the minute
          BandK,  \* levels of a band
          Resend  \* whether a path may be given a trade twice

\* A price or quantity that is not finite and positive is represented by 0.
TradeRec == [id : Nat, price : Quote \cup {0}, qty : Nat, buyerMaker : BOOLEAN]

ASSUME QuoteAssumption == Quote \subseteq Nat \ {0} /\ Scale \in Nat \ {0}
ASSUME TradeAssumption == Trade \subseteq TradeRec
ASSUME BandAssumption == BandK \in Nat /\ Resend \in BOOLEAN

\* key: the nearest one, halves up.
KeyOf(price) == (2 * price + Scale) \div (2 * Scale)
Key == {KeyOf(price) : price \in Quote}

VARIABLES buy, sell,      \* Hist.levels: volume per taker side and key
          tradeCount,
          open, high, low, close,
          poc, buyPoc, sellPoc,   \* the incremental argmaxes: key and volume
          volBuy, volSell,        \* quantity per taker side
          valBuy, valSell,        \* price times quantity per taker side
          sumVP, sumVP2,  \* price moments weighted by volume
          fed             \* history: the trades given to Add

hist == <<buy, sell, tradeCount, open, high, low, close, poc, buyPoc, sellPoc,
          volBuy, volSell, valBuy, valSell, sumVP, sumVP2>>
histVars == <<hist, fed>>

Argmax == [key : Key \cup {0}, vol : Nat]

HistTypeOK ==
  /\ buy \in [Path -> [Key -> Nat]] /\ sell \in [Path -> [Key -> Nat]]
  /\ tradeCount \in [Path -> Nat]
  /\ \A v \in {open, high, low, close} : v \in [Path -> Quote \cup {0}]
  /\ \A v \in {poc, buyPoc, sellPoc} : v \in [Path -> Argmax]
  /\ \A v \in {volBuy, volSell, valBuy, valSell, sumVP, sumVP2} : v \in [Path -> Nat]
  /\ fed \in [Path -> SUBSET Trade]

Zero == [p \in Path |-> 0]
NoArgmax == [p \in Path |-> [key |-> 0, vol |-> 0]]

HistInit ==
  /\ buy = [p \in Path |-> [k \in Key |-> 0]]
  /\ sell = [p \in Path |-> [k \in Key |-> 0]]
  /\ tradeCount = Zero
  /\ open = Zero /\ high = Zero /\ low = Zero /\ close = Zero
  /\ poc = NoArgmax /\ buyPoc = NoArgmax /\ sellPoc = NoArgmax
  /\ volBuy = Zero /\ volSell = Zero /\ valBuy = Zero /\ valSell = Zero
  /\ sumVP = Zero /\ sumVP2 = Zero
  /\ fed = [p \in Path |-> {}]

Accepted(t) == t.price > 0 /\ t.qty > 0

\* Mutant of consider: no tie-break, the first key to reach the volume stays.
ConsiderNoTieBreak(best, k, v) ==
  IF v > best.vol THEN [key |-> k, vol |-> v] ELSE best

\* consider: more volume replaces, equal volume only at a lower key.
Consider(best, k, v) ==
  IF v > best.vol \/ (v = best.vol /\ k < best.key)
  THEN [key |-> k, vol |-> v]
  ELSE best

\* Mutant of Bought: signed flow.
BoughtSigned(t) == IF t.buyerMaker THEN 0 - t.qty ELSE t.qty

\* Mutant of Bought: the side of the maker instead of the taker's.
BoughtByMaker(t) == IF t.buyerMaker THEN t.qty ELSE 0

\* The aggressor's volume: a buyer that is the maker was sold to.
Bought(t) == IF t.buyerMaker THEN 0 ELSE t.qty
Sold(t) == IF t.buyerMaker THEN t.qty ELSE 0

\* Hist.Add, a trade of no price or quantity changing nothing.
Add(p, t) ==
  IF ~ Accepted(t) THEN UNCHANGED hist
  ELSE
    LET k == KeyOf(t.price) IN
    /\ buy' = [buy EXCEPT ![p][k] = @ + Bought(t)]
    /\ sell' = [sell EXCEPT ![p][k] = @ + Sold(t)]
    /\ tradeCount' = [tradeCount EXCEPT ![p] = @ + 1]
    /\ open' = [open EXCEPT ![p] = IF tradeCount[p] = 0 THEN t.price ELSE @]
    /\ high' = [high EXCEPT ![p] = IF t.price > @ THEN t.price ELSE @]
    /\ low' = [low EXCEPT ![p] = IF tradeCount[p] = 0 \/ t.price < @ THEN t.price ELSE @]
    /\ close' = [close EXCEPT ![p] = t.price]
    /\ volBuy' = [volBuy EXCEPT ![p] = @ + Bought(t)]
    /\ volSell' = [volSell EXCEPT ![p] = @ + Sold(t)]
    /\ valBuy' = [valBuy EXCEPT ![p] = @ + t.price * Bought(t)]
    /\ valSell' = [valSell EXCEPT ![p] = @ + t.price * Sold(t)]
    /\ sumVP' = [sumVP EXCEPT ![p] = @ + t.price * t.qty]
    /\ sumVP2' = [sumVP2 EXCEPT ![p] = @ + t.price * t.price * t.qty]
    /\ poc' = [poc EXCEPT ![p] = Consider(@, k, buy'[p][k] + sell'[p][k])]
    /\ buyPoc' = [buyPoc EXCEPT ![p] = Consider(@, k, buy'[p][k])]
    /\ sellPoc' = [sellPoc EXCEPT ![p] = Consider(@, k, sell'[p][k])]

FeedTrade(p) ==
  \E t \in Trade :
    /\ t \notin fed[p] \/ Resend
    /\ Add(p, t)
    /\ fed' = [fed EXCEPT ![p] = @ \cup {t}]

\* The minute is over: both paths have had their trades.
Finished == (\A p \in Path : fed[p] = Trade) /\ UNCHANGED histVars

HistNext == (\E p \in Path : FeedTrade(p)) \/ Finished

HistSpec == HistInit /\ [][HistNext]_histVars

-----------------------------------------------------------------------------
(* Reduce *)

\* Traded levels: a key is in levels from its first trade on.
Levels(p) == {k \in Key : buy[p][k] + sell[p][k] > 0}

\* The band of a level is decided by its place in the sorted keys.
LoBand(p) == {k \in Levels(p) : Cardinality({j \in Levels(p) : j < k}) < BandK}
HiBand(p) == {k \in Levels(p) : Cardinality({j \in Levels(p) : j > k}) < BandK}

SumOver(f, S) == SumFunctionOnSet(f, S)

\* A fraction is given by its numerator and denominator.
Reduce(p) ==
  [trades     |-> tradeCount[p],
   high       |-> high[p], low |-> low[p],
   volume     |-> volBuy[p] + volSell[p],
   buyVWAP    |-> <<valBuy[p], volBuy[p]>>,
   sellVWAP   |-> <<valSell[p], volSell[p]>>,
   poc        |-> poc[p], buyPoc |-> buyPoc[p], sellPoc |-> sellPoc[p],
   moments    |-> <<sumVP[p], sumVP2[p]>>,
   hiBandBuy  |-> SumOver(buy[p], HiBand(p)), hiBandSell |-> SumOver(sell[p], HiBand(p)),
   loBandBuy  |-> SumOver(buy[p], LoBand(p)), loBandSell |-> SumOver(sell[p], LoBand(p))]

-----------------------------------------------------------------------------
(* Properties *)

\* The argmax of f: no key has more volume, no lower key has as much.
IsArgmax(best, f) ==
  IF \A k \in Key : f[k] = 0 THEN best.vol = 0
  ELSE /\ best.key \in Key /\ f[best.key] = best.vol
       /\ \A k \in Key : f[k] <= best.vol /\ (f[k] = best.vol => best.key <= k)

Total == [p \in Path |-> [k \in Key |-> buy[p][k] + sell[p][k]]]

\* The incrementally kept point of control is the one a scan of the finished
\* histogram would find, for all trades and for each side, although only the
\* traded key is considered at each trade and Add considers a side's volume
\* that may still be zero.
PocIsArgmax ==
  \A p \in Path : /\ IsArgmax(poc[p], Total[p])
                  /\ IsArgmax(buyPoc[p], buy[p])
                  /\ IsArgmax(sellPoc[p], sell[p])

\* What the columns mean, from the set of trades alone.
Prices(ts) == {t.price : t \in ts}
Keys(ts) == {KeyOf(t.price) : t \in ts}
Lowest(ts) == {k \in Keys(ts) : Cardinality({j \in Keys(ts) : j < k}) < BandK}
Highest(ts) == {k \in Keys(ts) : Cardinality({j \in Keys(ts) : j > k}) < BandK}
In(ts, ks) == {t \in ts : KeyOf(t.price) \in ks}
Quantity == [t \in Trade |-> t.qty]
Buys == [t \in Trade |-> IF t.buyerMaker THEN 0 ELSE t.qty]
Sells == [t \in Trade |-> IF t.buyerMaker THEN t.qty ELSE 0]
Times(f) == [t \in Trade |-> t.price * f[t]]

\* Without resends the columns but open and close are functions of the set of
\* accepted trades: both paths reduce a minute to the same row, in whatever
\* orders they saw its trades and wherever the other one is.
ReductionsMatchTrades ==
  \A p \in Path :
    LET ts == {t \in fed[p] : Accepted(t)}
        r == Reduce(p)
    IN /\ r.trades = Cardinality(ts)
       /\ r.volume = SumOver(Quantity, ts)
       /\ r.buyVWAP = <<SumOver(Times(Buys), ts), SumOver(Buys, ts)>>
       /\ r.sellVWAP = <<SumOver(Times(Sells), ts), SumOver(Sells, ts)>>
       /\ r.moments = <<SumOver(Times(Quantity), ts), SumOver(Times(Times(Quantity)), ts)>>
       /\ r.loBandBuy = SumOver(Buys, In(ts, Lowest(ts)))
       /\ r.loBandSell = SumOver(Sells, In(ts, Lowest(ts)))
       /\ r.hiBandBuy = SumOver(Buys, In(ts, Highest(ts)))
       /\ r.hiBandSell = SumOver(Sells, In(ts, Highest(ts)))
       /\ ts # {} => r.low = Min(Prices(ts)) /\ r.high = Max(Prices(ts))
=============================================================================
