--------------------------- MODULE AggregatorProofs --------------------------
(***************************************************************************)
(* Proofs about the two structures an aggregator builds a bar from: the    *)
(* trade histogram (LevelHist) and the order book (DepthBook), the latter  *)
(* as it is specified and as it is kept in treaps (DepthBookTreap).        *)
(***************************************************************************)
EXTENDS LevelHist, KeptBook, FiniteSetTheorems, WellFoundedInduction, TLAPS

-----------------------------------------------------------------------------
(***************************************************************************)
(* The histogram, for every set of prices and trades, resends included:    *)
(* its types, and that the incremental argmaxes are those of the           *)
(* histogram, hence the same for both paths whenever their histograms are. *)
(*                                                                         *)
(* PocIsArgmax is not inductive: an argmax with volume 0 might hold any    *)
(* key, and a zero side volume would then replace a higher key.  Tracks    *)
(* adds what the code relies on, that an untouched argmax has key 0.       *)
(***************************************************************************)

\* best is the argmax of f; an untouched one has key 0.
Tracks(best, f) ==
  \/ /\ best.vol = 0 /\ best.key = 0
     /\ \A k \in Key : f[k] = 0
  \/ /\ best.vol > 0 /\ best.key \in Key /\ f[best.key] = best.vol
     /\ \A k \in Key : f[k] <= best.vol /\ (f[k] = best.vol => best.key <= k)

HistInv ==
  /\ HistTypeOK
  /\ \A p \in Path : /\ Tracks(poc[p], Total[p])
                     /\ Tracks(buyPoc[p], buy[p])
                     /\ Tracks(sellPoc[p], sell[p])

-----------------------------------------------------------------------------
\* The key of a number is a number.
LEMMA KeyOfNat == ASSUME NEW x \in Nat PROVE KeyOf(x) \in Nat
<1>1. Scale \in Nat \ {0}
  BY QuoteAssumption
<1>2. \A a \in Nat, b \in Nat \ {0} : (2 * a + b) \div (2 * b) \in Nat
  OBVIOUS
<1>. QED
  BY <1>1, <1>2 DEF KeyOf

\* Keys are numbers, and so are prices; a positive price has a key.
LEMMA KeyIsNat ==
  /\ Key \subseteq Nat
  /\ \A x \in Quote \cup {0} : x \in Nat /\ (x > 0 => x \in Quote /\ KeyOf(x) \in Key)
<1>1. Quote \subseteq Nat
  BY QuoteAssumption
<1>2. ASSUME NEW k \in Key PROVE k \in Nat
  <2>1. PICK x \in Quote : k = KeyOf(x)
    BY DEF Key
  <2>. QED
    BY <1>1, <2>1, KeyOfNat
<1>3. \A x \in Quote : KeyOf(x) \in Key
  BY DEF Key
<1>. QED
  BY <1>1, <1>2, <1>3

\* The parts of an argmax.
LEMMA ArgmaxParts ==
  ASSUME NEW best \in Argmax
  PROVE  /\ best.key \in Key \cup {0} /\ best.key \in Nat /\ best.vol \in Nat
         /\ best = [key |-> best.key, vol |-> best.vol]
<1>1. best.key \in Key \cup {0} /\ best.vol \in Nat
  BY DEF Argmax
<1>2. best = [key |-> best.key, vol |-> best.vol]
  BY Zenon DEF Argmax
<1>3. best.key \in Nat
  BY <1>1, KeyIsNat
<1>. QED
  BY <1>1, <1>2, <1>3

\* consider, called after a level's volume grew by d or stayed the same, keeps
\* the argmax (consider, levelhist.go).
LEMMA ConsiderKeeps ==
  ASSUME NEW f \in [Key -> Nat], NEW g \in [Key -> Nat], NEW k \in Key, NEW d \in Nat,
         g = [f EXCEPT ![k] = @ + d],
         NEW best \in Argmax, Tracks(best, f)
  PROVE  Consider(best, k, g[k]) \in Argmax /\ Tracks(Consider(best, k, g[k]), g)
<1>0. k \in Nat /\ Key \subseteq Nat
  BY KeyIsNat
<1>1. /\ best.key \in Key \cup {0} /\ best.key \in Nat /\ best.vol \in Nat
      /\ best = [key |-> best.key, vol |-> best.vol]
  BY ArgmaxParts
<1>2. g[k] \in Nat /\ g[k] = f[k] + d /\ f[k] \in Nat /\ \A j \in Key : j # k => g[j] = f[j]
  OBVIOUS
<1>3. \A j \in Key : f[j] \in Nat /\ f[j] <= best.vol
  BY <1>1 DEF Tracks
<1>4. CASE g[k] > best.vol
  <2>1. Consider(best, k, g[k]) = [key |-> k, vol |-> g[k]]
    BY <1>4 DEF Consider
  <2>2. \A j \in Key : j # k => g[j] < g[k]
    BY <1>1, <1>2, <1>3, <1>4
  <2>3. \A j \in Key : g[j] <= g[k] /\ (g[j] = g[k] => k <= j)
    <3>1. TAKE j \in Key
    <3>2. j \in Nat /\ g[j] \in Nat
      BY <1>0
    <3>. QED
      BY <3>2, <2>2, <1>0, <1>2
  <2>. QED
    BY <2>1, <2>3, <1>0, <1>1, <1>2, <1>4 DEF Tracks, Argmax
<1>5. CASE g[k] = best.vol /\ k < best.key
  <2>1. Consider(best, k, g[k]) = [key |-> k, vol |-> g[k]]
    BY <1>5 DEF Consider
  <2>2. best.vol > 0 /\ \A j \in Key : f[j] = best.vol => best.key <= j
    BY <1>0, <1>1, <1>5 DEF Tracks
  <2>3. \A j \in Key : g[j] <= g[k] /\ (g[j] = g[k] => k <= j)
    <3>1. TAKE j \in Key
    <3>2. j \in Nat /\ g[j] \in Nat
      BY <1>0
    <3>3. CASE j = k
      BY <3>3, <3>2
    <3>4. CASE j # k
      BY <3>4, <3>2, <2>2, <1>0, <1>1, <1>2, <1>3, <1>5
    <3>. QED
      BY <3>3, <3>4
  <2>. QED
    BY <2>1, <2>2, <2>3, <1>0, <1>2, <1>5 DEF Tracks, Argmax
<1>6. CASE ~ (g[k] > best.vol) /\ ~ (g[k] = best.vol /\ k < best.key)
  <2>1. Consider(best, k, g[k]) = best
    BY <1>6 DEF Consider
  <2>2. CASE best.vol = 0
    <3>1. best.key = 0 /\ \A j \in Key : f[j] = 0
      BY <2>2, <1>1 DEF Tracks
    <3>2. g[k] = 0
      BY <2>2, <1>2, <1>6
    <3>. QED
      BY <2>1, <2>2, <3>1, <3>2, <1>2 DEF Tracks
  <2>3. CASE best.vol > 0
    <3>1. /\ best.key \in Key /\ f[best.key] = best.vol
          /\ \A j \in Key : f[j] <= best.vol /\ (f[j] = best.vol => best.key <= j)
      BY <2>3, <1>1 DEF Tracks
    <3>2. g[best.key] = best.vol
      BY <3>1, <1>1, <1>2, <1>6
    <3>3. \A j \in Key : g[j] <= best.vol /\ (g[j] = best.vol => best.key <= j)
      <4>1. TAKE j \in Key
      <4>2. CASE j = k
        BY <4>2, <1>0, <1>1, <1>2, <1>6
      <4>3. CASE j # k
        BY <4>3, <3>1, <1>2
      <4>. QED
        BY <4>2, <4>3
    <3>. QED
      BY <2>1, <2>3, <3>1, <3>2, <3>3 DEF Tracks
  <2>. QED
    BY <2>1, <2>2, <2>3, <1>1
<1>. QED
  BY <1>4, <1>5, <1>6

-----------------------------------------------------------------------------
\* Every state has the types, and the argmaxes track the histogram.
LEMMA HistInitInv == HistInit => HistInv
<1>. SUFFICES ASSUME HistInit PROVE HistInv
  OBVIOUS
<1>1. HistTypeOK
  BY DEF HistInit, HistTypeOK, Zero, NoArgmax, Argmax
<1>2. \A p \in Path : /\ Tracks(poc[p], Total[p])
                      /\ Tracks(buyPoc[p], buy[p])
                      /\ Tracks(sellPoc[p], sell[p])
  BY DEF HistInit, Tracks, Total, NoArgmax
<1>. QED
  BY <1>1, <1>2 DEF HistInv

LEMMA AddKeepsInv ==
  ASSUME HistInv, NEW p \in Path, NEW t \in Trade, Add(p, t),
         fed' = [fed EXCEPT ![p] = @ \cup {t}]
  PROVE  HistInv'
<1>. DEFINE k == KeyOf(t.price)
<1>1. fed' \in [Path -> SUBSET Trade]
  BY DEF HistInv, HistTypeOK
<1>2. CASE ~ Accepted(t)
  <2>1. UNCHANGED hist
    BY <1>2 DEF Add
  <2>2. HistTypeOK'
    BY <1>1, <2>1 DEF HistInv, HistTypeOK, hist
  <2>3. Total' = Total
    BY <2>1 DEF hist, Total
  <2>. QED
    BY <2>1, <2>2, <2>3 DEF HistInv, hist
<1>3. CASE Accepted(t)
  <2>0. /\ t.price \in Quote /\ t.price \in Nat /\ t.qty \in Nat /\ k \in Key
        /\ Bought(t) \in Nat /\ Sold(t) \in Nat /\ Bought(t) + Sold(t) = t.qty
    <3>1. t \in TradeRec
      BY TradeAssumption
    <3>2. t.price \in Quote \cup {0} /\ t.qty \in Nat /\ t.buyerMaker \in BOOLEAN
      BY <3>1 DEF TradeRec
    <3>3. t.price \in Nat /\ t.price \in Quote /\ k \in Key
      BY <1>3, <3>2, KeyIsNat DEF Accepted
    <3>. QED
      BY <3>2, <3>3 DEF Bought, Sold
  <2>1. /\ buy' = [buy EXCEPT ![p][k] = @ + Bought(t)]
        /\ sell' = [sell EXCEPT ![p][k] = @ + Sold(t)]
        /\ poc' = [poc EXCEPT ![p] = Consider(@, k, buy'[p][k] + sell'[p][k])]
        /\ buyPoc' = [buyPoc EXCEPT ![p] = Consider(@, k, buy'[p][k])]
        /\ sellPoc' = [sellPoc EXCEPT ![p] = Consider(@, k, sell'[p][k])]
    BY <1>3 DEF Add
  <2>. HIDE DEF k
  <2>2. buy' \in [Path -> [Key -> Nat]] /\ sell' \in [Path -> [Key -> Nat]]
    BY <2>0, <2>1 DEF HistInv, HistTypeOK
  <2>3. /\ buy'[p] = [buy[p] EXCEPT ![k] = @ + Bought(t)]
        /\ sell'[p] = [sell[p] EXCEPT ![k] = @ + Sold(t)]
    BY <2>0, <2>1 DEF HistInv, HistTypeOK
  <2>4. /\ Total[p] \in [Key -> Nat] /\ Total'[p] \in [Key -> Nat]
        /\ Total'[p] = [Total[p] EXCEPT ![k] = @ + t.qty]
        /\ Total'[p][k] = buy'[p][k] + sell'[p][k]
    <3>1. buy[p] \in [Key -> Nat] /\ sell[p] \in [Key -> Nat]
      BY DEF HistInv, HistTypeOK
    <3>2. buy'[p] \in [Key -> Nat] /\ sell'[p] \in [Key -> Nat]
      BY <2>2
    <3>3. \A j \in Key : buy'[p][j] + sell'[p][j] =
                           IF j = k THEN buy[p][j] + sell[p][j] + t.qty
                           ELSE buy[p][j] + sell[p][j]
      BY <3>1, <2>0, <2>3
    <3>4. Key' = Key
      BY DEF Key, KeyOf
    <3>5. /\ Total[p] = [j \in Key |-> buy[p][j] + sell[p][j]]
          /\ Total'[p] = [j \in Key |-> buy'[p][j] + sell'[p][j]]
      BY <3>4 DEF Total
    <3>6. Total[p] \in [Key -> Nat] /\ Total'[p] \in [Key -> Nat]
      BY <3>1, <3>2, <3>5
    <3>7. \A j \in Key : Total'[p][j] = IF j = k THEN Total[p][j] + t.qty ELSE Total[p][j]
      BY <3>3, <3>5
    <3>. QED
      BY <2>0, <3>5, <3>6, <3>7
  <2>5. poc'[p] \in Argmax /\ Tracks(poc'[p], Total'[p])
    <3>1. poc[p] \in Argmax /\ Tracks(poc[p], Total[p])
      BY DEF HistInv, HistTypeOK
    <3>2. poc'[p] = Consider(poc[p], k, Total'[p][k])
      BY <2>1, <2>4 DEF HistInv, HistTypeOK
    <3>3. /\ Total[p] \in [Key -> Nat] /\ Total'[p] \in [Key -> Nat]
          /\ Total'[p] = [Total[p] EXCEPT ![k] = @ + t.qty]
          /\ k \in Key /\ t.qty \in Nat
      BY <2>0, <2>4
    <3>. QED
      BY <3>1, <3>2, <3>3, ConsiderKeeps
  <2>6. buyPoc'[p] \in Argmax /\ Tracks(buyPoc'[p], buy'[p])
    <3>1. /\ buyPoc[p] \in Argmax /\ Tracks(buyPoc[p], buy[p])
          /\ buy[p] \in [Key -> Nat] /\ buy'[p] \in [Key -> Nat]
      BY <2>2 DEF HistInv, HistTypeOK
    <3>2. buyPoc'[p] = Consider(buyPoc[p], k, buy'[p][k])
      BY <2>1 DEF HistInv, HistTypeOK
    <3>3. /\ buy'[p] = [buy[p] EXCEPT ![k] = @ + Bought(t)]
          /\ k \in Key /\ Bought(t) \in Nat
      BY <2>0, <2>3
    <3>. QED
      BY <3>1, <3>2, <3>3, ConsiderKeeps
  <2>7. sellPoc'[p] \in Argmax /\ Tracks(sellPoc'[p], sell'[p])
    <3>1. /\ sellPoc[p] \in Argmax /\ Tracks(sellPoc[p], sell[p])
          /\ sell[p] \in [Key -> Nat] /\ sell'[p] \in [Key -> Nat]
      BY <2>2 DEF HistInv, HistTypeOK
    <3>2. sellPoc'[p] = Consider(sellPoc[p], k, sell'[p][k])
      BY <2>1 DEF HistInv, HistTypeOK
    <3>3. /\ sell'[p] = [sell[p] EXCEPT ![k] = @ + Sold(t)]
          /\ k \in Key /\ Sold(t) \in Nat
      BY <2>0, <2>3
    <3>. QED
      BY <3>1, <3>2, <3>3, ConsiderKeeps
  <2>8. \A q \in Path \ {p} : /\ poc'[q] = poc[q] /\ buyPoc'[q] = buyPoc[q]
                              /\ sellPoc'[q] = sellPoc[q]
                              /\ buy'[q] = buy[q] /\ sell'[q] = sell[q]
                              /\ Total'[q] = Total[q]
    BY <2>1 DEF HistInv, HistTypeOK, Total
  <2>9. /\ poc' \in [Path -> Argmax] /\ buyPoc' \in [Path -> Argmax]
        /\ sellPoc' \in [Path -> Argmax]
    BY <2>1, <2>5, <2>6, <2>7 DEF HistInv, HistTypeOK
  <2>10. /\ tradeCount' \in [Path -> Nat]
         /\ open' \in [Path -> Quote \cup {0}] /\ high' \in [Path -> Quote \cup {0}]
         /\ low' \in [Path -> Quote \cup {0}] /\ close' \in [Path -> Quote \cup {0}]
    <3>1. /\ tradeCount' = [tradeCount EXCEPT ![p] = @ + 1]
          /\ open' = [open EXCEPT ![p] = IF tradeCount[p] = 0 THEN t.price ELSE @]
          /\ high' = [high EXCEPT ![p] = IF t.price > @ THEN t.price ELSE @]
          /\ low' = [low EXCEPT ![p] = IF tradeCount[p] = 0 \/ t.price < @ THEN t.price ELSE @]
          /\ close' = [close EXCEPT ![p] = t.price]
      BY <1>3 DEF Add
    <3>2. /\ tradeCount \in [Path -> Nat]
          /\ open \in [Path -> Quote \cup {0}] /\ high \in [Path -> Quote \cup {0}]
          /\ low \in [Path -> Quote \cup {0}] /\ close \in [Path -> Quote \cup {0}]
      BY DEF HistInv, HistTypeOK
    <3>3. tradeCount' \in [Path -> Nat] /\ close' \in [Path -> Quote \cup {0}]
      BY <3>1, <3>2, <2>0
    <3>4. open' \in [Path -> Quote \cup {0}]
      BY <3>1, <3>2, <2>0
    <3>5. high' \in [Path -> Quote \cup {0}]
      BY <3>1, <3>2, <2>0
    <3>6. low' \in [Path -> Quote \cup {0}]
      BY <3>1, <3>2, <2>0
    <3>. QED
      BY <3>3, <3>4, <3>5, <3>6
  <2>11. /\ volBuy' \in [Path -> Nat] /\ volSell' \in [Path -> Nat]
         /\ valBuy' \in [Path -> Nat] /\ valSell' \in [Path -> Nat]
         /\ sumVP' \in [Path -> Nat] /\ sumVP2' \in [Path -> Nat]
    <3>. DEFINE x == t.price
    <3>1. \A a, b \in Nat : a * b \in Nat
      OBVIOUS
    <3>2. /\ x * Bought(t) \in Nat /\ x * Sold(t) \in Nat
          /\ x * t.qty \in Nat /\ x * x * t.qty \in Nat
      BY <3>1, <2>0
    <3>3. /\ volBuy' = [volBuy EXCEPT ![p] = @ + Bought(t)]
          /\ volSell' = [volSell EXCEPT ![p] = @ + Sold(t)]
          /\ valBuy' = [valBuy EXCEPT ![p] = @ + x * Bought(t)]
          /\ valSell' = [valSell EXCEPT ![p] = @ + x * Sold(t)]
          /\ sumVP' = [sumVP EXCEPT ![p] = @ + x * t.qty]
          /\ sumVP2' = [sumVP2 EXCEPT ![p] = @ + x * x * t.qty]
      BY <1>3 DEF Add
    <3>4. \A f \in [Path -> Nat], d \in Nat : [f EXCEPT ![p] = @ + d] \in [Path -> Nat]
      OBVIOUS
    <3>5. /\ volBuy \in [Path -> Nat] /\ volSell \in [Path -> Nat]
          /\ valBuy \in [Path -> Nat] /\ valSell \in [Path -> Nat]
          /\ sumVP \in [Path -> Nat] /\ sumVP2 \in [Path -> Nat]
      BY DEF HistInv, HistTypeOK
    <3>. HIDE DEF x
    <3>. QED
      BY <2>0, <3>2, <3>3, <3>4, <3>5
  <2>12. HistTypeOK'
    BY <1>1, <2>2, <2>9, <2>10, <2>11 DEF HistTypeOK
  <2>13. \A q \in Path : /\ Tracks(poc'[q], Total'[q])
                         /\ Tracks(buyPoc'[q], buy'[q])
                         /\ Tracks(sellPoc'[q], sell'[q])
    BY <2>5, <2>6, <2>7, <2>8 DEF HistInv
  <2>. QED
    BY <2>12, <2>13 DEF HistInv
<1>. QED
  BY <1>2, <1>3

LEMMA HistStep == HistInv /\ [HistNext]_histVars => HistInv'
<1>. SUFFICES ASSUME HistInv, [HistNext]_histVars PROVE HistInv'
  OBVIOUS
<1>1. ASSUME NEW p \in Path, FeedTrade(p) PROVE HistInv'
  BY <1>1, AddKeepsInv DEF FeedTrade
<1>2. CASE UNCHANGED histVars
  <2>1. Total' = Total
    BY <1>2 DEF histVars, hist, Total
  <2>. QED
    BY <1>2, <2>1 DEF HistInv, HistTypeOK, histVars, hist
<1>. QED
  BY <1>1, <1>2 DEF HistNext, Finished

LEMMA TracksIsArgmax ==
  ASSUME NEW f \in [Key -> Nat], NEW best \in Argmax, Tracks(best, f)
  PROVE  IsArgmax(best, f)
BY KeyIsNat DEF Tracks, IsArgmax, Argmax

-----------------------------------------------------------------------------
\* The variables of Hist keep their types in every run (Add, levelhist.go).
THEOREM HistTypes == HistSpec => []HistTypeOK
<1>1. HistInv => HistTypeOK
  BY DEF HistInv
<1>. QED
  BY HistInitInv, HistStep, <1>1, PTL DEF HistSpec

\* Whatever trades arrive, in whatever order and however often, the points of
\* control are the lowest prices of most volume (consider and Add).
THEOREM PocTheorem == HistSpec => []PocIsArgmax
<1>1. HistInv => PocIsArgmax
  <2>. SUFFICES ASSUME HistInv, NEW p \in Path
                PROVE  /\ IsArgmax(poc[p], Total[p])
                       /\ IsArgmax(buyPoc[p], buy[p])
                       /\ IsArgmax(sellPoc[p], sell[p])
    BY DEF PocIsArgmax
  <2>1. Total[p] \in [Key -> Nat] /\ buy[p] \in [Key -> Nat] /\ sell[p] \in [Key -> Nat]
    BY DEF HistInv, HistTypeOK, Total
  <2>2. poc[p] \in Argmax /\ buyPoc[p] \in Argmax /\ sellPoc[p] \in Argmax
    BY DEF HistInv, HistTypeOK
  <2>. QED
    BY <2>1, <2>2, TracksIsArgmax DEF HistInv
<1>. QED
  BY HistInitInv, HistStep, <1>1, PTL DEF HistSpec

\* Parity of the points of control: two paths with equal histograms persist
\* the same three, whatever the orders in which the histograms came about.
PocsAgree ==
  \A p, q \in Path :
    buy[p] = buy[q] /\ sell[p] = sell[q] =>
      poc[p] = poc[q] /\ buyPoc[p] = buyPoc[q] /\ sellPoc[p] = sellPoc[q]

\* A histogram has one argmax.
LEMMA TracksUnique ==
  ASSUME NEW f \in [Key -> Nat], NEW a \in Argmax, NEW b \in Argmax,
         Tracks(a, f), Tracks(b, f)
  PROVE  a = b
<1>1. /\ a.key \in Nat /\ a.vol \in Nat /\ b.key \in Nat /\ b.vol \in Nat
      /\ a = [key |-> a.key, vol |-> a.vol] /\ b = [key |-> b.key, vol |-> b.vol]
  BY ArgmaxParts
<1>2. a.vol = b.vol
  BY <1>1 DEF Tracks
<1>3. a.key = b.key
  BY <1>1, <1>2 DEF Tracks
<1>. QED
  BY <1>1, <1>2, <1>3

LEMMA PocsAgreeInv == HistInv => PocsAgree
<1>. SUFFICES ASSUME HistInv, NEW p \in Path, NEW q \in Path,
                     buy[p] = buy[q], sell[p] = sell[q]
              PROVE  poc[p] = poc[q] /\ buyPoc[p] = buyPoc[q] /\ sellPoc[p] = sellPoc[q]
  BY DEF PocsAgree
<1>1. Total[p] = Total[q]
  BY DEF Total
<1>2. Total[p] \in [Key -> Nat] /\ buy[p] \in [Key -> Nat] /\ sell[p] \in [Key -> Nat]
  BY DEF HistInv, HistTypeOK, Total
<1>3. \A r \in Path : poc[r] \in Argmax /\ buyPoc[r] \in Argmax /\ sellPoc[r] \in Argmax
  BY DEF HistInv, HistTypeOK
<1>. QED
  BY <1>1, <1>2, <1>3, TracksUnique DEF HistInv

\* Equal histograms give equal points of control on both paths (the parity
\* contract of the package, for its argmax reductions).
THEOREM PocParity == HistSpec => []PocsAgree
BY HistInitInv, HistStep, PocsAgreeInv, PTL DEF HistSpec

-----------------------------------------------------------------------------
(***************************************************************************)
(* The trade count, the high and the low.  low is set by the first trade   *)
(* because the count is zero then, and high because it is zero itself, so  *)
(* the invariant says when either is.                                      *)
(***************************************************************************)

\* The trades of a path that had a price and a quantity.
Counted(p) == {t \in fed[p] : Accepted(t)}

RangeInv ==
  \A p \in Path :
    /\ IsFiniteSet(Counted(p))
    /\ tradeCount[p] = 0 <=> Counted(p) = {}
    /\ ~ Resend => tradeCount[p] = Cardinality(Counted(p))
    /\ Counted(p) = {} => high[p] = 0
    /\ Counted(p) # {} => low[p] \in Prices(Counted(p)) /\ high[p] \in Prices(Counted(p))
    /\ \A t \in Counted(p) : low[p] <= t.price /\ t.price <= high[p]

LEMMA RangeInvInit == HistInit => RangeInv
<1>1. ASSUME HistInit, NEW p \in Path
      PROVE  Counted(p) = {} /\ tradeCount[p] = 0 /\ high[p] = 0
  BY <1>1 DEF HistInit, Counted, Zero
<1>. QED
  BY <1>1, FS_EmptySet DEF RangeInv

\* One trade, of the same path.
LEMMA TradeInRange ==
  ASSUME HistInv, RangeInv, NEW p \in Path, NEW t \in Trade, Accepted(t), t \notin fed[p] \/ Resend,
         Add(p, t), fed' = [fed EXCEPT ![p] = @ \cup {t}]
  PROVE  /\ Counted(p)' = Counted(p) \cup {t}
         /\ IsFiniteSet(Counted(p)')
         /\ tradeCount'[p] # 0
         /\ ~ Resend => tradeCount'[p] = Cardinality(Counted(p)')
         /\ low'[p] \in Prices(Counted(p)') /\ high'[p] \in Prices(Counted(p)')
         /\ \A u \in Counted(p)' : low'[p] <= u.price /\ u.price <= high'[p]
<1>. DEFINE C == Counted(p)
            D == Counted(p)'
<1>1. /\ tradeCount \in [Path -> Nat] /\ low \in [Path -> Quote \cup {0}] /\ high \in [Path -> Quote \cup {0}]
      /\ fed \in [Path -> SUBSET Trade]
  BY DEF HistInv, HistTypeOK
<1>2. /\ tradeCount'[p] = tradeCount[p] + 1
      /\ low'[p] = IF tradeCount[p] = 0 \/ t.price < low[p] THEN t.price ELSE low[p]
      /\ high'[p] = IF t.price > high[p] THEN t.price ELSE high[p]
  BY <1>1 DEF Add
<1>3. D = C \cup {t}
  BY <1>1 DEF Counted, Accepted
<1>4. /\ IsFiniteSet(C)
      /\ tradeCount[p] = 0 <=> C = {}
      /\ ~ Resend => tradeCount[p] = Cardinality(C)
      /\ C = {} => high[p] = 0
      /\ C # {} => low[p] \in Prices(C) /\ high[p] \in Prices(C)
      /\ \A u \in C : low[p] <= u.price /\ u.price <= high[p]
  BY DEF RangeInv
<1>5. ~ Resend => t \notin C
  BY DEF Counted
<1>6. C \subseteq Trade /\ \A u \in Trade : u.price \in Nat
  <2>1. C \subseteq Trade
    BY <1>1 DEF Counted
  <2>2. ASSUME NEW u \in Trade PROVE u.price \in Nat
    <3>1. u.price \in Quote \cup {0}
      BY TradeAssumption DEF TradeRec
    <3>. QED
      BY <3>1, KeyIsNat
  <2>. QED
    BY <2>1, <2>2
<1>7. tradeCount[p] \in Nat /\ low[p] \in Nat /\ high[p] \in Nat /\ t.price \in Nat /\ t.price > 0
  BY <1>1, <1>6, KeyIsNat DEF Accepted
<1>. HIDE DEF C, D
<1>8. IsFiniteSet(D) /\ (~ Resend => Cardinality(D) = Cardinality(C) + 1)
  BY <1>3, <1>4, <1>5, FS_AddElement
<1>9. tradeCount'[p] # 0 /\ (~ Resend => tradeCount'[p] = Cardinality(D))
  BY <1>2, <1>4, <1>7, <1>8
<1>10. Prices(D) = Prices(C) \cup {t.price}
  BY <1>3 DEF Prices
<1>11. low'[p] \in Prices(D) /\ high'[p] \in Prices(D)
  BY <1>2, <1>4, <1>7, <1>10
<1>12. \A u \in D : low'[p] <= u.price /\ u.price <= high'[p]
  <2>1. TAKE u \in D
  <2>2. CASE u = t
    BY <1>2, <1>7, <2>2
  <2>3. CASE u \in C
    <3>1. u.price \in Nat /\ low[p] <= u.price /\ u.price <= high[p] /\ tradeCount[p] # 0
      BY <1>4, <1>6, <2>3
    <3>. QED
      BY <1>2, <1>7, <3>1
  <2>. QED
    BY <1>3, <2>2, <2>3
<1>. QED
  BY <1>3, <1>8, <1>9, <1>11, <1>12 DEF C, D

LEMMA RangeStep == HistInv /\ RangeInv /\ [HistNext]_histVars => RangeInv'
<1>. SUFFICES ASSUME HistInv, RangeInv, [HistNext]_histVars PROVE RangeInv'
  OBVIOUS
<1>1. ASSUME NEW p \in Path, NEW t \in Trade, t \notin fed[p] \/ Resend, Add(p, t),
             fed' = [fed EXCEPT ![p] = @ \cup {t}]
      PROVE  RangeInv'
  <2>0. fed \in [Path -> SUBSET Trade] /\ tradeCount \in [Path -> Nat]
        /\ low \in [Path -> Quote \cup {0}] /\ high \in [Path -> Quote \cup {0}]
    BY DEF HistInv, HistTypeOK
  <2>1. CASE ~ Accepted(t)
    <3>1. \A q \in Path : Counted(q)' = Counted(q)
      BY <1>1, <2>0, <2>1 DEF Counted, Accepted
    <3>2. UNCHANGED <<tradeCount, low, high>>
      BY <1>1, <2>1 DEF Add, hist
    <3>. QED
      BY <3>1, <3>2 DEF RangeInv
  <2>2. CASE Accepted(t)
    <3>1. ASSUME NEW q \in Path, q # p
          PROVE  /\ Counted(q)' = Counted(q) /\ tradeCount'[q] = tradeCount[q]
                 /\ low'[q] = low[q] /\ high'[q] = high[q]
      <4>1. fed'[q] = fed[q]
        BY <1>1, <2>0, <3>1
      <4>2. tradeCount'[q] = tradeCount[q] /\ low'[q] = low[q] /\ high'[q] = high[q]
        BY <1>1, <2>0, <2>2, <3>1 DEF Add
      <4>. QED
        BY <4>1, <4>2 DEF Counted, Accepted
    <3>2. /\ Counted(p)' = Counted(p) \cup {t}
          /\ IsFiniteSet(Counted(p)')
          /\ tradeCount'[p] # 0
          /\ ~ Resend => tradeCount'[p] = Cardinality(Counted(p)')
          /\ low'[p] \in Prices(Counted(p)') /\ high'[p] \in Prices(Counted(p)')
          /\ \A u \in Counted(p)' : low'[p] <= u.price /\ u.price <= high'[p]
      BY <1>1, <2>2, TradeInRange
    <3>3. ASSUME NEW q \in Path
          PROVE  /\ IsFiniteSet(Counted(q)')
                 /\ tradeCount'[q] = 0 <=> Counted(q)' = {}
                 /\ ~ Resend => tradeCount'[q] = Cardinality(Counted(q)')
                 /\ Counted(q)' = {} => high'[q] = 0
                 /\ Counted(q)' # {} => low'[q] \in Prices(Counted(q)') /\ high'[q] \in Prices(Counted(q)')
                 /\ \A u \in Counted(q)' : low'[q] <= u.price /\ u.price <= high'[q]
      <4>1. CASE q = p
        <5>1. Counted(p)' # {}
          BY <3>2
        <5>. QED
          BY <3>2, <4>1, <5>1
      <4>2. CASE q # p
        BY <3>1, <4>2 DEF RangeInv
      <4>. QED
        BY <4>1, <4>2
    <3>. QED
      BY <3>3 DEF RangeInv
  <2>. QED
    BY <2>1, <2>2
<1>2. CASE UNCHANGED histVars
  <2>1. UNCHANGED <<fed, tradeCount, low, high>>
    BY <1>2 DEF histVars, hist
  <2>2. \A q \in Path : Counted(q)' = Counted(q)
    BY <2>1 DEF Counted, Accepted
  <2>. QED
    BY <2>1, <2>2 DEF RangeInv
<1>. QED
  BY <1>1, <1>2 DEF HistNext, FeedTrade, Finished

\* The price of a trade is a number.
LEMMA TradePrice == ASSUME NEW t \in Trade PROVE t.price \in Nat
<1>1. t.price \in Quote \cup {0}
  BY TradeAssumption DEF TradeRec
<1>. QED
  BY <1>1, KeyIsNat

\* The least and the greatest of a set of numbers.
LEMMA MinIs ==
  ASSUME NEW T, T \subseteq Nat, NEW a \in T, \A c \in T : a <= c
  PROVE  Min(T) = a
<1>1. \A c \in T : a <= c
  OBVIOUS
<1>2. Min(T) \in T /\ \A c \in T : Min(T) <= c
  BY <1>1, Zenon DEF Min
<1>3. Min(T) \in Nat /\ a \in Nat
  BY <1>2
<1>. QED
  BY <1>1, <1>2, <1>3

LEMMA MaxIs ==
  ASSUME NEW T, T \subseteq Nat, NEW a \in T, \A c \in T : c <= a
  PROVE  Max(T) = a
<1>1. \A c \in T : a >= c
  OBVIOUS
<1>2. Max(T) \in T /\ \A c \in T : Max(T) >= c
  BY <1>1, Zenon DEF Max
<1>3. Max(T) \in Nat /\ a \in Nat
  BY <1>2
<1>. QED
  BY <1>1, <1>2, <1>3

\* The parts of ReductionsMatchTrades that are no sums: the columns
\* high and low, and without resends trade_count, are functions of the set of
\* accepted trades.
CountAndRange ==
  \A p \in Path :
    /\ ~ Resend => tradeCount[p] = Cardinality(Counted(p))
    /\ Counted(p) # {} => low[p] = Min(Prices(Counted(p))) /\ high[p] = Max(Prices(Counted(p)))

LEMMA CountAndRangeInv == HistInv /\ RangeInv => CountAndRange
<1>. SUFFICES ASSUME HistInv, RangeInv, NEW p \in Path, Counted(p) # {}
              PROVE  low[p] = Min(Prices(Counted(p))) /\ high[p] = Max(Prices(Counted(p)))
  BY DEF CountAndRange, RangeInv
<1>. DEFINE P == Prices(Counted(p))
<1>1. Counted(p) \subseteq Trade
  BY DEF Counted, HistInv, HistTypeOK
<1>2. P \subseteq Nat
  <2>1. \A t \in Trade : t.price \in Nat
    BY TradePrice
  <2>2. \A t \in Counted(p) : t.price \in Nat
    BY <1>1, <2>1
  <2>. QED
    BY <2>2 DEF Prices
<1>3. low[p] \in P /\ high[p] \in P /\ \A x \in P : low[p] <= x /\ x <= high[p]
  BY DEF RangeInv, Prices
<1>. HIDE DEF P
<1>4. low[p] = Min(P)
  BY <1>2, <1>3, MinIs
<1>5. high[p] = Max(P)
  BY <1>2, <1>3, MaxIs
<1>. QED
  BY <1>4, <1>5 DEF P

\* Whatever the order of the trades, Add leaves the lowest and the highest
\* price and the number of accepted trades (Add, levelhist.go).
THEOREM CountAndRangeTheorem == HistSpec => []CountAndRange
<1>1. HistInit => HistInv /\ RangeInv
  BY HistInitInv, RangeInvInit
<1>2. HistInv /\ RangeInv /\ [HistNext]_histVars => HistInv' /\ RangeInv'
  BY HistStep, RangeStep
<1>. QED
  BY <1>1, <1>2, CountAndRangeInv, PTL DEF HistSpec

-----------------------------------------------------------------------------
(***************************************************************************)
(* Sums.  The fold that defines them takes its elements in the order of a  *)
(* CHOOSE; since addition does not mind, a sum may be taken apart at any   *)
(* element.  Induction goes over a family of sets, as a set.               *)
(***************************************************************************)

\* Sets of numbers that are not empty have a least element.
LEMMA Least ==
  ASSUME NEW T, T \subseteq Nat, T # {}
  PROVE  \E a \in T : \A c \in T : a <= c
<1>. DEFINE R == {ss \in Nat \X Nat : ss[1] < ss[2]}
<1>1. IsWellFoundedOn(R, Nat)
  BY NatLessThanWellFounded DEF OpToRel
<1>2. \E a \in T : \A c \in T : ~ (<<c, a>> \in R)
  <2>. HIDE DEF R
  <2>. QED
    BY <1>1, WFMin
<1>3. \A a \in Nat, c \in Nat : ~ (<<c, a>> \in R) => a <= c
  OBVIOUS
<1>. HIDE DEF R
<1>. QED
  BY <1>2, <1>3

\* Induction over the subsets of a finite set S: a family C of them that holds
\* the empty set, and a set whenever it holds the set less any element.
LEMMA SetInduction ==
  ASSUME NEW S, IsFiniteSet(S), NEW C,
         {} \in C,
         \A U \in SUBSET S : U # {} /\ (\A x \in U : U \ {x} \in C) => U \in C
  PROVE  \A U \in SUBSET S : U \in C
<1>. DEFINE Bad == {U \in SUBSET S : U \notin C}
            N == {Cardinality(U) : U \in Bad}
<1>. SUFFICES ASSUME Bad # {} PROVE FALSE
  OBVIOUS
<1>1. \A U \in Bad : IsFiniteSet(U) /\ Cardinality(U) \in Nat
  BY FS_Subset, FS_CardinalityType
<1>2. N \subseteq Nat /\ N # {}
  BY <1>1
<1>3. PICK n \in N : \A m \in N : n <= m
  <2>. HIDE DEF N
  <2>. QED
    BY <1>2, Least
<1>4. PICK U \in Bad : n = Cardinality(U)
  OBVIOUS
<1>5. U # {}
  OBVIOUS
<1>6. ASSUME NEW x \in U PROVE U \ {x} \in C
  <2>1. Cardinality(U \ {x}) = Cardinality(U) - 1
    BY <1>1, FS_RemoveElement
  <2>2. U \ {x} \notin Bad
    BY <2>1, <1>1, <1>3, <1>4
  <2>. QED
    BY <2>2
<1>. QED
  BY <1>5, <1>6

\* The function that the sum of f over S is defined by, one element after the
\* other taken out in the order of a choice.
Pick(s) == CHOOSE x \in s : TRUE
IsIter(g, f, S) ==
  g = [s \in SUBSET S |-> IF s = {} THEN 0 ELSE f[Pick(s)] + g[s \ {Pick(s)}]]
Iter(f, S) == CHOOSE g : IsIter(g, f, S)

LEMMA SumUnfolds == ASSUME NEW f, NEW S PROVE SumOver(f, S) = Iter(f, S)[S]
BY DEF SumOver, SumFunctionOnSet, FoldFunctionOnSet, MapThenFoldSet, Iter, IsIter, Pick

\* There is such a function on the subsets of every finite set.
LEMMA IterExists ==
  ASSUME NEW f, NEW S, IsFiniteSet(S)
  PROVE  \E g : IsIter(g, f, S)
<1>. DEFINE F(g) == [s \in SUBSET S |-> IF s = {} THEN 0 ELSE f[Pick(s)] + g[s \ {Pick(s)}]]
            Upto(g, U) == \A s \in SUBSET S : Cardinality(s) <= Cardinality(U) => g[s] = F(g)[s]
            C == {U \in SUBSET S : \E g : Upto(g, U)}
<1>0. \A s \in SUBSET S : IsFiniteSet(s) /\ Cardinality(s) \in Nat /\ (Cardinality(s) = 0 <=> s = {})
  BY FS_Subset, FS_CardinalityType, FS_EmptySet
<1>00. \A s : s # {} => Pick(s) \in s
  BY DEF Pick
<1>1. {} \in C
  <2>1. \A s \in SUBSET S : Cardinality(s) <= Cardinality({}) => s = {}
    BY <1>0
  <2>2. Upto([s \in SUBSET S |-> 0], {})
    BY <2>1
  <2>. HIDE DEF Upto
  <2>. QED
    BY <2>2
<1>2. ASSUME NEW U \in SUBSET S, U # {}, \A x \in U : U \ {x} \in C PROVE U \in C
  <2>1. PICK x \in U : TRUE
    BY <1>2
  <2>2. PICK g : Upto(g, U \ {x})
    BY <1>2, <2>1
  <2>3. Cardinality(U \ {x}) = Cardinality(U) - 1
    BY <1>0, <2>1, FS_RemoveElement
  <2>4. ASSUME NEW s \in SUBSET S, Cardinality(s) <= Cardinality(U) PROVE F(g)[s] = F(F(g))[s]
    <3>1. CASE s = {}
      BY <3>1
    <3>2. CASE s # {}
      <4>. DEFINE t == s \ {Pick(s)}
      <4>1. t \in SUBSET S /\ Cardinality(t) = Cardinality(s) - 1
        BY <1>0, <1>00, <3>2, FS_RemoveElement
      <4>2. Cardinality(t) <= Cardinality(U \ {x})
        BY <1>0, <2>3, <2>4, <4>1
      <4>3. g[t] = F(g)[t]
        BY <2>2, <4>1, <4>2
      <4>4. F(g)[s] = f[Pick(s)] + g[t] /\ F(F(g))[s] = f[Pick(s)] + F(g)[t]
        BY <3>2
      <4>. QED
        BY <4>3, <4>4
    <3>. QED
      BY <3>1, <3>2
  <2>5. Upto(F(g), U)
    BY <2>4
  <2>. HIDE DEF Upto
  <2>. QED
    BY <2>5
<1>3. S \in C
  <2>1. \A U \in SUBSET S : U # {} /\ (\A x \in U : U \ {x} \in C) => U \in C
    BY <1>2
  <2>. HIDE DEF C
  <2>2. \A U \in SUBSET S : U \in C
    BY <1>1, <2>1, SetInduction
  <2>. QED
    BY <2>2
<1>4. PICK g : Upto(g, S)
  BY <1>3
<1>5. \A s \in SUBSET S : Cardinality(s) <= Cardinality(S)
  BY FS_Subset
<1>6. \A s \in SUBSET S : g[s] = F(g)[s]
  BY <1>4, <1>5
<1>7. F(g) = F(F(g))
  <2>1. ASSUME NEW s \in SUBSET S PROVE F(g)[s] = F(F(g))[s]
    <3>1. CASE s = {}
      BY <3>1
    <3>2. CASE s # {}
      <4>1. s \ {Pick(s)} \in SUBSET S
        OBVIOUS
      <4>. QED
        BY <1>6, <3>2, <4>1
    <3>. QED
      BY <3>1, <3>2
  <2>. QED
    BY <2>1
<1>. QED
  BY <1>7 DEF IsIter

\* The sum over a part of S is what the function that defines the sum over S
\* has there, whatever S is.
LEMMA SumIsIter ==
  ASSUME NEW f, NEW S, IsFiniteSet(S), NEW g, IsIter(g, f, S)
  PROVE  \A U \in SUBSET S : SumOver(f, U) = g[U]
<1>1. ASSUME NEW T \in SUBSET S PROVE SumOver(f, T) = g[T]
  <2>1. IsFiniteSet(T)
    BY FS_Subset
  <2>2. PICK h : IsIter(h, f, T)
    BY <2>1, IterExists
  <2>. DEFINE h0 == Iter(f, T)
  <2>3. IsIter(h0, f, T)
    BY <2>2 DEF Iter
  <2>4. SumOver(f, T) = h0[T]
    BY SumUnfolds
  <2>. HIDE DEF h0
  <2>. DEFINE C == {U \in SUBSET T : h0[U] = g[U]}
  <2>5. {} \in C
    BY <2>3 DEF IsIter
  <2>6. ASSUME NEW U \in SUBSET T, U # {}, \A x \in U : U \ {x} \in C PROVE U \in C
    <3>1. Pick(U) \in U
      BY <2>6 DEF Pick
    <3>2. h0[U] = f[Pick(U)] + h0[U \ {Pick(U)}] /\ g[U] = f[Pick(U)] + g[U \ {Pick(U)}]
      BY <2>3, <2>6 DEF IsIter
    <3>3. h0[U \ {Pick(U)}] = g[U \ {Pick(U)}]
      BY <2>6, <3>1
    <3>. QED
      BY <3>2, <3>3
  <2>7. \A U \in SUBSET T : U # {} /\ (\A x \in U : U \ {x} \in C) => U \in C
    BY <2>6
  <2>8. T \in C
    <3>. HIDE DEF C
    <3>1. \A U \in SUBSET T : U \in C
      BY <2>1, <2>5, <2>7, SetInduction
    <3>. QED
      BY <3>1
  <2>. QED
    BY <2>4, <2>8
<1>. QED
  BY <1>1

\* The sum over no element, and over some.
LEMMA SumEmpty == ASSUME NEW f PROVE SumOver(f, {}) = 0
<1>1. IsFiniteSet({})
  BY FS_EmptySet
<1>2. PICK g : IsIter(g, f, {})
  BY <1>1, IterExists
<1>3. SumOver(f, {}) = g[{}]
  BY <1>1, <1>2, SumIsIter
<1>. QED
  BY <1>2, <1>3 DEF IsIter

LEMMA SumNonempty ==
  ASSUME NEW f, NEW S, IsFiniteSet(S), S # {}
  PROVE  Pick(S) \in S /\ SumOver(f, S) = f[Pick(S)] + SumOver(f, S \ {Pick(S)})
<1>1. PICK g : IsIter(g, f, S)
  BY IterExists
<1>2. SumOver(f, S) = g[S] /\ SumOver(f, S \ {Pick(S)}) = g[S \ {Pick(S)}]
  BY <1>1, SumIsIter
<1>3. Pick(S) \in S
  BY DEF Pick
<1>. QED
  BY <1>1, <1>2, <1>3 DEF IsIter

\* Numbers have a number as their sum.
LEMMA SumNat ==
  ASSUME NEW S, IsFiniteSet(S), NEW f, \A x \in S : f[x] \in Nat
  PROVE  SumOver(f, S) \in Nat
<1>. DEFINE C == {U \in SUBSET S : SumOver(f, U) \in Nat}
<1>1. {} \in C
  BY SumEmpty
<1>2. ASSUME NEW U \in SUBSET S, U # {}, \A x \in U : U \ {x} \in C PROVE U \in C
  <2>1. IsFiniteSet(U)
    BY FS_Subset
  <2>2. Pick(U) \in U /\ SumOver(f, U) = f[Pick(U)] + SumOver(f, U \ {Pick(U)})
    BY <1>2, <2>1, SumNonempty
  <2>. QED
    BY <1>2, <2>2
<1>3. \A U \in SUBSET S : U # {} /\ (\A x \in U : U \ {x} \in C) => U \in C
  BY <1>2
<1>4. \A U \in SUBSET S : U \in C
  <2>. HIDE DEF C
  <2>. QED
    BY <1>1, <1>3, SetInduction
<1>. QED
  BY <1>4

\* Any element may be taken out of a sum, not only the one the fold picks.
LEMMA SumTakeOut ==
  ASSUME NEW S, IsFiniteSet(S), NEW f, \A x \in S : f[x] \in Nat, NEW x \in S
  PROVE  SumOver(f, S) = f[x] + SumOver(f, S \ {x})
<1>. DEFINE C == {U \in SUBSET S : \A y \in U : SumOver(f, U) = f[y] + SumOver(f, U \ {y})}
<1>0. \A U \in SUBSET S : IsFiniteSet(U) /\ SumOver(f, U) \in Nat
  BY FS_Subset, SumNat
<1>1. {} \in C
  OBVIOUS
<1>2. ASSUME NEW U \in SUBSET S, U # {}, \A y \in U : U \ {y} \in C PROVE U \in C
  <2>. DEFINE z == Pick(U)
  <2>1. z \in U /\ SumOver(f, U) = f[z] + SumOver(f, U \ {z})
    BY <1>0, <1>2, SumNonempty
  <2>. HIDE DEF z
  <2>2. ASSUME NEW y \in U PROVE SumOver(f, U) = f[y] + SumOver(f, U \ {y})
    <3>1. CASE y = z
      BY <2>1, <3>1
    <3>2. CASE y # z
      <4>. DEFINE V == (U \ {z}) \ {y}
      <4>1. SumOver(f, U \ {z}) = f[y] + SumOver(f, V)
        BY <1>2, <2>1, <3>2
      <4>2. SumOver(f, U \ {y}) = f[z] + SumOver(f, (U \ {y}) \ {z})
        BY <1>2, <2>1, <3>2
      <4>3. (U \ {y}) \ {z} = V
        OBVIOUS
      <4>4. f[y] \in Nat /\ f[z] \in Nat /\ SumOver(f, V) \in Nat
        BY <1>0, <2>1
      <4>. HIDE DEF V
      <4>. QED
        BY <2>1, <4>1, <4>2, <4>3, <4>4
    <3>. QED
      BY <3>1, <3>2
  <2>. QED
    BY <2>2
<1>3. \A U \in SUBSET S : U # {} /\ (\A y \in U : U \ {y} \in C) => U \in C
  BY <1>2
<1>4. \A U \in SUBSET S : U \in C
  <2>. HIDE DEF C
  <2>. QED
    BY <1>1, <1>3, SetInduction
<1>. QED
  BY <1>4

\* Functions that agree on a set have the same sum over it.
LEMMA SumCongruence ==
  ASSUME NEW S, IsFiniteSet(S), NEW f, NEW g, \A x \in S : f[x] = g[x]
  PROVE  SumOver(f, S) = SumOver(g, S)
<1>. DEFINE C == {U \in SUBSET S : SumOver(f, U) = SumOver(g, U)}
<1>1. {} \in C
  BY SumEmpty
<1>2. ASSUME NEW U \in SUBSET S, U # {}, \A x \in U : U \ {x} \in C PROVE U \in C
  <2>1. IsFiniteSet(U)
    BY FS_Subset
  <2>2. /\ Pick(U) \in U
        /\ SumOver(f, U) = f[Pick(U)] + SumOver(f, U \ {Pick(U)})
        /\ SumOver(g, U) = g[Pick(U)] + SumOver(g, U \ {Pick(U)})
    BY <1>2, <2>1, SumNonempty
  <2>. QED
    BY <1>2, <2>2
<1>3. \A U \in SUBSET S : U # {} /\ (\A x \in U : U \ {x} \in C) => U \in C
  BY <1>2
<1>4. \A U \in SUBSET S : U \in C
  <2>. HIDE DEF C
  <2>. QED
    BY <1>1, <1>3, SetInduction
<1>. QED
  BY <1>4

\* The sum of two functions is the sum of their sums.
LEMMA SumPlus ==
  ASSUME NEW S, IsFiniteSet(S), NEW f, NEW g, NEW h,
         \A x \in S : f[x] \in Nat /\ g[x] \in Nat /\ h[x] = f[x] + g[x]
  PROVE  SumOver(h, S) = SumOver(f, S) + SumOver(g, S)
<1>. DEFINE C == {U \in SUBSET S : SumOver(h, U) = SumOver(f, U) + SumOver(g, U)}
<1>1. {} \in C
  BY SumEmpty
<1>2. ASSUME NEW U \in SUBSET S, U # {}, \A x \in U : U \ {x} \in C PROVE U \in C
  <2>1. IsFiniteSet(U)
    BY FS_Subset
  <2>. DEFINE x == Pick(U)
              V == U \ {x}
  <2>2. /\ x \in U
        /\ SumOver(f, U) = f[x] + SumOver(f, V)
        /\ SumOver(g, U) = g[x] + SumOver(g, V)
        /\ SumOver(h, U) = h[x] + SumOver(h, V)
    BY <1>2, <2>1, SumNonempty
  <2>3. IsFiniteSet(V) /\ V \subseteq S
    BY <2>1, FS_Subset
  <2>4. SumOver(f, V) \in Nat /\ SumOver(g, V) \in Nat
    BY <2>3, SumNat
  <2>5. SumOver(h, V) = SumOver(f, V) + SumOver(g, V)
    BY <1>2, <2>2
  <2>6. f[x] \in Nat /\ g[x] \in Nat /\ h[x] = f[x] + g[x]
    BY <2>2
  <2>. HIDE DEF x, V
  <2>. QED
    BY <2>2, <2>4, <2>5, <2>6
<1>3. \A U \in SUBSET S : U # {} /\ (\A x \in U : U \ {x} \in C) => U \in C
  BY <1>2
<1>4. \A U \in SUBSET S : U \in C
  <2>. HIDE DEF C
  <2>. QED
    BY <1>1, <1>3, SetInduction
<1>. QED
  BY <1>4

-----------------------------------------------------------------------------
(***************************************************************************)
(* Reduce.  Over every set of keys the volumes of the levels sum up to the *)
(* quantities of the trades at these keys: this is the invariant, for it   *)
(* is what one more trade changes in one place on either side.  The band   *)
(* columns are its instances for either band.  That the traded levels are  *)
(* the keys of the trades makes the bands of the histogram the bands of    *)
(* the trades.                                                             *)
(***************************************************************************)

\* Over any set of keys f, per level, sums up as val does, per trade.
SumsMatch(f, val, ts) ==
  \A B \in SUBSET Key : IsFiniteSet(B) => SumOver(f, B) = SumOver(val, In(ts, B))

\* What holds of the sums of one path.
PathSums(p) ==
  LET ts == Counted(p) IN
  /\ ts = {} => low[p] = 0
  /\ \A k \in Key : buy[p][k] + sell[p][k] > 0 <=> k \in Keys(ts)
  /\ SumsMatch(buy[p], Buys, ts) /\ SumsMatch(sell[p], Sells, ts)
  /\ volBuy[p] = SumOver(Buys, ts) /\ volSell[p] = SumOver(Sells, ts)
  /\ valBuy[p] = SumOver(Times(Buys), ts) /\ valSell[p] = SumOver(Times(Sells), ts)
  /\ sumVP[p] = SumOver(Times(Quantity), ts)
  /\ sumVP2[p] = SumOver(Times(Times(Quantity)), ts)

SumInv == \A p \in Path : PathSums(p)

\* The quantities, weighted or not, are numbers.
LEMMA QuantityType ==
  /\ \A t \in Trade : t.price \in Nat /\ t.qty \in Nat /\ (t.price > 0 => KeyOf(t.price) \in Key)
  /\ Buys \in [Trade -> Nat] /\ Sells \in [Trade -> Nat] /\ Quantity \in [Trade -> Nat]
  /\ \A f \in [Trade -> Nat] : Times(f) \in [Trade -> Nat]
<1>1. ASSUME NEW t \in Trade
      PROVE  t.price \in Nat /\ t.qty \in Nat /\ (t.price > 0 => KeyOf(t.price) \in Key)
  <2>1. t.price \in Quote \cup {0} /\ t.qty \in Nat
    BY TradeAssumption DEF TradeRec
  <2>. QED
    BY <2>1, KeyIsNat
<1>2. Buys \in [Trade -> Nat] /\ Sells \in [Trade -> Nat] /\ Quantity \in [Trade -> Nat]
  BY <1>1 DEF Buys, Sells, Quantity
<1>3. ASSUME NEW f \in [Trade -> Nat] PROVE Times(f) \in [Trade -> Nat]
  <2>1. \A a, b \in Nat : a * b \in Nat
    OBVIOUS
  <2>2. \A t \in Trade : t.price * f[t] \in Nat
    BY <1>1, <2>1
  <2>. QED
    BY <2>2 DEF Times
<1>. QED
  BY <1>1, <1>2, <1>3

\* One more trade, in the sum over a set of trades.
LEMMA SumAddTrade ==
  ASSUME NEW ts \in SUBSET Trade, IsFiniteSet(ts), NEW t \in Trade, t \notin ts,
         NEW val \in [Trade -> Nat]
  PROVE  SumOver(val, ts \cup {t}) = SumOver(val, ts) + val[t]
<1>1. IsFiniteSet(ts \cup {t}) /\ (ts \cup {t}) \ {t} = ts
  BY FS_AddElement
<1>2. \A u \in ts \cup {t} : val[u] \in Nat
  OBVIOUS
<1>3. SumOver(val, ts \cup {t}) = val[t] + SumOver(val, (ts \cup {t}) \ {t})
  BY <1>1, <1>2, SumTakeOut
<1>4. SumOver(val, ts) \in Nat
  BY SumNat
<1>. QED
  BY <1>1, <1>3, <1>4

\* One more trade and the level of its key that grew by as much.
LEMMA SumsMatchAdd ==
  ASSUME NEW ts \in SUBSET Trade, IsFiniteSet(ts), NEW t \in Trade, t \notin ts,
         KeyOf(t.price) \in Key, NEW val \in [Trade -> Nat],
         NEW f \in [Key -> Nat], NEW g \in [Key -> Nat],
         \A j \in Key : g[j] = IF j = KeyOf(t.price) THEN f[j] + val[t] ELSE f[j],
         SumsMatch(f, val, ts)
  PROVE  SumsMatch(g, val, ts \cup {t})
<1>. DEFINE k == KeyOf(t.price)
<1>. SUFFICES ASSUME NEW B \in SUBSET Key, IsFiniteSet(B)
              PROVE  SumOver(g, B) = SumOver(val, In(ts \cup {t}, B))
  BY DEF SumsMatch
<1>1. SumOver(f, B) = SumOver(val, In(ts, B))
  BY DEF SumsMatch
<1>2. CASE k \notin B
  <2>1. SumOver(g, B) = SumOver(f, B)
    <3>1. \A x \in B : g[x] = f[x]
      BY <1>2
    <3>. QED
      BY <3>1, SumCongruence
  <2>2. In(ts \cup {t}, B) = In(ts, B)
    BY <1>2 DEF In
  <2>. QED
    BY <1>1, <2>1, <2>2
<1>3. CASE k \in B
  <2>. DEFINE A == B \ {k}
  <2>1. IsFiniteSet(A)
    BY FS_RemoveElement
  <2>2. SumOver(g, B) = g[k] + SumOver(g, A) /\ SumOver(f, B) = f[k] + SumOver(f, A)
    <3>1. \A x \in B : g[x] \in Nat /\ f[x] \in Nat
      OBVIOUS
    <3>. QED
      BY <1>3, <3>1, SumTakeOut
  <2>3. SumOver(g, A) = SumOver(f, A)
    <3>1. \A x \in A : g[x] = f[x]
      OBVIOUS
    <3>. HIDE DEF A
    <3>. QED
      BY <2>1, <3>1, SumCongruence
  <2>4. SumOver(f, A) \in Nat
    <3>1. \A x \in A : f[x] \in Nat
      OBVIOUS
    <3>. HIDE DEF A
    <3>. QED
      BY <2>1, <3>1, SumNat
  <2>5. In(ts \cup {t}, B) = In(ts, B) \cup {t}
    BY <1>3 DEF In
  <2>6. SumOver(val, In(ts \cup {t}, B)) = SumOver(val, In(ts, B)) + val[t]
    <3>1. In(ts, B) \in SUBSET Trade /\ t \notin In(ts, B)
      BY DEF In
    <3>2. IsFiniteSet(In(ts, B))
      BY FS_Subset DEF In
    <3>. QED
      BY <2>5, <3>1, <3>2, SumAddTrade
  <2>7. g[k] = f[k] + val[t] /\ f[k] \in Nat /\ val[t] \in Nat
    OBVIOUS
  <2>. HIDE DEF A
  <2>. QED
    BY <1>1, <2>2, <2>3, <2>4, <2>6, <2>7
<1>. QED
  BY <1>2, <1>3

LEMMA SumInvInit == HistInit => SumInv
<1>. SUFFICES ASSUME HistInit, NEW p \in Path PROVE PathSums(p)
  BY DEF SumInv
<1>1. Counted(p) = {} /\ Keys({}) = {} /\ \A B : In({}, B) = {}
  BY DEF HistInit, Counted, Keys, In
<1>2. /\ low[p] = 0 /\ sumVP[p] = 0 /\ sumVP2[p] = 0
      /\ volBuy[p] = 0 /\ volSell[p] = 0 /\ valBuy[p] = 0 /\ valSell[p] = 0
      /\ \A k \in Key : buy[p][k] = 0 /\ sell[p][k] = 0
  BY DEF HistInit, Zero
<1>4. ASSUME NEW f, NEW val, \A k \in Key : f[k] = 0 PROVE SumsMatch(f, val, {})
  <2>1. ASSUME NEW B \in SUBSET Key, IsFiniteSet(B) PROVE SumOver(f, B) = 0
    <3>. DEFINE C == {U \in SUBSET B : SumOver(f, U) = 0}
    <3>1. {} \in C
      BY SumEmpty
    <3>2. ASSUME NEW U \in SUBSET B, U # {}, \A x \in U : U \ {x} \in C PROVE U \in C
      <4>1. IsFiniteSet(U)
        BY <2>1, FS_Subset
      <4>2. Pick(U) \in U /\ SumOver(f, U) = f[Pick(U)] + SumOver(f, U \ {Pick(U)})
        BY <3>2, <4>1, SumNonempty
      <4>. QED
        BY <1>4, <3>2, <4>2
    <3>3. \A U \in SUBSET B : U # {} /\ (\A x \in U : U \ {x} \in C) => U \in C
      BY <3>2
    <3>4. \A U \in SUBSET B : U \in C
      <4>. HIDE DEF C
      <4>. QED
        BY <2>1, <3>1, <3>3, SetInduction
    <3>. QED
      BY <3>4
  <2>. QED
    BY <1>1, <2>1, SumEmpty DEF SumsMatch
<1>5. SumsMatch(buy[p], Buys, {}) /\ SumsMatch(sell[p], Sells, {})
  BY <1>2, <1>4
<1>. QED
  BY <1>1, <1>2, <1>5, SumEmpty DEF PathSums

\* A trade of path p that is accepted and new, in all its sums.
LEMMA AddSums ==
  ASSUME ~ Resend, HistInv, RangeInv, SumInv, NEW p \in Path, NEW t \in Trade,
         t \notin fed[p], Accepted(t), Add(p, t), fed' = [fed EXCEPT ![p] = @ \cup {t}]
  PROVE  PathSums(p)'
<1>. DEFINE ts == Counted(p)
            k == KeyOf(t.price)
            x == t.price
<1>1. /\ buy \in [Path -> [Key -> Nat]] /\ sell \in [Path -> [Key -> Nat]]
      /\ volBuy \in [Path -> Nat] /\ volSell \in [Path -> Nat]
      /\ valBuy \in [Path -> Nat] /\ valSell \in [Path -> Nat]
      /\ sumVP \in [Path -> Nat] /\ sumVP2 \in [Path -> Nat] /\ fed \in [Path -> SUBSET Trade]
  BY DEF HistInv, HistTypeOK
<1>2. k \in Key /\ x \in Nat /\ t.qty \in Nat /\ t.qty > 0
  BY QuantityType DEF Accepted
<1>3. Counted(p)' = ts \cup {t}
  BY <1>1 DEF Counted, Accepted
<1>4. ts \in SUBSET Trade /\ IsFiniteSet(ts) /\ t \notin ts
  BY <1>1 DEF Counted, RangeInv
<1>5. /\ Buys[t] = Bought(t) /\ Sells[t] = Sold(t) /\ Quantity[t] = t.qty
      /\ Bought(t) \in Nat /\ Sold(t) \in Nat /\ Bought(t) + Sold(t) > 0
  BY <1>2 DEF Buys, Sells, Quantity, Bought, Sold
<1>6. /\ buy' = [buy EXCEPT ![p][k] = @ + Bought(t)]
      /\ sell' = [sell EXCEPT ![p][k] = @ + Sold(t)]
      /\ volBuy' = [volBuy EXCEPT ![p] = @ + Bought(t)]
      /\ volSell' = [volSell EXCEPT ![p] = @ + Sold(t)]
      /\ valBuy' = [valBuy EXCEPT ![p] = @ + x * Bought(t)]
      /\ valSell' = [valSell EXCEPT ![p] = @ + x * Sold(t)]
      /\ sumVP' = [sumVP EXCEPT ![p] = @ + x * t.qty]
      /\ sumVP2' = [sumVP2 EXCEPT ![p] = @ + x * x * t.qty]
  BY DEF Add
<1>7. /\ buy[p] \in [Key -> Nat] /\ buy'[p] \in [Key -> Nat]
      /\ sell[p] \in [Key -> Nat] /\ sell'[p] \in [Key -> Nat]
      /\ \A j \in Key : buy'[p][j] = IF j = k THEN buy[p][j] + Buys[t] ELSE buy[p][j]
      /\ \A j \in Key : sell'[p][j] = IF j = k THEN sell[p][j] + Sells[t] ELSE sell[p][j]
  <2>. HIDE DEF k
  <2>. QED
    BY <1>1, <1>2, <1>5, <1>6
<1>8. PathSums(p)
  BY DEF SumInv
<1>9. SumsMatch(buy'[p], Buys, ts \cup {t}) /\ SumsMatch(sell'[p], Sells, ts \cup {t})
  <2>1. SumsMatch(buy[p], Buys, ts) /\ SumsMatch(sell[p], Sells, ts)
    BY <1>8 DEF PathSums
  <2>. HIDE DEF ts
  <2>2. SumsMatch(buy'[p], Buys, ts \cup {t})
    BY <1>2, <1>4, <1>7, <2>1, QuantityType, SumsMatchAdd
  <2>3. SumsMatch(sell'[p], Sells, ts \cup {t})
    BY <1>2, <1>4, <1>7, <2>1, QuantityType, SumsMatchAdd
  <2>. QED
    BY <2>2, <2>3
<1>10. ASSUME NEW acc \in [Path -> Nat], NEW acc1, NEW val \in [Trade -> Nat],
              acc1 = [acc EXCEPT ![p] = @ + val[t]], acc[p] = SumOver(val, ts)
       PROVE  acc1[p] = SumOver(val, ts \cup {t})
  <2>1. acc1[p] = acc[p] + val[t]
    BY <1>10
  <2>. HIDE DEF ts
  <2>. QED
    BY <1>4, <1>10, <2>1, SumAddTrade
<1>11. /\ volBuy'[p] = SumOver(Buys, ts \cup {t}) /\ volSell'[p] = SumOver(Sells, ts \cup {t})
       /\ valBuy'[p] = SumOver(Times(Buys), ts \cup {t})
       /\ valSell'[p] = SumOver(Times(Sells), ts \cup {t})
  <2>1. /\ volBuy[p] = SumOver(Buys, ts) /\ volSell[p] = SumOver(Sells, ts)
        /\ valBuy[p] = SumOver(Times(Buys), ts) /\ valSell[p] = SumOver(Times(Sells), ts)
    BY <1>8 DEF PathSums
  <2>2. Times(Buys)[t] = x * Bought(t) /\ Times(Sells)[t] = x * Sold(t)
    BY <1>5 DEF Times
  <2>3. /\ Buys \in [Trade -> Nat] /\ Sells \in [Trade -> Nat]
        /\ Times(Buys) \in [Trade -> Nat] /\ Times(Sells) \in [Trade -> Nat]
    BY QuantityType
  <2>. HIDE DEF ts, x
  <2>4. /\ volBuy' = [volBuy EXCEPT ![p] = @ + Buys[t]]
        /\ volSell' = [volSell EXCEPT ![p] = @ + Sells[t]]
        /\ valBuy' = [valBuy EXCEPT ![p] = @ + Times(Buys)[t]]
        /\ valSell' = [valSell EXCEPT ![p] = @ + Times(Sells)[t]]
    BY <1>5, <1>6, <2>2
  <2>5. volBuy'[p] = SumOver(Buys, ts \cup {t})
    BY <1>1, <1>10, <2>1, <2>3, <2>4
  <2>6. volSell'[p] = SumOver(Sells, ts \cup {t})
    BY <1>1, <1>10, <2>1, <2>3, <2>4
  <2>7. valBuy'[p] = SumOver(Times(Buys), ts \cup {t})
    BY <1>1, <1>10, <2>1, <2>3, <2>4
  <2>8. valSell'[p] = SumOver(Times(Sells), ts \cup {t})
    BY <1>1, <1>10, <2>1, <2>3, <2>4
  <2>. QED
    BY <2>5, <2>6, <2>7, <2>8
<1>12. /\ sumVP'[p] = SumOver(Times(Quantity), ts \cup {t})
       /\ sumVP2'[p] = SumOver(Times(Times(Quantity)), ts \cup {t})
  <2>. DEFINE V == Times(Quantity)
              W == Times(V)
  <2>1. V \in [Trade -> Nat] /\ W \in [Trade -> Nat]
    BY QuantityType
  <2>2. V[t] = x * t.qty /\ W[t] = x * V[t]
    BY <1>5 DEF Times
  <2>3. W[t] = x * x * t.qty
    <3>1. \A a, b, c \in Nat : a * (b * c) = a * b * c
      OBVIOUS
    <3>. HIDE DEF V, W
    <3>. QED
      BY <1>2, <2>2, <3>1
  <2>4. sumVP[p] = SumOver(V, ts) /\ sumVP2[p] = SumOver(W, ts)
    BY <1>8 DEF PathSums
  <2>. HIDE DEF V, W, ts, x
  <2>5. sumVP' = [sumVP EXCEPT ![p] = @ + V[t]] /\ sumVP2' = [sumVP2 EXCEPT ![p] = @ + W[t]]
    BY <1>6, <2>2, <2>3
  <2>6. sumVP'[p] = SumOver(V, ts \cup {t})
    BY <1>1, <1>10, <2>1, <2>4, <2>5
  <2>7. sumVP2'[p] = SumOver(W, ts \cup {t})
    BY <1>1, <1>10, <2>1, <2>4, <2>5
  <2>. QED
    BY <2>6, <2>7 DEF V, W
<1>13. \A j \in Key : buy'[p][j] + sell'[p][j] > 0 <=> j \in Keys(ts \cup {t})
  <2>1. Keys(ts \cup {t}) = Keys(ts) \cup {k}
    BY DEF Keys
  <2>2. \A j \in Key : buy[p][j] + sell[p][j] > 0 <=> j \in Keys(ts)
    BY <1>8 DEF PathSums
  <2>3. ASSUME NEW j \in Key PROVE buy'[p][j] + sell'[p][j] > 0 <=> j \in Keys(ts) \cup {k}
    <3>1. buy[p][j] \in Nat /\ sell[p][j] \in Nat
      BY <1>7
    <3>. HIDE DEF ts, k
    <3>. QED
      BY <1>5, <1>7, <2>2, <3>1
  <2>. QED
    BY <2>1, <2>3
<1>. QED
  BY <1>3, <1>9, <1>11, <1>12, <1>13 DEF PathSums

\* A path no trade of which is added keeps its sums.
LEMMA SumsUnchanged ==
  ASSUME NEW p \in Path, PathSums(p), Counted(p)' = Counted(p), low'[p] = low[p],
         buy'[p] = buy[p], sell'[p] = sell[p], volBuy'[p] = volBuy[p], volSell'[p] = volSell[p],
         valBuy'[p] = valBuy[p], valSell'[p] = valSell[p],
         sumVP'[p] = sumVP[p], sumVP2'[p] = sumVP2[p]
  PROVE  PathSums(p)'
BY DEF PathSums

LEMMA SumStep ==
  ASSUME ~ Resend, HistInv, RangeInv, SumInv, [HistNext]_histVars
  PROVE  SumInv'
<1>1. ASSUME NEW p \in Path, NEW t \in Trade, t \notin fed[p], Add(p, t),
             fed' = [fed EXCEPT ![p] = @ \cup {t}]
      PROVE  SumInv'
  <2>1. HistTypeOK
    BY DEF HistInv
  <2>2. CASE ~ Accepted(t)
    <3>1. \A q \in Path : Counted(q)' = Counted(q)
      BY <1>1, <2>1, <2>2 DEF Counted, Accepted, HistTypeOK
    <3>2. UNCHANGED <<low, buy, sell, volBuy, volSell, valBuy, valSell, sumVP, sumVP2>>
      BY <1>1, <2>2 DEF Add, hist
    <3>. QED
      BY <3>1, <3>2, SumsUnchanged DEF SumInv
  <2>3. CASE Accepted(t)
    <3>1. PathSums(p)'
      BY <1>1, <2>3, AddSums
    <3>2. ASSUME NEW q \in Path, q # p PROVE PathSums(q)'
      <4>1. Counted(q)' = Counted(q)
        BY <1>1, <2>1, <3>2 DEF Counted, Accepted, HistTypeOK
      <4>2. /\ low'[q] = low[q] /\ buy'[q] = buy[q] /\ sell'[q] = sell[q]
            /\ volBuy'[q] = volBuy[q] /\ volSell'[q] = volSell[q]
            /\ valBuy'[q] = valBuy[q] /\ valSell'[q] = valSell[q]
            /\ sumVP'[q] = sumVP[q] /\ sumVP2'[q] = sumVP2[q]
        BY <1>1, <2>1, <2>3, <3>2 DEF Add, HistTypeOK
      <4>. QED
        BY <4>1, <4>2, SumsUnchanged DEF SumInv
    <3>. QED
      BY <3>1, <3>2 DEF SumInv
  <2>. QED
    BY <2>2, <2>3
<1>2. CASE UNCHANGED histVars
  <2>1. UNCHANGED <<fed, low, buy, sell, volBuy, volSell, valBuy, valSell, sumVP, sumVP2>>
    BY <1>2 DEF histVars, hist
  <2>2. \A q \in Path : Counted(q)' = Counted(q)
    BY <2>1 DEF Counted, Accepted
  <2>. QED
    BY <2>1, <2>2, SumsUnchanged DEF SumInv
<1>. QED
  BY <1>1, <1>2 DEF HistNext, FeedTrade, Finished

\* Finitely many trades have finitely many keys.
LEMMA KeysFinite == ASSUME NEW ts, IsFiniteSet(ts) PROVE IsFiniteSet(Keys(ts))
<1>. DEFINE g == [t \in ts |-> KeyOf(t.price)]
<1>1. g \in Surjection(ts, Keys(ts))
  BY DEF Keys, Surjection
<1>. QED
  BY <1>1, FS_Surjection

\* The traded levels are the keys of the trades, so the bands are theirs.
LEMMA LevelsAreKeys ==
  ASSUME HistInv, RangeInv, NEW p \in Path, PathSums(p)
  PROVE  /\ Levels(p) = Keys(Counted(p)) /\ IsFiniteSet(Levels(p))
         /\ LoBand(p) = Lowest(Counted(p)) /\ HiBand(p) = Highest(Counted(p))
<1>. DEFINE ts == Counted(p)
<1>1. ts \subseteq Trade /\ IsFiniteSet(ts)
  BY DEF HistInv, HistTypeOK, Counted, RangeInv
<1>2. Keys(ts) \subseteq Key
  BY <1>1, QuantityType DEF Keys, Counted, Accepted
<1>3. Levels(p) = Keys(ts)
  BY <1>2 DEF Levels, PathSums
<1>4. IsFiniteSet(Keys(ts))
  <2>. HIDE DEF ts
  <2>. QED
    BY <1>1, KeysFinite
<1>5. LoBand(p) = Lowest(ts) /\ HiBand(p) = Highest(ts)
  <2>. HIDE DEF ts
  <2>. QED
    BY <1>3 DEF LoBand, HiBand, Lowest, Highest
<1>. QED
  BY <1>3, <1>4, <1>5

\* The volume, the volume-weighted prices and the bands, from the trades.
LEMMA SumsOfReduce ==
  ASSUME HistInv, RangeInv, NEW p \in Path, PathSums(p)
  PROVE  LET ts == Counted(p)
             r == Reduce(p)
         IN /\ r.volume = SumOver(Quantity, ts)
            /\ r.buyVWAP = <<SumOver(Times(Buys), ts), SumOver(Buys, ts)>>
            /\ r.sellVWAP = <<SumOver(Times(Sells), ts), SumOver(Sells, ts)>>
            /\ r.moments = <<SumOver(Times(Quantity), ts), SumOver(Times(Times(Quantity)), ts)>>
            /\ r.loBandBuy = SumOver(Buys, In(ts, Lowest(ts)))
            /\ r.loBandSell = SumOver(Sells, In(ts, Lowest(ts)))
            /\ r.hiBandBuy = SumOver(Buys, In(ts, Highest(ts)))
            /\ r.hiBandSell = SumOver(Sells, In(ts, Highest(ts)))
<1>. DEFINE ts == Counted(p)
            L == Levels(p)
<1>1. ts \subseteq Trade /\ IsFiniteSet(ts)
  BY DEF HistInv, HistTypeOK, Counted, RangeInv
<1>2. L = Keys(ts) /\ IsFiniteSet(L)
  BY LevelsAreKeys
<1>3. LoBand(p) = Lowest(ts) /\ HiBand(p) = Highest(ts)
  BY LevelsAreKeys
<1>4. /\ LoBand(p) \in SUBSET Key /\ HiBand(p) \in SUBSET Key
      /\ IsFiniteSet(LoBand(p)) /\ IsFiniteSet(HiBand(p))
  <2>1. LoBand(p) \subseteq L /\ HiBand(p) \subseteq L /\ L \subseteq Key
    BY DEF LoBand, HiBand, Levels
  <2>. QED
    BY <1>2, <2>1, FS_Subset
<1>5. \A B \in SUBSET Key : IsFiniteSet(B) =>
        /\ SumOver(buy[p], B) = SumOver(Buys, In(ts, B))
        /\ SumOver(sell[p], B) = SumOver(Sells, In(ts, B))
  BY DEF PathSums, SumsMatch
<1>6. /\ volBuy[p] = SumOver(Buys, ts) /\ volSell[p] = SumOver(Sells, ts)
      /\ valBuy[p] = SumOver(Times(Buys), ts) /\ valSell[p] = SumOver(Times(Sells), ts)
      /\ sumVP[p] = SumOver(Times(Quantity), ts) /\ sumVP2[p] = SumOver(Times(Times(Quantity)), ts)
  BY DEF PathSums
<1>7. SumOver(Quantity, ts) = SumOver(Buys, ts) + SumOver(Sells, ts)
  <2>1. \A t \in ts : /\ Buys[t] \in Nat /\ Sells[t] \in Nat
                      /\ Quantity[t] = Buys[t] + Sells[t]
    <3>1. ASSUME NEW t \in ts
          PROVE  Buys[t] \in Nat /\ Sells[t] \in Nat /\ Quantity[t] = Buys[t] + Sells[t]
      <4>1. t \in Trade /\ t.qty \in Nat
        BY <1>1, QuantityType
      <4>. HIDE DEF ts
      <4>. QED
        BY <4>1 DEF Buys, Sells, Quantity
    <3>. QED
      BY <3>1
  <2>. HIDE DEF ts
  <2>. QED
    BY <1>1, <2>1, SumPlus
<1>8. /\ SumOver(buy[p], LoBand(p)) = SumOver(Buys, In(ts, Lowest(ts)))
       /\ SumOver(sell[p], LoBand(p)) = SumOver(Sells, In(ts, Lowest(ts)))
       /\ SumOver(buy[p], HiBand(p)) = SumOver(Buys, In(ts, Highest(ts)))
       /\ SumOver(sell[p], HiBand(p)) = SumOver(Sells, In(ts, Highest(ts)))
  <2>. HIDE DEF ts, L
  <2>. QED
    BY <1>3, <1>4, <1>5
<1>. QED
  BY <1>6, <1>7, <1>8 DEF Reduce

\* All three invariants, in every run in which no trade comes twice.
LEMMA HistInvariance ==
  ASSUME ~ Resend
  PROVE  HistSpec => [](HistInv /\ RangeInv /\ SumInv)
<1>1. HistInit => HistInv /\ RangeInv /\ SumInv
  BY HistInitInv, RangeInvInit, SumInvInit
<1>2. HistInv /\ RangeInv /\ SumInv /\ [HistNext]_histVars => HistInv' /\ RangeInv' /\ SumInv'
  BY HistStep, RangeStep, SumStep
<1>. QED
  BY <1>1, <1>2, PTL DEF HistSpec

\* Whatever trades a minute has and whatever their order, every column of the
\* reduction but open and close is what the set of accepted trades makes it,
\* provided that no trade is added twice (Add and Reduce, levelhist.go).
THEOREM ReductionsTheorem ==
  ASSUME ~ Resend
  PROVE  HistSpec => []ReductionsMatchTrades
<1>1. HistInv /\ RangeInv => CountAndRange
  BY CountAndRangeInv
<1>2. HistInv /\ RangeInv /\ SumInv => ReductionsMatchTrades
  <2>. SUFFICES ASSUME HistInv, RangeInv, SumInv, NEW p \in Path
                PROVE  LET ts == Counted(p)
                           r == Reduce(p)
                       IN /\ r.trades = Cardinality(ts)
                          /\ r.volume = SumOver(Quantity, ts)
                          /\ r.buyVWAP = <<SumOver(Times(Buys), ts), SumOver(Buys, ts)>>
                          /\ r.sellVWAP = <<SumOver(Times(Sells), ts), SumOver(Sells, ts)>>
                          /\ r.moments = <<SumOver(Times(Quantity), ts),
                                           SumOver(Times(Times(Quantity)), ts)>>
                          /\ r.loBandBuy = SumOver(Buys, In(ts, Lowest(ts)))
                          /\ r.loBandSell = SumOver(Sells, In(ts, Lowest(ts)))
                          /\ r.hiBandBuy = SumOver(Buys, In(ts, Highest(ts)))
                          /\ r.hiBandSell = SumOver(Sells, In(ts, Highest(ts)))
                          /\ ts # {} => r.low = Min(Prices(ts)) /\ r.high = Max(Prices(ts))
    BY DEF ReductionsMatchTrades, Counted
  <2>1. PathSums(p)
    BY DEF SumInv
  <2>2. /\ Reduce(p).trades = tradeCount[p]
        /\ Reduce(p).low = low[p] /\ Reduce(p).high = high[p]
    BY DEF Reduce
  <2>3. /\ tradeCount[p] = Cardinality(Counted(p))
        /\ Counted(p) # {} => low[p] = Min(Prices(Counted(p))) /\ high[p] = Max(Prices(Counted(p)))
    BY <1>1 DEF CountAndRange
  <2>. QED
    BY <2>1, <2>2, <2>3, SumsOfReduce
<1>. QED
  BY <1>2, HistInvariance, PTL

\* The row of a minute, open and close aside.
SameRow ==
  \A p \in Path, q \in Path : Counted(p) = Counted(q) => Reduce(p) = Reduce(q)

\* Two paths that were given the same accepted trades, in whatever orders and
\* wherever in the minute each of them is, reduce to the same row, its points
\* of control included: the batch and the live bar of a minute agree.
THEOREM SameRowTheorem ==
  ASSUME ~ Resend
  PROVE  HistSpec => []SameRow
<1>1. HistInv /\ RangeInv /\ SumInv => SameRow
  <2>. SUFFICES ASSUME HistInv, RangeInv, SumInv, NEW p \in Path, NEW q \in Path,
                       Counted(p) = Counted(q)
                PROVE  Reduce(p) = Reduce(q)
    BY DEF SameRow
  <2>0. ASSUME NEW x \in Path PROVE buy[x] \in [Key -> Nat] /\ sell[x] \in [Key -> Nat]
    BY DEF HistInv, HistTypeOK
  <2>1. ASSUME NEW x \in Path, NEW k \in Key
        PROVE  /\ buy[x][k] = SumOver(Buys, In(Counted(x), {k}))
               /\ sell[x][k] = SumOver(Sells, In(Counted(x), {k}))
    <3>1. IsFiniteSet({k})
      BY FS_Singleton
    <3>2. ASSUME NEW f, f[k] \in Nat PROVE SumOver(f, {k}) = f[k]
      <4>1. \A y \in {k} : f[y] \in Nat
        BY <3>2
      <4>2. SumOver(f, {k}) = f[k] + SumOver(f, {k} \ {k}) /\ {k} \ {k} = {}
        BY <3>1, <4>1, SumTakeOut
      <4>. QED
        BY <3>2, <4>2, SumEmpty
    <3>3. SumOver(buy[x], {k}) = buy[x][k] /\ SumOver(sell[x], {k}) = sell[x][k]
      BY <2>0, <3>2
    <3>4. SumsMatch(buy[x], Buys, Counted(x)) /\ SumsMatch(sell[x], Sells, Counted(x))
      BY DEF SumInv, PathSums
    <3>. QED
      BY <3>1, <3>3, <3>4 DEF SumsMatch
  <2>2. buy[p] = buy[q] /\ sell[p] = sell[q]
    <3>1. \A k \in Key : buy[p][k] = buy[q][k] /\ sell[p][k] = sell[q][k]
      BY <2>1
    <3>. QED
      BY <2>0, <3>1
  <2>3. poc[p] = poc[q] /\ buyPoc[p] = buyPoc[q] /\ sellPoc[p] = sellPoc[q]
    BY <2>2, PocsAgreeInv DEF PocsAgree
  <2>4. /\ tradeCount[p] = tradeCount[q] /\ sumVP[p] = sumVP[q] /\ sumVP2[p] = sumVP2[q]
        /\ volBuy[p] = volBuy[q] /\ volSell[p] = volSell[q]
        /\ valBuy[p] = valBuy[q] /\ valSell[p] = valSell[q]
    BY DEF RangeInv, SumInv, PathSums
  <2>5. low[p] = low[q] /\ high[p] = high[q]
    <3>1. CASE Counted(p) = {}
      BY <3>1 DEF RangeInv, SumInv, PathSums
    <3>2. CASE Counted(p) # {}
      <4>1. CountAndRange
        BY CountAndRangeInv
      <4>. QED
        BY <3>2, <4>1 DEF CountAndRange
    <3>. QED
      BY <3>1, <3>2
  <2>6. Levels(p) = Levels(q)
    BY <2>2 DEF Levels
  <2>7. LoBand(p) = LoBand(q) /\ HiBand(p) = HiBand(q)
    BY <2>6 DEF LoBand, HiBand
  <2>. QED
    BY <2>2, <2>3, <2>4, <2>5, <2>6, <2>7 DEF Reduce
<1>. QED
  BY <1>1, HistInvariance, PTL

-----------------------------------------------------------------------------
(***************************************************************************)
(* The book, for every set of prices, quantities and books: its types,     *)
(* that gaps leave no ghost levels, that nothing is taken from a book that *)
(* a snapshot filled, and that a spread sampled while a snapshot is loaded *)
(* is the exchange's.                                                      *)
(*                                                                         *)
(* Between the read of a payload and its first row the book may hold       *)
(* ghosts; what keeps them from being seen is that every row of the        *)
(* payload, whichever comes first, would reset the book (Resets).  While a *)
(* snapshot is loaded the book is the part of the exchange's below the     *)
(* price of the last row (Loading).                                        *)
(***************************************************************************)

\* Levels are the exchange's or wait for a row.
Clean == \A s \in Side, p \in Price :
           book[s][p] # 0 => book[s][p] = seen[s][p] \/ Pending(s, p)

\* The payload is not begun, and whichever row comes first resets the book.
Resets == /\ feed = "file" /\ lastFinalUpdateID # payload.id
          /\ \A r \in rows : ResetOrderbook(r)

\* Levels missing from the book wait for a row, too.
Exact == \A s \in Side, p \in Price : book[s][p] = seen[s][p] \/ Pending(s, p)

\* All of a snapshot is still to come, and its first row will reset the book.
Coming == /\ payload.id # lastSnapshotUpdateID
          /\ \E r \in rows : r[1] = "snapshot"
          /\ \A s \in Side, p \in Price : seen[s][p] # 0 => <<"snapshot", s, p>> \in rows

\* How the ids of the payloads read are related.
Ids ==
  /\ payload.id <= version + 1
  /\ rows # {} => payload.id # 0
  /\ lastSnapshotUpdateID <= payload.id
  /\ feed = "file" => /\ lastFinalUpdateID <= payload.id
                      /\ rows = {} => lastFinalUpdateID = payload.id
                      /\ lastFinalUpdateID = 0 => book = Empty
                      /\ payload.id = version => seen = market
  /\ feed = "stream" => seen = market /\ ~ chained

IInv ==
  /\ TypeOK /\ Ids
  /\ Clean \/ Resets
  /\ chained => Coming \/ (Exact /\ \A r \in rows : ~ ResetOrderbook(r))

-----------------------------------------------------------------------------
\* The parts of a row.
LEMMA RowParts ==
  ASSUME TypeOK, NEW r \in rows
  PROVE  r[1] \in Kind /\ r[2] \in Side /\ r[3] \in Price /\ r = <<r[1], r[2], r[3]>>
BY DEF TypeOK

\* What Inserted does to a book.
LEMMA InsertedLevels ==
  ASSUME TypeOK, NEW r \in rows, NEW b \in Books
  PROVE  /\ Inserted(b, r) \in Books
         /\ \A s \in Side, p \in Price :
              Inserted(b, r)[s][p] = IF s = r[2] /\ p = r[3] THEN seen[s][p] ELSE b[s][p]
<1>1. r[2] \in Side /\ r[3] \in Price
  BY RowParts
<1>2. seen \in Books
  BY MarketAssumption DEF TypeOK
<1>. QED
  BY <1>1, <1>2 DEF Inserted, Books

LEMMA EmptyBook == Empty \in Books /\ \A s \in Side, p \in Price : Empty[s][p] = 0
BY DEF Empty, Books

\* Books that agree everywhere are equal.
LEMMA BooksEqual ==
  ASSUME NEW a \in Books, NEW b \in Books, \A s \in Side, p \in Price : a[s][p] = b[s][p]
  PROVE  a = b
<1>1. \A s \in Side : a[s] = b[s]
  BY DEF Books
<1>. QED
  BY <1>1 DEF Books

-----------------------------------------------------------------------------
\* The rows of a payload are rows.
LEMMA RowsType ==
  ASSUME NEW new \in Market
  PROVE  /\ DeltaRows(new) \subseteq Rows("depthUpdate")
         /\ SnapshotRows(new) \subseteq Rows("snapshot")
         /\ Rows("depthUpdate") \subseteq Kind \X Side \X Price
         /\ Rows("snapshot") \subseteq Kind \X Side \X Price
         /\ \A s \in Side, p \in Price :
              /\ new[s][p] # market[s][p] => <<"depthUpdate", s, p>> \in DeltaRows(new)
              /\ new[s][p] # 0 => <<"snapshot", s, p>> \in SnapshotRows(new)
BY DEF DeltaRows, SnapshotRows, Rows, Kind

\* A payload is read: types.
LEMMA ReadType ==
  ASSUME TypeOK, NEW new \in Market, NEW id \in Nat, NEW prev \in Nat,
         NEW rs \in SUBSET (Kind \X Side \X Price),
         Read(new, id, prev, rs), market' \in Market, version' \in Nat, chained' \in BOOLEAN
  PROVE  TypeOK'
BY DEF TypeOK, Read

LEMMA TypeStep ==
  ASSUME TypeOK, [Next]_vars
  PROVE  TypeOK'
<1>1. ASSUME NEW new \in Market, Delta(new) PROVE TypeOK'
  <2>1. NextVersion \in Nat /\ version \in Nat
    BY DEF TypeOK, NextVersion
  <2>2. DeltaRows(new) \in SUBSET (Kind \X Side \X Price)
    BY RowsType
  <2>. QED
    BY <1>1, <2>1, <2>2, ReadType DEF Delta, TypeOK
<1>2. ASSUME NEW new \in Market, DeltaWithSnapshot(new) PROVE TypeOK'
  <2>1. NextVersion \in Nat /\ version \in Nat
    BY DEF TypeOK, NextVersion
  <2>2. DeltaRows(new) \cup SnapshotRows(new) \in SUBSET (Kind \X Side \X Price)
    BY RowsType
  <2>. QED
    BY <1>2, <2>1, <2>2, ReadType DEF DeltaWithSnapshot, TypeOK
<1>3. ASSUME NEW new \in Market, Lose(new) PROVE TypeOK'
  BY <1>3 DEF Lose, NextVersion, TypeOK, aggregator
<1>4. ASSUME NEW new \in Market, ResetDepth(new) PROVE TypeOK'
  BY <1>4, EmptyBook DEF ResetDepth, NextVersion, TypeOK
<1>5. ASSUME Snapshot PROVE TypeOK'
  <2>1. PICK id \in {version, version + 1} : Read(market, id, 0, SnapshotRows(market))
    BY <1>5 DEF Snapshot
  <2>2. market \in Market /\ id \in Nat /\ market' = market /\ version' = version /\ chained' = TRUE
    BY <1>5 DEF Snapshot, TypeOK
  <2>3. SnapshotRows(market) \in SUBSET (Kind \X Side \X Price)
    BY <2>2, RowsType
  <2>. QED
    BY <2>1, <2>2, <2>3, ReadType DEF TypeOK
<1>6. ASSUME NEW r \in rows, ProcessOrderBookUpdate(r) PROVE TypeOK'
  <2>1. book' \in Books
    BY <1>6, InsertedLevels, EmptyBook DEF ProcessOrderBookUpdate, TypeOK
  <2>2. warm' \in BOOLEAN /\ payload.id \in Nat
    BY <1>6 DEF ProcessOrderBookUpdate, TypeOK
  <2>. QED
    BY <1>6, <2>1, <2>2 DEF ProcessOrderBookUpdate, TypeOK
<1>7. ASSUME NEW r \in rows, ProcessLiveUpdate(r) PROVE TypeOK'
  <2>1. book' \in Books
    BY <1>7, InsertedLevels DEF ProcessLiveUpdate, TypeOK
  <2>. QED
    BY <1>7, <2>1 DEF ProcessLiveUpdate, TypeOK
<1>8. CASE UNCHANGED vars
  BY <1>8 DEF vars, aggregator, TypeOK
<1>. QED
  BY <1>1, <1>2, <1>3, <1>4, <1>5, <1>6, <1>7, <1>8 DEF Next

-----------------------------------------------------------------------------
\* Without rows to come, Clean and Exact speak of the book and seen only.
LEMMA NoRows ==
  ASSUME IInv, rows = {}
  PROVE  /\ \A s \in Side, p \in Price : book[s][p] # 0 => book[s][p] = seen[s][p]
         /\ chained => \A s \in Side, p \in Price : book[s][p] = seen[s][p]
<1>1. \A s \in Side, p \in Price : ~ Pending(s, p)
  BY DEF Pending
<1>2. ~ Resets
  BY DEF IInv, Ids, Resets
<1>3. ~ Coming
  BY DEF Coming
<1>. QED
  BY <1>1, <1>2, <1>3 DEF IInv, Clean, Exact

\* A payload with a delta is read: either it follows the last one, or each of
\* its rows resets the book.
LEMMA DeltaClean ==
  ASSUME IInv, NEW new \in Market, NEW rs,
         rs = DeltaRows(new) \/ rs = DeltaRows(new) \cup SnapshotRows(new),
         feed = "stream" => rs = DeltaRows(new),
         Read(new, NextVersion, version, rs), market' = new, version' = NextVersion
  PROVE  Clean' \/ Resets'
<1>1. /\ rows = {} /\ rows' = rs /\ payload' = [id |-> NextVersion, prev |-> version]
      /\ seen' = new /\ book' = book /\ feed' = feed
      /\ lastFinalUpdateID' = lastFinalUpdateID /\ lastSnapshotUpdateID' = lastSnapshotUpdateID
  BY DEF Read
<1>2. /\ version \in Nat /\ payload.id \in Nat /\ lastFinalUpdateID \in Nat /\ feed \in {"file", "stream"}
      /\ lastSnapshotUpdateID \in Nat
  BY FeedAssumption DEF IInv, TypeOK
<1>3. /\ payload'.id = version + 2 /\ payload'.prev = version
      /\ lastSnapshotUpdateID # payload'.id
  BY <1>1, <1>2 DEF NextVersion, IInv, Ids
<1>4. \A s \in Side, p \in Price : book[s][p] # 0 => book[s][p] = seen[s][p]
  BY <1>1, NoRows
<1>5. ASSUME seen = market \/ book = Empty PROVE Clean'
  <2>1. \A s \in Side, p \in Price : new[s][p] # market[s][p] => Pending(s, p)'
    BY <1>1, RowsType DEF Pending, Kind
  <2>. QED
    BY <1>1, <1>4, <1>5, <2>1, EmptyBook DEF Clean
<1>6. CASE feed = "stream"
  BY <1>5, <1>6 DEF IInv, Ids
<1>7. CASE feed = "file" /\ lastFinalUpdateID = 0
  BY <1>5, <1>7 DEF IInv, Ids
<1>8. CASE feed = "file" /\ lastFinalUpdateID # 0 /\ lastFinalUpdateID = version
  BY <1>1, <1>5, <1>8 DEF IInv, Ids
<1>9. CASE feed = "file" /\ lastFinalUpdateID # 0 /\ lastFinalUpdateID # version
  <2>1. lastFinalUpdateID # payload'.id
    BY <1>2, <1>3, <1>9 DEF IInv, Ids
  <2>2. \A r \in rows' : ResetOrderbook(r)'
    <3>1. TAKE r \in rows'
    <3>2. CASE r \in DeltaRows(new)
      <4>1. r[1] = "depthUpdate"
        BY <3>2 DEF DeltaRows, Rows
      <4>. QED
        BY <1>1, <1>3, <1>9, <2>1, <4>1 DEF ResetOrderbook, Gap
    <3>3. CASE r \in SnapshotRows(new)
      <4>1. r[1] = "snapshot"
        BY <3>3 DEF SnapshotRows, Rows
      <4>. QED
        BY <1>1, <1>3, <4>1 DEF ResetOrderbook, NewSnapshot
    <3>. QED
      BY <1>1, <3>2, <3>3
  <2>. QED
    BY <1>1, <1>9, <2>1, <2>2 DEF Resets
<1>. QED
  BY <1>2, <1>6, <1>7, <1>8, <1>9

\* The ids after a payload is read.
LEMMA ReadIds ==
  ASSUME IInv, NEW new \in Market, NEW id \in Nat, NEW prev, NEW rs,
         Read(new, id, prev, rs), market' = new, version' \in Nat,
         payload.id < id, id <= version' + 1,
         feed = "stream" => ~ chained'
  PROVE  Ids'
<1>1. /\ rows' = rs /\ rs # {} /\ payload' = [id |-> id, prev |-> prev] /\ rows = {}
      /\ seen' = new /\ book' = book /\ feed' = feed
      /\ lastFinalUpdateID' = lastFinalUpdateID /\ lastSnapshotUpdateID' = lastSnapshotUpdateID
  BY DEF Read
<1>2. /\ payload.id \in Nat /\ lastFinalUpdateID \in Nat /\ lastSnapshotUpdateID \in Nat
      /\ lastSnapshotUpdateID <= payload.id
      /\ feed = "file" => /\ lastFinalUpdateID <= payload.id
                          /\ lastFinalUpdateID = 0 => book = Empty
  BY DEF IInv, TypeOK, Ids
<1>3. payload'.id = id /\ id # 0 /\ rows' # {}
  BY <1>1, <1>2
<1>4. lastSnapshotUpdateID <= id /\ (feed = "file" => lastFinalUpdateID <= id)
  BY <1>2
<1>. QED
  BY <1>1, <1>2, <1>3, <1>4 DEF Ids

\* All of a snapshot is to come when its payload is read.
LEMMA SnapshotComing ==
  ASSUME IInv, NEW new \in Market, NEW id \in Nat, NEW prev, NEW rs,
         Read(new, id, prev, rs), payload.id < id,
         SnapshotRows(new) # {}, SnapshotRows(new) \subseteq rs
  PROVE  Coming'
<1>1. /\ rows' = rs /\ payload' = [id |-> id, prev |-> prev] /\ seen' = new
      /\ lastSnapshotUpdateID' = lastSnapshotUpdateID
  BY DEF Read
<1>2. payload.id \in Nat /\ lastSnapshotUpdateID \in Nat /\ lastSnapshotUpdateID <= payload.id
  BY DEF IInv, TypeOK, Ids
<1>3. payload'.id # lastSnapshotUpdateID'
  BY <1>1, <1>2
<1>4. \E r \in rows' : r[1] = "snapshot"
  <2>1. PICK r \in SnapshotRows(new) : TRUE
    OBVIOUS
  <2>. QED
    BY <1>1, <2>1 DEF SnapshotRows, Rows
<1>. QED
  BY <1>1, <1>3, <1>4, RowsType DEF Coming

\* A delta that follows a complete book leaves it exact, row by row.
LEMMA DeltaExact ==
  ASSUME IInv, NEW new \in Market, Delta(new), chained'
  PROVE  Exact' /\ \A r \in rows' : ~ ResetOrderbook(r)'
<1>1. /\ rows = {} /\ rows' = DeltaRows(new) /\ seen' = new /\ book' = book
      /\ payload' = [id |-> NextVersion, prev |-> version]
      /\ lastFinalUpdateID' = lastFinalUpdateID
      /\ chained /\ payload.id = version
  BY DEF Delta, Read
<1>2. feed = "file" /\ seen = market /\ lastFinalUpdateID = version
  BY <1>1, FeedAssumption DEF IInv, Ids, TypeOK
<1>3. \A s \in Side, p \in Price : book[s][p] = market[s][p]
  BY <1>1, <1>2, NoRows
<1>4. \A s \in Side, p \in Price : new[s][p] # market[s][p] => Pending(s, p)'
  BY <1>1, RowsType DEF Pending, Kind
<1>5. Exact'
  BY <1>1, <1>3, <1>4 DEF Exact
<1>6. \A r \in rows' : r[1] = "depthUpdate"
  BY <1>1 DEF DeltaRows, Rows
<1>. QED
  BY <1>1, <1>2, <1>5, <1>6 DEF ResetOrderbook, NewSnapshot, Gap

-----------------------------------------------------------------------------
\* A row put into the exchange's levels, or into an empty book.
LEMMA RowLevels ==
  ASSUME TypeOK, NEW r \in rows, NEW b \in Books,
         book' = Inserted(b, r), rows' = rows \ {r}, seen' = seen, payload' = payload
  PROVE  /\ \A s \in Side, p \in Price :
              book'[s][p] = IF s = r[2] /\ p = r[3] THEN seen[s][p] ELSE b[s][p]
         /\ \A s \in Side, p \in Price :
              Pending(s, p) => Pending(s, p)' \/ (s = r[2] /\ p = r[3])
         /\ \A s \in Side, p \in Price :
              <<"snapshot", s, p>> \in rows =>
                <<"snapshot", s, p>> \in rows' \/ (s = r[2] /\ p = r[3])
<1>1. \A s \in Side, p \in Price :
        book'[s][p] = IF s = r[2] /\ p = r[3] THEN seen[s][p] ELSE b[s][p]
  BY InsertedLevels
<1>2. \A k \in Kind, s \in Side, p \in Price :
        <<k, s, p>> \in rows => <<k, s, p>> \in rows' \/ (s = r[2] /\ p = r[3])
  BY RowParts
<1>3. "snapshot" \in Kind
  BY DEF Kind
<1>. QED
  BY <1>1, <1>2, <1>3 DEF Pending

\* A row leaves no ghost: the book was clean, or it is reset first.
LEMMA RowClean ==
  ASSUME TypeOK, Clean \/ Resets, NEW r \in rows, NEW b \in Books,
         book' = Inserted(b, r), rows' = rows \ {r}, seen' = seen, payload' = payload,
         b = Empty \/ (b = book /\ ~ Resets)
  PROVE  Clean'
<1>1. \A s \in Side, p \in Price : b[s][p] # 0 => b[s][p] = seen[s][p] \/ Pending(s, p)
  BY EmptyBook DEF Clean
<1>2. /\ \A s \in Side, p \in Price :
           book'[s][p] = IF s = r[2] /\ p = r[3] THEN seen[s][p] ELSE b[s][p]
      /\ \A s \in Side, p \in Price :
           Pending(s, p) => Pending(s, p)' \/ (s = r[2] /\ p = r[3])
  BY RowLevels
<1>3. ASSUME NEW s \in Side, NEW p \in Price, book'[s][p] # 0
      PROVE  book'[s][p] = seen'[s][p] \/ Pending(s, p)'
  <2>1. CASE s = r[2] /\ p = r[3]
    BY <1>2, <2>1
  <2>2. CASE ~ (s = r[2] /\ p = r[3])
    BY <1>1, <1>2, <1>3, <2>2
  <2>. QED
    BY <2>1, <2>2
<1>. QED
  BY <1>3 DEF Clean

\* A row keeps an exact book exact, and so does the first row of a snapshot.
LEMMA RowExact ==
  ASSUME TypeOK, NEW r \in rows, NEW b \in Books,
         book' = Inserted(b, r), rows' = rows \ {r}, seen' = seen, payload' = payload,
         \/ b = book /\ Exact
         \/ b = Empty /\ Coming
  PROVE  Exact'
<1>1. /\ \A s \in Side, p \in Price :
           book'[s][p] = IF s = r[2] /\ p = r[3] THEN seen[s][p] ELSE b[s][p]
      /\ \A s \in Side, p \in Price :
           Pending(s, p) => Pending(s, p)' \/ (s = r[2] /\ p = r[3])
  BY RowLevels
<1>2. \A s \in Side, p \in Price : b[s][p] = seen[s][p] \/ Pending(s, p)
  <2>1. CASE b = book /\ Exact
    BY <2>1 DEF Exact
  <2>2. CASE b = Empty /\ Coming
    BY <2>2, EmptyBook DEF Coming, Pending, Kind
  <2>. QED
    BY <2>1, <2>2
<1>3. ASSUME NEW s \in Side, NEW p \in Price
      PROVE  book'[s][p] = seen'[s][p] \/ Pending(s, p)'
  <2>1. CASE s = r[2] /\ p = r[3]
    BY <1>1, <2>1
  <2>2. CASE ~ (s = r[2] /\ p = r[3])
    BY <1>1, <1>2, <2>2
  <2>. QED
    BY <2>1, <2>2
<1>. QED
  BY <1>3 DEF Exact

\* ProcessOrderBookUpdate keeps the invariant.
LEMMA FileStep ==
  ASSUME IInv, TypeOK', NEW r \in rows, ProcessOrderBookUpdate(r)
  PROVE  IInv'
<1> DEFINE b == IF ResetOrderbook(r) THEN Empty ELSE book
<1>1. /\ feed = "file" /\ rows' = rows \ {r} /\ book' = Inserted(b, r)
      /\ lastFinalUpdateID' = payload.id
      /\ lastSnapshotUpdateID' = IF NewSnapshot(r) THEN payload.id ELSE lastSnapshotUpdateID
      /\ seen' = seen /\ payload' = payload /\ market' = market /\ version' = version
      /\ chained' = chained /\ feed' = feed
  BY DEF ProcessOrderBookUpdate
<1>2. TypeOK /\ b \in Books /\ payload.id \in Nat /\ lastSnapshotUpdateID \in Nat
  BY EmptyBook DEF IInv, TypeOK
<1>3. Ids'
  BY <1>1, <1>2 DEF IInv, Ids
<1>4. Clean'
  <2>1. b = Empty \/ (b = book /\ ~ Resets)
    BY DEF Resets
  <2>2. Clean \/ Resets
    BY DEF IInv
  <2> HIDE DEF b
  <2>. QED
    BY <1>1, <1>2, <2>1, <2>2, RowClean
<1>5. ASSUME chained PROVE Coming' \/ (Exact' /\ \A x \in rows' : ~ ResetOrderbook(x)')
  <2>1. \A x \in rows' : ~ Gap(x)'
    BY <1>1 DEF Gap
  <2>2. CASE Coming /\ r[1] = "snapshot"
    <3>1. NewSnapshot(r)
      BY <2>2 DEF Coming, NewSnapshot
    <3>2. b = Empty /\ lastSnapshotUpdateID' = payload.id
      BY <1>1, <3>1 DEF ResetOrderbook
    <3>3. Exact'
      <4> HIDE DEF b
      <4>. QED
        BY <1>1, <1>2, <2>2, <3>2, RowExact
    <3>. QED
      BY <1>1, <2>1, <3>2, <3>3 DEF ResetOrderbook, NewSnapshot
  <2>3. CASE Coming /\ r[1] # "snapshot"
    <3>1. ~ NewSnapshot(r)
      BY <2>3 DEF NewSnapshot
    <3>2. \A x \in rows : x[1] = "snapshot" => x \in rows'
      BY <1>1, <2>3
    <3>. QED
      BY <1>1, <2>3, <3>1, <3>2 DEF Coming
  <2>4. CASE Exact /\ \A x \in rows : ~ ResetOrderbook(x)
    <3>1. ~ ResetOrderbook(r) /\ ~ NewSnapshot(r)
      BY <2>4 DEF ResetOrderbook
    <3>2. b = book /\ lastSnapshotUpdateID' = lastSnapshotUpdateID
      BY <1>1, <3>1
    <3>3. Exact'
      <4> HIDE DEF b
      <4>. QED
        BY <1>1, <1>2, <2>4, <3>2, RowExact
    <3>4. \A x \in rows' : ~ NewSnapshot(x)'
      BY <1>1, <2>4, <3>2 DEF ResetOrderbook, NewSnapshot
    <3>. QED
      BY <2>1, <3>3, <3>4 DEF ResetOrderbook
  <2>. QED
    BY <1>5, <2>2, <2>3, <2>4 DEF IInv
<1>. QED
  BY <1>1, <1>3, <1>4, <1>5 DEF IInv

\* ProcessLiveUpdate keeps the invariant.
LEMMA LiveStep ==
  ASSUME IInv, TypeOK', NEW r \in rows, ProcessLiveUpdate(r)
  PROVE  IInv'
<1>1. /\ feed = "stream" /\ rows' = rows \ {r} /\ book' = Inserted(book, r)
      /\ lastFinalUpdateID' = lastFinalUpdateID /\ lastSnapshotUpdateID' = lastSnapshotUpdateID
      /\ seen' = seen /\ payload' = payload /\ market' = market /\ version' = version
      /\ chained' = chained /\ feed' = feed
  BY DEF ProcessLiveUpdate
<1>2. TypeOK /\ book \in Books /\ (Clean \/ Resets) /\ ~ Resets /\ ~ chained
  BY <1>1 DEF IInv, TypeOK, Resets, Ids
<1>3. Clean'
  BY <1>1, <1>2, RowClean
<1>4. Ids'
  BY <1>1 DEF IInv, Ids
<1>. QED
  BY <1>1, <1>2, <1>3, <1>4 DEF IInv

-----------------------------------------------------------------------------
LEMMA InitInv == Init => IInv
<1> SUFFICES ASSUME Init PROVE IInv
  OBVIOUS
<1>1. TypeOK
  BY EmptyBook DEF Init, TypeOK
<1>2. Clean
  BY EmptyBook DEF Init, Clean
<1>. QED
  BY <1>1, <1>2 DEF Init, IInv, Ids

LEMMA InductiveStep ==
  ASSUME IInv, [Next]_vars
  PROVE  IInv'
<1>0. TypeOK' /\ TypeOK
  BY TypeStep DEF IInv
<1>00. version \in Nat /\ payload.id \in Nat /\ payload.id <= version + 1
       /\ NextVersion \in Nat /\ payload.id < NextVersion /\ NextVersion = version + 2
  BY <1>0 DEF TypeOK, IInv, Ids, NextVersion
<1>1. ASSUME NEW new \in Market, Delta(new) PROVE IInv'
  <2>1. /\ Read(new, NextVersion, version, DeltaRows(new)) /\ market' = new /\ version' = NextVersion
        /\ chained' = (chained /\ payload.id = version)
    BY <1>1 DEF Delta
  <2>2. Clean' \/ Resets'
    BY <2>1, DeltaClean
  <2>3. feed = "stream" => ~ chained'
    BY <2>1 DEF IInv, Ids
  <2>4. Ids'
    BY <1>00, <2>1, <2>3, ReadIds
  <2>5. chained' => Exact' /\ \A r \in rows' : ~ ResetOrderbook(r)'
    BY <1>1, DeltaExact
  <2>. QED
    BY <1>0, <2>2, <2>4, <2>5 DEF IInv
<1>2. ASSUME NEW new \in Market, DeltaWithSnapshot(new) PROVE IInv'
  <2>1. /\ Read(new, NextVersion, version, DeltaRows(new) \cup SnapshotRows(new))
        /\ market' = new /\ version' = NextVersion /\ feed = "file" /\ SnapshotRows(new) # {}
    BY <1>2 DEF DeltaWithSnapshot
  <2>2. Clean' \/ Resets'
    BY <2>1, DeltaClean
  <2>4. Ids'
    BY <1>00, <2>1, ReadIds
  <2>5. Coming'
    BY <1>00, <2>1, SnapshotComing
  <2>. QED
    BY <1>0, <2>2, <2>4, <2>5 DEF IInv
<1>3. ASSUME NEW new \in Market, Lose(new) PROVE IInv'
  <2>1. /\ feed = "file" /\ market' = new /\ version' = NextVersion
        /\ UNCHANGED <<feed, seen, payload, rows, chained, book, lastFinalUpdateID, lastSnapshotUpdateID>>
    BY <1>3 DEF Lose, aggregator
  <2>2. Ids'
    BY <1>00, <2>1 DEF IInv, Ids
  <2>3. (Clean \/ Resets) => (Clean' \/ Resets')
    BY <2>1 DEF Clean, Resets, Pending, ResetOrderbook, NewSnapshot, Gap
  <2>4. /\ Coming => Coming'
        /\ Exact => Exact'
        /\ (\A r \in rows : ~ ResetOrderbook(r)) => \A r \in rows' : ~ ResetOrderbook(r)'
    BY <2>1 DEF Coming, Exact, Pending, ResetOrderbook, NewSnapshot, Gap
  <2>. QED
    BY <1>0, <2>1, <2>2, <2>3, <2>4 DEF IInv
<1>4. ASSUME NEW new \in Market, ResetDepth(new) PROVE IInv'
  <2>1. /\ feed = "stream" /\ market' = new /\ seen' = new /\ book' = Empty /\ version' = NextVersion
        /\ rows = {} /\ rows' = rows
        /\ UNCHANGED <<feed, payload, chained, lastFinalUpdateID, lastSnapshotUpdateID>>
    BY <1>4 DEF ResetDepth
  <2>2. Clean'
    BY <2>1, EmptyBook DEF Clean
  <2>3. Ids'
    BY <1>00, <2>1 DEF IInv, Ids
  <2>. QED
    BY <1>0, <2>1, <2>2, <2>3 DEF IInv, Ids
<1>5. ASSUME Snapshot PROVE IInv'
  <2>1. PICK id \in {version, version + 1} :
          payload.id < id /\ Read(market, id, 0, SnapshotRows(market))
    BY <1>5 DEF Snapshot
  <2>2. /\ feed = "file" /\ market \in Market /\ market' = market /\ version' = version
        /\ id \in Nat /\ id <= version' + 1
    BY <1>0, <1>00, <1>5, <2>1 DEF Snapshot, TypeOK
  <2>3. Ids'
    BY <1>00, <2>1, <2>2, ReadIds
  <2>4. SnapshotRows(market) # {}
    BY <2>1 DEF Read
  <2>5. Coming'
    BY <2>1, <2>2, <2>4, SnapshotComing
  <2>6. \A r \in rows' : r[1] = "snapshot"
    BY <2>1 DEF Read, SnapshotRows, Rows
  <2>7. lastFinalUpdateID' # payload'.id
    BY <1>0, <2>1, <2>2 DEF Read, IInv, Ids, TypeOK
  <2>8. Resets'
    BY <2>1, <2>2, <2>5, <2>6, <2>7 DEF Read, Resets, Coming, ResetOrderbook, NewSnapshot
  <2>. QED
    BY <1>0, <2>3, <2>5, <2>8 DEF IInv
<1>6. ASSUME NEW r \in rows, ProcessOrderBookUpdate(r) PROVE IInv'
  BY <1>0, <1>6, FileStep
<1>7. ASSUME NEW r \in rows, ProcessLiveUpdate(r) PROVE IInv'
  BY <1>0, <1>7, LiveStep
<1>8. CASE UNCHANGED vars
  <2>1. UNCHANGED <<feed, market, version, seen, payload, rows, chained, book,
                    lastFinalUpdateID, lastSnapshotUpdateID>>
    BY <1>8 DEF vars, aggregator
  <2>. QED
    BY <1>0, <2>1 DEF IInv, Ids, Clean, Resets, Coming, Exact, Pending, ResetOrderbook,
                      NewSnapshot, Gap
<1>. QED
  BY <1>1, <1>2, <1>3, <1>4, <1>5, <1>6, <1>7, <1>8 DEF Next

LEMMA Invariance == Spec => []IInv
<1>. QED
  BY InitInv, InductiveStep, PTL DEF Spec

-----------------------------------------------------------------------------
\* Books, rows and ids keep their types (ProcessOrderBookUpdate, aggregator.go).
THEOREM TypeCorrect == Spec => []TypeOK
<1>1. IInv => TypeOK
  BY DEF IInv
<1>. QED
  BY <1>1, Invariance, PTL

\* Whatever payloads are missing from the files, and however often the stream
\* reconnects, the book has no ghost levels (ResetOrderbook, ResetDepth).
THEOREM NoGhostTheorem == Spec => []NoGhostLevels
<1>1. IInv => NoGhostLevels
  BY FeedAssumption DEF IInv, NoGhostLevels, Clean, Resets
<1>. QED
  BY <1>1, Invariance, PTL

\* A book filled by a snapshot stays the exchange's as long as payloads follow
\* one another: neither the many rows of a payload nor a payload with the id
\* of the snapshot reset it (ProcessOrderBookUpdate).
THEOREM SnapshotTheorem == Spec => []SnapshotKept
<1>1. IInv => SnapshotKept
  <2>1. SUFFICES ASSUME IInv, chained, rows = {} PROVE book = seen
    BY DEF SnapshotKept
  <2>2. \A s \in Side, p \in Price : book[s][p] = seen[s][p]
    BY <2>1, NoRows
  <2>3. book \in Books /\ seen \in Books
    BY <2>1, MarketAssumption DEF IInv, TypeOK
  <2>. QED
    BY <2>2, <2>3, BooksEqual
<1>. QED
  BY <1>1, Invariance, PTL

-----------------------------------------------------------------------------
(* Spreads sampled while a snapshot is loaded.                             *)

\* Of the snapshot's rows those with the lower prices are in the book.
Loaded ==
  \A s \in Side, p \in Price :
    /\ book[s][p] # 0 => book[s][p] = seen[s][p] /\ \A x \in rows : p <= x[3]
    /\ seen[s][p] # 0 => book[s][p] = seen[s][p] \/ <<"snapshot", s, p>> \in rows

\* A snapshot some row of which is to come is all to come, or half loaded.
Loading ==
  (\E r \in rows : r[1] = "snapshot") =>
    /\ chained /\ feed = "file"
    /\ payload.id = lastSnapshotUpdateID => Loaded
    /\ payload.id # lastSnapshotUpdateID =>
         \A s \in Side, p \in Price : seen[s][p] # 0 => <<"snapshot", s, p>> \in rows

\* A bounded set of numbers that is not empty has a greatest element.
LEMMA Greatest ==
  ASSUME NEW T, T \subseteq Nat, T # {}, NEW x \in Nat, \A c \in T : c <= x
  PROVE  \E a \in T : \A c \in T : c <= a
<1>. DEFINE D == {x - c : c \in T}
<1>1. PICK d \in D : \A e \in D : d <= e
  <2>0. \A c \in T : c \in Nat /\ x - c \in Nat
    OBVIOUS
  <2>1. D \subseteq Nat /\ D # {}
    BY <2>0
  <2>. HIDE DEF D
  <2>. QED
    BY <2>1, Least
<1>2. PICK a \in T : d = x - a
  OBVIOUS
<1>3. \A c \in T : x - a <= x - c
  BY <1>1, <1>2
<1>4. a \in Nat /\ \A c \in T : c \in Nat
  OBVIOUS
<1>. QED
  BY <1>3, <1>4

\* A book with the levels of a market up to some price, and none above it that
\* is not the market's, has no spread or the market's: as soon as it has an
\* ask it has all bids.
LEMMA SpreadOfPart ==
  ASSUME NEW b \in Books, NEW m \in Books, Uncrossed(m), NEW x \in Nat,
         \A s \in Side, p \in Price : b[s][p] # 0 => b[s][p] = m[s][p] /\ p <= x,
         \A s \in Side, p \in Price : m[s][p] # 0 => b[s][p] = m[s][p] \/ x <= p
  PROVE  Spread(Best(b, "bid"), Best(b, "ask")) \in
           {<<>>, Spread(Best(m, "bid"), Best(m, "ask"))}
<1>1. /\ Price \subseteq Nat \ {0} /\ "bid" \in Side /\ "ask" \in Side
      /\ Held(b, "bid") \subseteq Nat \ {0} /\ Held(b, "ask") \subseteq Nat \ {0}
      /\ Held(m, "ask") \subseteq Nat \ {0}
  BY PriceAssumption DEF Held, Side
<1>2. CASE Held(b, "ask") = {}
  <2>1. Best(b, "ask") = 0
    BY <1>2 DEF Best
  <2>2. Best(b, "bid") \in Nat
    <3>1. CASE Held(b, "bid") = {}
      BY <3>1 DEF Best
    <3>2. CASE Held(b, "bid") # {}
      <4>1. \A c \in Held(b, "bid") : c <= x
        BY <1>1 DEF Held
      <4>2. PICK a \in Held(b, "bid") : \A c \in Held(b, "bid") : c <= a
        BY <1>1, <3>2, <4>1, Greatest
      <4>3. Max(Held(b, "bid")) = a
        BY <1>1, <4>2, MaxIs
      <4>. QED
        BY <1>1, <3>2, <4>3 DEF Best
    <3>. QED
      BY <3>1, <3>2
  <2>. QED
    BY <2>1, <2>2 DEF Spread
<1>3. CASE Held(b, "ask") # {}
  <2>1. PICK a \in Held(b, "ask") : \A c \in Held(b, "ask") : a <= c
    BY <1>1, <1>3, Least
  <2>2. a \in Held(m, "ask") /\ a <= x
    BY <1>1 DEF Held
  <2>3. \A c \in Held(m, "ask") : a <= c
    <3>1. TAKE c \in Held(m, "ask")
    <3>2. c \in Held(b, "ask") \/ x <= c
      BY <1>1 DEF Held
    <3>. QED
      BY <1>1, <2>1, <2>2, <3>2
  <2>4. Best(b, "ask") = a /\ Best(m, "ask") = a
    BY <1>1, <1>3, <2>1, <2>2, <2>3, MinIs DEF Best
  <2>5. ASSUME NEW c \in Price PROVE c \in Held(b, "bid") <=> c \in Held(m, "bid")
    <3>1. c \in Held(m, "bid") => c < a
      BY <2>2 DEF Uncrossed
    <3>. QED
      BY <1>1, <2>2, <2>5, <3>1 DEF Held
  <2>6. Held(b, "bid") = Held(m, "bid")
    BY <2>5 DEF Held
  <2>. QED
    BY <2>4, <2>6 DEF Best
<1>. QED
  BY <1>2, <1>3

\* A row of a snapshot, or one that comes with it after its first row, leaves
\* the levels up to its own price loaded.
LEMMA RowLoads ==
  ASSUME IInv, Loading, NEW r \in rows, ProcessOrderBookUpdate(r),
         \E x \in rows : x[1] = "snapshot",
         r[1] = "snapshot" \/ payload.id = lastSnapshotUpdateID
  PROVE  /\ lastSnapshotUpdateID' = payload.id /\ book' \in Books /\ r[3] \in Nat
         /\ \A x \in rows : r[3] <= x[3]
         /\ \A s \in Side, p \in Price :
              /\ book'[s][p] # 0 => book'[s][p] = seen[s][p] /\ p <= r[3]
              /\ seen[s][p] # 0 => book'[s][p] = seen[s][p] \/ <<"snapshot", s, p>> \in rows'
<1> DEFINE b == IF ResetOrderbook(r) THEN Empty ELSE book
<1>1. /\ rows' = rows \ {r} /\ seen' = seen /\ payload' = payload /\ FileOrder(r)
      /\ book' = Inserted(b, r)
      /\ lastSnapshotUpdateID' = IF NewSnapshot(r) THEN payload.id ELSE lastSnapshotUpdateID
  BY DEF ProcessOrderBookUpdate
<1>2. TypeOK /\ book \in Books /\ Empty \in Books
  BY EmptyBook DEF IInv, TypeOK
<1>3. r[2] \in Side /\ r[3] \in Price /\ r[3] \in Nat /\ Price \subseteq Nat
  BY <1>2, RowParts, PriceAssumption
<1>4. \A x \in rows : r[3] <= x[3]
  BY <1>1 DEF FileOrder
<1>5. lastSnapshotUpdateID' = payload.id
  BY <1>1 DEF NewSnapshot
<1>6. /\ b \in Books
      /\ \A s \in Side, p \in Price :
           /\ b[s][p] # 0 => b[s][p] = seen[s][p] /\ p <= r[3]
           /\ seen[s][p] # 0 => b[s][p] = seen[s][p] \/ <<"snapshot", s, p>> \in rows
  <2>1. CASE payload.id = lastSnapshotUpdateID
    <3>1. Loaded /\ chained
      BY <2>1 DEF Loading
    <3>2. ~ ResetOrderbook(r)
      BY <2>1, <3>1 DEF IInv, Coming
    <3>. QED
      BY <1>2, <3>1, <3>2 DEF Loaded
  <2>2. CASE payload.id # lastSnapshotUpdateID
    <3>1. ResetOrderbook(r)
      BY <2>2 DEF ResetOrderbook, NewSnapshot
    <3>. QED
      BY <1>2, <2>2, <3>1, EmptyBook DEF Loading
  <2>. QED
    BY <2>1, <2>2
<1>. HIDE DEF b
<1>7. /\ \A s \in Side, p \in Price :
           book'[s][p] = IF s = r[2] /\ p = r[3] THEN seen[s][p] ELSE b[s][p]
      /\ \A s \in Side, p \in Price :
           <<"snapshot", s, p>> \in rows =>
             <<"snapshot", s, p>> \in rows' \/ (s = r[2] /\ p = r[3])
  BY <1>1, <1>2, <1>6, RowLevels
<1>8. book' \in Books
  BY <1>1, <1>2, <1>6, InsertedLevels
<1>9. ASSUME NEW s \in Side, NEW p \in Price
      PROVE  /\ book'[s][p] # 0 => book'[s][p] = seen[s][p] /\ p <= r[3]
             /\ seen[s][p] # 0 => book'[s][p] = seen[s][p] \/ <<"snapshot", s, p>> \in rows'
  BY <1>3, <1>6, <1>7
<1>. QED
  BY <1>3, <1>4, <1>5, <1>8, <1>9

\* A payload that is read has no snapshot, or all of it is to come.
LEMMA LoadingStep ==
  ASSUME IInv, IInv', Loading, [Next]_vars
  PROVE  Loading'
<1>0. TypeOK /\ version \in Nat /\ payload.id \in Nat /\ payload.id <= version + 1
      /\ NextVersion \in Nat /\ payload.id < NextVersion
  BY DEF IInv, TypeOK, Ids, NextVersion
<1>1. ASSUME NEW new \in Market, Delta(new) PROVE Loading'
  BY <1>1 DEF Delta, Read, DeltaRows, Rows, Loading
<1>2. ASSUME NEW new \in Market, DeltaWithSnapshot(new) PROVE Loading'
  <2>1. /\ Read(new, NextVersion, version, DeltaRows(new) \cup SnapshotRows(new))
        /\ feed = "file" /\ feed' = feed /\ SnapshotRows(new) # {} /\ chained'
    BY <1>2 DEF DeltaWithSnapshot, Read
  <2>2. Coming'
    BY <1>0, <2>1, SnapshotComing
  <2>. QED
    BY <2>1, <2>2 DEF Coming, Loading
<1>3. ASSUME Snapshot PROVE Loading'
  <2>1. PICK id \in {version, version + 1} :
          payload.id < id /\ Read(market, id, 0, SnapshotRows(market))
    BY <1>3 DEF Snapshot
  <2>2. feed = "file" /\ feed' = feed /\ chained' /\ SnapshotRows(market) # {}
    BY <1>3, <2>1 DEF Snapshot, Read
  <2>3. market \in Market /\ id \in Nat
    BY <1>0 DEF TypeOK
  <2>4. Coming'
    BY <2>1, <2>2, <2>3, SnapshotComing
  <2>. QED
    BY <2>2, <2>4 DEF Coming, Loading
<1>4. ASSUME NEW r \in rows, ProcessOrderBookUpdate(r) PROVE Loading'
  <2>1. /\ rows' = rows \ {r} /\ payload' = payload /\ seen' = seen /\ chained' = chained
        /\ feed' = feed
    BY <1>4 DEF ProcessOrderBookUpdate
  <2>2. SUFFICES ASSUME \E x \in rows' : x[1] = "snapshot" PROVE Loading'
    BY DEF Loading
  <2>3. chained /\ feed = "file" /\ \E x \in rows : x[1] = "snapshot"
    BY <2>1, <2>2 DEF Loading
  <2>4. CASE r[1] = "snapshot" \/ payload.id = lastSnapshotUpdateID
    <3>1. /\ lastSnapshotUpdateID' = payload.id /\ r[3] \in Nat /\ \A x \in rows : r[3] <= x[3]
          /\ \A s \in Side, p \in Price :
               /\ book'[s][p] # 0 => book'[s][p] = seen[s][p] /\ p <= r[3]
               /\ seen[s][p] # 0 => book'[s][p] = seen[s][p] \/ <<"snapshot", s, p>> \in rows'
      BY <1>4, <2>3, <2>4, RowLoads
    <3>2. \A x \in rows : x[3] \in Nat
      BY <1>0, RowParts, PriceAssumption
    <3>3. \A p \in Price : p \in Nat
      BY PriceAssumption
    <3>4. \A p \in Price, x \in rows : p <= r[3] => p <= x[3]
      BY <3>1, <3>2, <3>3
    <3>5. Loaded'
      BY <2>1, <3>1, <3>4 DEF Loaded
    <3>. QED
      BY <2>1, <2>3, <3>1, <3>5 DEF Loading
  <2>5. CASE r[1] # "snapshot" /\ payload.id # lastSnapshotUpdateID
    <3>1. lastSnapshotUpdateID' = lastSnapshotUpdateID
      BY <1>4, <2>5 DEF ProcessOrderBookUpdate, NewSnapshot
    <3>2. \A s \in Side, p \in Price : seen[s][p] # 0 => <<"snapshot", s, p>> \in rows'
      BY <2>1, <2>3, <2>5 DEF Loading
    <3>. QED
      BY <2>1, <2>3, <2>5, <3>1, <3>2 DEF Loading
  <2>. QED
    BY <2>4, <2>5
<1>5. ASSUME NEW r \in rows, ProcessLiveUpdate(r) PROVE Loading'
  BY <1>5 DEF ProcessLiveUpdate, Loading
<1>6. ASSUME NEW new \in Market, Lose(new) \/ ResetDepth(new) PROVE Loading'
  BY <1>6 DEF Lose, ResetDepth, Loading
<1>7. CASE UNCHANGED vars
  BY <1>7 DEF vars, aggregator, Loading, Loaded
<1>. QED
  BY <1>1, <1>2, <1>3, <1>4, <1>5, <1>6, <1>7 DEF Next

\* While a snapshot is loaded, whatever was in the book before, a spread that
\* is sampled is the exchange's (StreamOrderBook's order, SampleBook).
THEOREM SpreadTheorem == Spec => SnapshotSpreadReal
<1>1. Init => IInv /\ Loading
  BY InitInv DEF Init, Loading
<1>2. IInv /\ Loading /\ [Next]_vars => (IInv /\ Loading)'
  BY InductiveStep, LoadingStep
<1>3. ASSUME IInv, Loading, Next, NEW s \in Side, NEW p \in Price,
             <<"snapshot", s, p>> \in rows \ rows'
      PROVE  sample'.spread \in {<<>>, Spread(Best(seen, "bid"), Best(seen, "ask"))}
  <2>. DEFINE r == <<"snapshot", s, p>>
  <2>1. r \in rows /\ r \notin rows' /\ r[1] = "snapshot" /\ feed = "file"
    BY <1>3 DEF Loading
  <2>2. ProcessOrderBookUpdate(r)
    <3>1. ~ \E new \in Market : Delta(new) \/ DeltaWithSnapshot(new) \/ Lose(new) \/ ResetDepth(new)
      BY <2>1 DEF Delta, DeltaWithSnapshot, Lose, ResetDepth, Read
    <3>2. ~ Snapshot
      BY <2>1 DEF Snapshot, Read
    <3>3. PICK x \in rows : ProcessOrderBookUpdate(x) \/ ProcessLiveUpdate(x)
      BY <1>3, <3>1, <3>2 DEF Next
    <3>4. rows' = rows \ {x} /\ ~ ProcessLiveUpdate(x)
      BY <2>1, <3>3 DEF ProcessOrderBookUpdate, ProcessLiveUpdate
    <3>. QED
      BY <2>1, <3>3, <3>4
  <2>3. sample' = SampleBook(book')
    BY <2>1, <2>2 DEF ProcessOrderBookUpdate
  <2>4. /\ book' \in Books /\ r[3] \in Nat /\ \A x \in rows : r[3] <= x[3]
        /\ \A t \in Side, q \in Price :
             /\ book'[t][q] # 0 => book'[t][q] = seen[t][q] /\ q <= r[3]
             /\ seen[t][q] # 0 => book'[t][q] = seen[t][q] \/ <<"snapshot", t, q>> \in rows'
    <3>. HIDE DEF r
    <3>. QED
      BY <1>3, <2>1, <2>2, RowLoads
  <2>5. \A t \in Side, q \in Price : <<"snapshot", t, q>> \in rows' => r[3] <= q
    <3>1. rows' \subseteq rows
      BY <2>2 DEF ProcessOrderBookUpdate
    <3>. QED
      BY <2>4, <3>1
  <2>6. seen \in Books /\ Uncrossed(seen)
    BY <1>3, MarketAssumption DEF IInv, TypeOK
  <2>7. Spread(Best(book', "bid"), Best(book', "ask")) \in
          {<<>>, Spread(Best(seen, "bid"), Best(seen, "ask"))}
    <3>1. \A t \in Side, q \in Price :
             /\ book'[t][q] # 0 => book'[t][q] = seen[t][q] /\ q <= r[3]
             /\ seen[t][q] # 0 => book'[t][q] = seen[t][q] \/ r[3] <= q
      BY <2>4, <2>5
    <3>. HIDE DEF r
    <3>2. PICK b : b = book'
      OBVIOUS
    <3>. QED
      BY <2>4, <2>6, <3>1, <3>2, SpreadOfPart
  <2>. QED
    BY <2>3, <2>7 DEF SampleBook, SampleOf
<1>4. IInv /\ Loading /\ [Next]_vars =>
        [\A s \in Side, p \in Price :
           <<"snapshot", s, p>> \in rows \ rows' =>
             sample'.spread \in {<<>>, Spread(Best(seen, "bid"), Best(seen, "ask"))}]_vars
  BY <1>3
<1>. QED
  BY <1>1, <1>2, <1>4, PTL DEF Spec, SnapshotSpreadReal

-----------------------------------------------------------------------------
(*****************************************************************************)
(* The treap, for every set of prices and whatever priorities are drawn:     *)
(* its methods are the lookups, updates and extremes of a function from      *)
(* prices to quantities, and the running depth is its sum.  Hence the        *)
(* aggregators with treaps implement DepthBook.                              *)
(*                                                                           *)
(* The methods recur over trees.  There is no induction rule for trees       *)
(* here: a recursive function is shown to exist by a chain of functions,     *)
(* each right on trees one node higher, and what holds of search trees is    *)
(* shown with the least set of pairs (a tree, the depths it stands for)      *)
(* that is closed under putting two trees below a node.                      *)
(*****************************************************************************)

\* Induction up to a bound.
LEMMA BoundedInduction ==
  ASSUME NEW N \in Nat, NEW C, 0 \in C, \A n \in 0..N : n \in C /\ n < N => n + 1 \in C
  PROVE  \A n \in 0..N : n \in C
<1>. DEFINE Bad == {n \in 0..N : n \notin C}
<1>. SUFFICES ASSUME Bad # {} PROVE FALSE
  OBVIOUS
<1>1. PICK n \in Bad : \A m \in Bad : n <= m
  <2>1. Bad \subseteq Nat
    OBVIOUS
  <2>. HIDE DEF Bad
  <2>. QED
    BY <2>1, Least
<1>2. n \in 0..N /\ n # 0 /\ n - 1 \in 0..N /\ n - 1 < N
  OBVIOUS
<1>3. n - 1 \in C
  BY <1>1, <1>2
<1>4. n - 1 + 1 \in C /\ n - 1 + 1 = n
  BY <1>2, <1>3
<1>. QED
  BY <1>4

H == Cardinality(Price)

\* The number of prices.
LEMMA HNat == H \in Nat
BY TreapAssumption, FS_CardinalityType DEF H

\* The trees of height 0, and of one more.
LEMMA TreesUnfold ==
  /\ Trees[0] = {Nil}
  /\ \A h \in 1..H : Trees[h] = {Nil} \cup [price : Price, quantity : Qty, priority : Priority,
                                            left : Trees[h - 1], right : Trees[h - 1]]
<1>. DEFINE Above(child) == {Nil} \cup [price : Price, quantity : Qty, priority : Priority,
                                        left : child, right : child]
            F(g) == [h \in 0..H |-> IF h = 0 THEN {Nil} ELSE Above(g[h - 1])]
            Upto(g, n) == \A h \in 0..n : g[h] = F(g)[h]
            C == {n \in 0..H : \E g : Upto(g, n)}
<1>0. H \in Nat
  BY HNat
<1>. HIDE DEF Above
<1>1. 0 \in C
  <2>1. Upto([h \in 0..H |-> {Nil}], 0)
    BY <1>0
  <2>. HIDE DEF Upto
  <2>. QED
    BY <1>0, <2>1
<1>2. ASSUME NEW n \in 0..H, n \in C, n < H PROVE n + 1 \in C
  <2>1. PICK g : Upto(g, n)
    BY <1>2
  <2>2. ASSUME NEW h \in 0..(n + 1) PROVE F(g)[h] = F(F(g))[h]
    <3>1. CASE h = 0
      BY <1>0, <1>2, <3>1
    <3>2. CASE h # 0
      <4>1. h - 1 \in 0..n /\ h \in 0..H /\ h - 1 \in 0..H
        BY <1>0, <1>2, <3>2
      <4>2. g[h - 1] = F(g)[h - 1]
        BY <2>1, <4>1
      <4>3. F(g)[h] = Above(g[h - 1]) /\ F(F(g))[h] = Above(F(g)[h - 1])
        BY <3>2, <4>1
      <4>. QED
        BY <4>2, <4>3
    <3>. QED
      BY <3>1, <3>2
  <2>3. Upto(F(g), n + 1)
    BY <2>2
  <2>4. n + 1 \in 0..H
    BY <1>0, <1>2
  <2>. HIDE DEF Upto
  <2>. QED
    BY <2>3, <2>4
<1>3. H \in C
  <2>1. \A n \in 0..H : n \in C /\ n < H => n + 1 \in C
    BY <1>2
  <2>. HIDE DEF C
  <2>2. \A n \in 0..H : n \in C
    BY <1>0, <1>1, <2>1, BoundedInduction
  <2>. QED
    BY <1>0, <2>2
<1>4. PICK g : Upto(g, H)
  BY <1>3
<1>5. F(g) = F(F(g))
  <2>1. \A h \in 0..H : g[h] = F(g)[h]
    BY <1>4
  <2>2. ASSUME NEW h \in 0..H PROVE F(g)[h] = F(F(g))[h]
    <3>1. CASE h = 0
      BY <3>1
    <3>2. CASE h # 0
      <4>1. h - 1 \in 0..H
        BY <1>0, <3>2
      <4>. QED
        BY <2>1, <3>2, <4>1
    <3>. QED
      BY <3>1, <3>2
  <2>. QED
    BY <2>2
<1>6. Trees = F(Trees)
  <2>1. Trees = CHOOSE t : t = F(t)
    BY DEF Trees, H, Above
  <2>. HIDE DEF F
  <2>2. \E t : t = F(t)
    BY <1>5
  <2>. QED
    BY <2>1, <2>2
<1>7. \A h \in 0..H : Trees[h] = IF h = 0 THEN {Nil} ELSE Above(Trees[h - 1])
  <2>. DEFINE G == F(Trees)
  <2>1. \A h \in 0..H : G[h] = IF h = 0 THEN {Nil} ELSE Above(Trees[h - 1])
    OBVIOUS
  <2>2. Trees = G
    BY <1>6
  <2>. HIDE DEF G
  <2>. QED
    BY <2>1, <2>2
<1>8. Trees[0] = {Nil}
  BY <1>0, <1>7
<1>9. \A h \in 1..H : Trees[h] = Above(Trees[h - 1])
  BY <1>0, <1>7
<1>. QED
  BY <1>8, <1>9 DEF Above

\* A tree that is not empty has fields, and its children are a node lower.
LEMMA TreeParts ==
  ASSUME NEW h \in 0..H, NEW n \in Trees[h], n # Nil
  PROVE  /\ h > 0 /\ h - 1 \in 0..H
         /\ n.price \in Price /\ n.quantity \in Qty /\ n.priority \in Priority
         /\ n.left \in Trees[h - 1] /\ n.right \in Trees[h - 1]
         /\ n = Node(n.price, n.quantity, n.priority, n.left, n.right)
<1>0. H \in Nat
  BY HNat
<1>1. h # 0
  BY TreesUnfold
<1>2. h \in 1..H /\ h - 1 \in 0..H
  BY <1>0, <1>1
<1>3. n \in [price : Price, quantity : Qty, priority : Priority,
             left : Trees[h - 1], right : Trees[h - 1]]
  BY <1>2, TreesUnfold
<1>4. n = Node(n.price, n.quantity, n.priority, n.left, n.right)
  BY <1>3 DEF Node
<1>. QED
  BY <1>2, <1>3, <1>4

\* Trees are made of trees.
LEMMA NodeInTrees ==
  ASSUME NEW h \in 0..H, h < H, NEW p \in Price, NEW q \in Qty, NEW r \in Priority,
         NEW left \in Trees[h], NEW right \in Trees[h]
  PROVE  Node(p, q, r, left, right) \in Trees[h + 1]
<1>1. h + 1 \in 1..H /\ (h + 1) - 1 = h
  BY HNat
<1>2. Node(p, q, r, left, right) \in [price : Price, quantity : Qty, priority : Priority,
                                      left : Trees[h], right : Trees[h]]
  BY DEF Node
<1>. QED
  BY <1>1, <1>2, TreesUnfold

\* Of a node one knows the parts.
LEMMA NodeParts ==
  ASSUME NEW p, NEW q, NEW r, NEW left, NEW right
  PROVE  LET n == Node(p, q, r, left, right) IN
         /\ n.price = p /\ n.quantity = q /\ n.priority = r /\ n.left = left /\ n.right = right
BY DEF Node

LEMMA NilInTrees == \A h \in 0..H : Nil \in Trees[h]
<1>1. \A h \in 0..H : h = 0 \/ h \in 1..H
  BY HNat
<1>. QED
  BY <1>1, TreesUnfold

\* A node is not the empty tree.
LEMMA NodeNotNil ==
  ASSUME NEW p, NEW q, NEW r, NEW left, NEW right
  PROVE  Node(p, q, r, left, right) # Nil
<1>1. "price" \in DOMAIN Node(p, q, r, left, right)
  BY DEF Node
<1>2. DOMAIN Nil = {}
  BY DEF Nil
<1>. QED
  BY <1>1, <1>2

LEMMA TreesGrow ==
  ASSUME NEW j \in 0..H, NEW i \in 0..j
  PROVE  Trees[i] \subseteq Trees[j]
<1>0. H \in Nat
  BY HNat
<1>1. ASSUME NEW h \in 0..H, h < H PROVE Trees[h] \subseteq Trees[h + 1]
  <2>. DEFINE C == {n \in 0..H : n < H => Trees[n] \subseteq Trees[n + 1]}
  <2>1. 0 \in C
    <3>1. H > 0 => 1 \in 0..H
      BY <1>0
    <3>. QED
      BY <1>0, <3>1, TreesUnfold, NilInTrees
  <2>2. ASSUME NEW n \in 0..H, n \in C, n < H PROVE n + 1 \in C
    <3>. SUFFICES ASSUME n + 1 < H, NEW t \in Trees[n + 1] PROVE t \in Trees[n + 2]
      BY <1>0, <2>2
    <3>1. n + 1 \in 0..H /\ n + 2 \in 0..H /\ n + 1 - 1 = n /\ (n + 1) + 1 = n + 2
      BY <1>0
    <3>2. CASE t = Nil
      BY <3>1, <3>2, NilInTrees
    <3>3. CASE t # Nil
      <4>1. /\ t.price \in Price /\ t.quantity \in Qty /\ t.priority \in Priority
            /\ t.left \in Trees[n] /\ t.right \in Trees[n]
            /\ t = Node(t.price, t.quantity, t.priority, t.left, t.right)
        BY <3>1, <3>3, TreeParts
      <4>2. t.left \in Trees[n + 1] /\ t.right \in Trees[n + 1]
        BY <2>2, <4>1
      <4>3. Node(t.price, t.quantity, t.priority, t.left, t.right) \in Trees[(n + 1) + 1]
        BY <3>1, <4>1, <4>2, NodeInTrees
      <4>. QED
        BY <3>1, <4>1, <4>3
    <3>. QED
      BY <3>2, <3>3
  <2>3. \A n \in 0..H : n \in C /\ n < H => n + 1 \in C
    BY <2>2
  <2>. HIDE DEF C
  <2>4. \A n \in 0..H : n \in C
    BY <1>0, <2>1, <2>3, BoundedInduction
  <2>. QED
    BY <1>1, <2>4 DEF C
<1>2. DEFINE C == {n \in 0..H : n < i \/ Trees[i] \subseteq Trees[n]}
<1>3. 0 \in C
  BY <1>0
<1>4. ASSUME NEW n \in 0..H, n \in C, n < H PROVE n + 1 \in C
  <2>1. CASE n + 1 < i
    BY <1>0, <1>4, <2>1
  <2>2. CASE n + 1 = i
    BY <1>0, <1>4, <2>2
  <2>3. CASE n + 1 > i
    <3>1. Trees[i] \subseteq Trees[n] /\ Trees[n] \subseteq Trees[n + 1]
      BY <1>0, <1>1, <1>4, <2>3
    <3>. QED
      BY <1>0, <1>4, <3>1
  <2>. QED
    BY <1>0, <2>1, <2>2, <2>3
<1>5. \A n \in 0..H : n \in C /\ n < H => n + 1 \in C
  BY <1>4
<1>. HIDE DEF C
<1>6. j \in C
  BY <1>0, <1>3, <1>5, BoundedInduction
<1>. QED
  BY <1>6 DEF C

\* The children of a tree are trees, and a node of two trees one higher.
LEMMA SubtreeInTree ==
  ASSUME NEW n \in Tree, n # Nil
  PROVE  n.left \in Tree /\ n.right \in Tree
<1>1. H \in Nat /\ Tree = Trees[H] /\ H \in 0..H
  BY HNat DEF Tree, H
<1>2. H - 1 \in 0..H /\ n.left \in Trees[H - 1] /\ n.right \in Trees[H - 1]
  BY <1>1, TreeParts
<1>3. Trees[H - 1] \subseteq Trees[H]
  <2>1. H - 1 \in 0..H
    BY <1>2
  <2>. QED
    BY <1>1, <2>1, TreesGrow
<1>. QED
  BY <1>1, <1>2, <1>3

\* Get looks for the price below the root.
LEMMA FindUnfolds ==
  ASSUME NEW price, NEW n \in Tree
  PROVE  Find(n, price) = IF n = Nil THEN 0
                          ELSE IF price < n.price THEN Find(n.left, price)
                          ELSE IF price > n.price THEN Find(n.right, price)
                          ELSE n.quantity
<1>. DEFINE F(g) == [m \in Tree |-> IF m = Nil THEN 0
                                    ELSE IF price < m.price THEN g[m.left]
                                    ELSE IF price > m.price THEN g[m.right]
                                    ELSE m.quantity]
            Upto(g, h) == \A m \in Trees[h] : g[m] = F(g)[m]
            C == {h \in 0..H : \E g : Upto(g, h)}
<1>0. H \in Nat /\ Tree = Trees[H]
  BY HNat DEF Tree, H
<1>1. 0 \in C
  <2>1. Upto([m \in Tree |-> 0], 0)
    BY <1>0, TreesUnfold, NilInTrees
  <2>. HIDE DEF Upto
  <2>. QED
    BY <1>0, <2>1
<1>2. ASSUME NEW h \in 0..H, h \in C, h < H PROVE h + 1 \in C
  <2>1. PICK g : Upto(g, h)
    BY <1>2
  <2>2. h + 1 \in 0..H /\ (h + 1) - 1 = h
    BY <1>0, <1>2
  <2>3. Trees[h + 1] \subseteq Tree /\ Trees[h] \subseteq Tree
    <3>1. H \in 0..H /\ h + 1 \in 0..H /\ h \in 0..H
      BY <1>0, <2>2
    <3>. QED
      BY <1>0, <3>1, TreesGrow
  <2>4. ASSUME NEW m \in Trees[h + 1] PROVE F(g)[m] = F(F(g))[m]
    <3>1. CASE m = Nil
      BY <2>3, <3>1
    <3>2. CASE m # Nil
      <4>1. m.left \in Trees[h] /\ m.right \in Trees[h]
        BY <2>2, <3>2, TreeParts
      <4>2. g[m.left] = F(g)[m.left] /\ g[m.right] = F(g)[m.right]
        BY <2>1, <4>1
      <4>. QED
        BY <2>3, <4>2
    <3>. QED
      BY <3>1, <3>2
  <2>5. Upto(F(g), h + 1)
    BY <2>4
  <2>. HIDE DEF Upto
  <2>. QED
    BY <2>2, <2>5
<1>3. H \in C
  <2>1. \A h \in 0..H : h \in C /\ h < H => h + 1 \in C
    BY <1>2
  <2>. HIDE DEF C
  <2>2. \A h \in 0..H : h \in C
    BY <1>0, <1>1, <2>1, BoundedInduction
  <2>. QED
    BY <1>0, <2>2
<1>4. PICK g : \A m \in Tree : g[m] = F(g)[m]
  BY <1>0, <1>3
<1>5. F(g) = F(F(g))
  <2>1. ASSUME NEW m \in Tree PROVE F(g)[m] = F(F(g))[m]
    <3>1. CASE m = Nil
      BY <3>1
    <3>2. CASE m # Nil
      <4>1. m.left \in Tree /\ m.right \in Tree
        BY <1>0, <3>2, SubtreeInTree
      <4>. QED
        BY <1>4, <4>1
    <3>. QED
      BY <3>1, <3>2
  <2>. QED
    BY <2>1
<1>. DEFINE find == CHOOSE e : e = F(e)
<1>6. find = F(find)
  <2>. HIDE DEF F
  <2>. QED
    BY <1>5
<1>7. \A m : Find(m, price) = find[m]
  BY DEF Find
<1>8. \A m \in Tree : find[m] = F(find)[m]
  BY <1>6
<1>. HIDE DEF find
<1>. QED
  BY <1>7, <1>8

\* insert goes down to the price and rotates on its way back.
LEMMA InsertUnfolds ==
  ASSUME NEW price, NEW quantity, NEW priority, NEW n \in Tree
  PROVE  InsertNode(n, price, quantity, priority) =
           IF n = Nil THEN Node(price, quantity, priority, Nil, Nil)
           ELSE IF price < n.price
           THEN RaiseLeft([n EXCEPT !.left = InsertNode(n.left, price, quantity, priority)])
           ELSE IF price > n.price
           THEN RaiseRight([n EXCEPT !.right = InsertNode(n.right, price, quantity, priority)])
           ELSE [n EXCEPT !.quantity = quantity]
<1>. DEFINE F(g) == [m \in Tree |->
              IF m = Nil THEN Node(price, quantity, priority, Nil, Nil)
              ELSE IF price < m.price THEN RaiseLeft([m EXCEPT !.left = g[m.left]])
              ELSE IF price > m.price THEN RaiseRight([m EXCEPT !.right = g[m.right]])
              ELSE [m EXCEPT !.quantity = quantity]]
            Upto(g, h) == \A m \in Trees[h] : g[m] = F(g)[m]
            C == {h \in 0..H : \E g : Upto(g, h)}
<1>0. H \in Nat /\ Tree = Trees[H]
  BY HNat DEF Tree, H
<1>1. 0 \in C
  <2>1. Upto([m \in Tree |-> Node(price, quantity, priority, Nil, Nil)], 0)
    BY <1>0, TreesUnfold, NilInTrees
  <2>. HIDE DEF Upto
  <2>. QED
    BY <1>0, <2>1
<1>2. ASSUME NEW h \in 0..H, h \in C, h < H PROVE h + 1 \in C
  <2>1. PICK g : Upto(g, h)
    BY <1>2
  <2>2. h + 1 \in 0..H /\ (h + 1) - 1 = h
    BY <1>0, <1>2
  <2>3. Trees[h + 1] \subseteq Tree /\ Trees[h] \subseteq Tree
    <3>1. H \in 0..H /\ h + 1 \in 0..H /\ h \in 0..H
      BY <1>0, <2>2
    <3>. QED
      BY <1>0, <3>1, TreesGrow
  <2>4. ASSUME NEW m \in Trees[h + 1] PROVE F(g)[m] = F(F(g))[m]
    <3>1. CASE m = Nil
      BY <2>3, <3>1
    <3>2. CASE m # Nil
      <4>1. m.left \in Trees[h] /\ m.right \in Trees[h]
        BY <2>2, <3>2, TreeParts
      <4>2. g[m.left] = F(g)[m.left] /\ g[m.right] = F(g)[m.right]
        BY <2>1, <4>1
      <4>. QED
        BY <2>3, <4>2
    <3>. QED
      BY <3>1, <3>2
  <2>5. Upto(F(g), h + 1)
    BY <2>4
  <2>. HIDE DEF Upto
  <2>. QED
    BY <2>2, <2>5
<1>3. H \in C
  <2>1. \A h \in 0..H : h \in C /\ h < H => h + 1 \in C
    BY <1>2
  <2>. HIDE DEF C
  <2>2. \A h \in 0..H : h \in C
    BY <1>0, <1>1, <2>1, BoundedInduction
  <2>. QED
    BY <1>0, <2>2
<1>4. PICK g : \A m \in Tree : g[m] = F(g)[m]
  BY <1>0, <1>3
<1>5. F(g) = F(F(g))
  <2>1. ASSUME NEW m \in Tree PROVE F(g)[m] = F(F(g))[m]
    <3>1. CASE m = Nil
      BY <3>1
    <3>2. CASE m # Nil
      <4>1. m.left \in Tree /\ m.right \in Tree
        BY <1>0, <3>2, SubtreeInTree
      <4>. QED
        BY <1>4, <4>1
    <3>. QED
      BY <3>1, <3>2
  <2>. QED
    BY <2>1
<1>. DEFINE insert == CHOOSE e : e = F(e)
<1>6. insert = F(insert)
  <2>. HIDE DEF F
  <2>. QED
    BY <1>5
<1>7. \A m : InsertNode(m, price, quantity, priority) = insert[m]
  BY DEF InsertNode
<1>8. \A m \in Tree : insert[m] = F(insert)[m]
  BY <1>6
<1>. HIDE DEF insert
<1>. QED
  BY <1>7, <1>8
\* MinPrice goes to the left.
LEMMA MinUnfolds ==
  ASSUME NEW n \in Tree \ {Nil}
  PROVE  MinPrice(n) =
           IF n.left = Nil THEN n.price ELSE MinPrice(n.left)
<1>. DEFINE F(g) == [m \in Tree \ {Nil} |->
              IF m.left = Nil THEN m.price ELSE g[m.left]]
            Upto(g, h) == \A m \in Trees[h] : m # Nil => g[m] = F(g)[m]
            C == {h \in 0..H : \E g : Upto(g, h)}
<1>0. H \in Nat /\ Tree = Trees[H]
  BY HNat DEF Tree, H
<1>1. 0 \in C
  <2>1. Upto([m \in Tree \ {Nil} |-> 0], 0)
    BY <1>0, TreesUnfold, NilInTrees
  <2>. HIDE DEF Upto
  <2>. QED
    BY <1>0, <2>1
<1>2. ASSUME NEW h \in 0..H, h \in C, h < H PROVE h + 1 \in C
  <2>1. PICK g : Upto(g, h)
    BY <1>2
  <2>2. h + 1 \in 0..H /\ (h + 1) - 1 = h
    BY <1>0, <1>2
  <2>3. Trees[h + 1] \subseteq Tree /\ Trees[h] \subseteq Tree
    <3>1. H \in 0..H /\ h + 1 \in 0..H /\ h \in 0..H
      BY <1>0, <2>2
    <3>. QED
      BY <1>0, <3>1, TreesGrow
  <2>4. ASSUME NEW m \in Trees[h + 1], m # Nil PROVE F(g)[m] = F(F(g))[m]
    <3>1. m.left \in Trees[h] /\ m.right \in Trees[h]
      BY <2>2, <2>4, TreeParts
    <3>2. /\ m.left # Nil => g[m.left] = F(g)[m.left]
          /\ m.right # Nil => g[m.right] = F(g)[m.right]
      BY <2>1, <3>1
    <3>. QED
      BY <2>3, <2>4, <3>1, <3>2
  <2>5. Upto(F(g), h + 1)
    BY <2>4
  <2>. HIDE DEF Upto
  <2>. QED
    BY <2>2, <2>5
<1>3. H \in C
  <2>1. \A h \in 0..H : h \in C /\ h < H => h + 1 \in C
    BY <1>2
  <2>. HIDE DEF C
  <2>2. \A h \in 0..H : h \in C
    BY <1>0, <1>1, <2>1, BoundedInduction
  <2>. QED
    BY <1>0, <2>2
<1>4. PICK g : \A m \in Tree \ {Nil} : g[m] = F(g)[m]
  BY <1>0, <1>3
<1>5. F(g) = F(F(g))
  <2>1. ASSUME NEW m \in Tree \ {Nil} PROVE F(g)[m] = F(F(g))[m]
    <3>1. m.left \in Tree /\ m.right \in Tree
      BY <1>0, SubtreeInTree
    <3>. QED
      BY <1>4, <3>1
  <2>. QED
    BY <2>1
<1>. DEFINE least == CHOOSE e : e = F(e)
<1>6. least = F(least)
  <2>. HIDE DEF F
  <2>. QED
    BY <1>5
<1>7. \A m : m # Nil => MinPrice(m) = least[m]
  BY DEF MinPrice
<1>8. \A m \in Tree \ {Nil} : least[m] = F(least)[m]
  BY <1>6
<1>. HIDE DEF least
<1>9. n.left \in Tree /\ n.right \in Tree
  BY <1>0, SubtreeInTree
<1>. QED
  BY <1>7, <1>8, <1>9
\* MaxPrice goes to the right.
LEMMA MaxUnfolds ==
  ASSUME NEW n \in Tree \ {Nil}
  PROVE  MaxPrice(n) =
           IF n.right = Nil THEN n.price ELSE MaxPrice(n.right)
<1>. DEFINE F(g) == [m \in Tree \ {Nil} |->
              IF m.right = Nil THEN m.price ELSE g[m.right]]
            Upto(g, h) == \A m \in Trees[h] : m # Nil => g[m] = F(g)[m]
            C == {h \in 0..H : \E g : Upto(g, h)}
<1>0. H \in Nat /\ Tree = Trees[H]
  BY HNat DEF Tree, H
<1>1. 0 \in C
  <2>1. Upto([m \in Tree \ {Nil} |-> 0], 0)
    BY <1>0, TreesUnfold, NilInTrees
  <2>. HIDE DEF Upto
  <2>. QED
    BY <1>0, <2>1
<1>2. ASSUME NEW h \in 0..H, h \in C, h < H PROVE h + 1 \in C
  <2>1. PICK g : Upto(g, h)
    BY <1>2
  <2>2. h + 1 \in 0..H /\ (h + 1) - 1 = h
    BY <1>0, <1>2
  <2>3. Trees[h + 1] \subseteq Tree /\ Trees[h] \subseteq Tree
    <3>1. H \in 0..H /\ h + 1 \in 0..H /\ h \in 0..H
      BY <1>0, <2>2
    <3>. QED
      BY <1>0, <3>1, TreesGrow
  <2>4. ASSUME NEW m \in Trees[h + 1], m # Nil PROVE F(g)[m] = F(F(g))[m]
    <3>1. m.left \in Trees[h] /\ m.right \in Trees[h]
      BY <2>2, <2>4, TreeParts
    <3>2. /\ m.left # Nil => g[m.left] = F(g)[m.left]
          /\ m.right # Nil => g[m.right] = F(g)[m.right]
      BY <2>1, <3>1
    <3>. QED
      BY <2>3, <2>4, <3>1, <3>2
  <2>5. Upto(F(g), h + 1)
    BY <2>4
  <2>. HIDE DEF Upto
  <2>. QED
    BY <2>2, <2>5
<1>3. H \in C
  <2>1. \A h \in 0..H : h \in C /\ h < H => h + 1 \in C
    BY <1>2
  <2>. HIDE DEF C
  <2>2. \A h \in 0..H : h \in C
    BY <1>0, <1>1, <2>1, BoundedInduction
  <2>. QED
    BY <1>0, <2>2
<1>4. PICK g : \A m \in Tree \ {Nil} : g[m] = F(g)[m]
  BY <1>0, <1>3
<1>5. F(g) = F(F(g))
  <2>1. ASSUME NEW m \in Tree \ {Nil} PROVE F(g)[m] = F(F(g))[m]
    <3>1. m.left \in Tree /\ m.right \in Tree
      BY <1>0, SubtreeInTree
    <3>. QED
      BY <1>4, <3>1
  <2>. QED
    BY <2>1
<1>. DEFINE greatest == CHOOSE e : e = F(e)
<1>6. greatest = F(greatest)
  <2>. HIDE DEF F
  <2>. QED
    BY <1>5
<1>7. \A m : m # Nil => MaxPrice(m) = greatest[m]
  BY DEF MaxPrice
<1>8. \A m \in Tree \ {Nil} : greatest[m] = F(greatest)[m]
  BY <1>6
<1>. HIDE DEF greatest
<1>9. n.left \in Tree /\ n.right \in Tree
  BY <1>0, SubtreeInTree
<1>. QED
  BY <1>7, <1>8, <1>9

\* A rotation of a node moves it below its child, and the rest stays.
LEMMA RotateRightIs ==
  ASSUME NEW n \in Tree, n # Nil, n.left # Nil
  PROVE  LET l == n.left
             sunk == Node(n.price, n.quantity, n.priority, l.right, n.right)
         IN /\ sunk = [n EXCEPT !.left = n.left.right]
            /\ RotateRight(n) = Node(l.price, l.quantity, l.priority, l.left, sunk)
            /\ RotateRight(n).right = sunk
<1>0. H \in 0..H /\ Tree = Trees[H]
  BY HNat DEF Tree, H
<1>1. n.left \in Tree
  BY SubtreeInTree
<1>2. /\ n = Node(n.price, n.quantity, n.priority, n.left, n.right)
      /\ n.left = Node(n.left.price, n.left.quantity, n.left.priority, n.left.left, n.left.right)
  BY <1>0, <1>1, TreeParts
<1>. QED
  BY <1>2 DEF RotateRight, Node

LEMMA RotateLeftIs ==
  ASSUME NEW n \in Tree, n # Nil, n.right # Nil
  PROVE  LET r == n.right
             sunk == Node(n.price, n.quantity, n.priority, n.left, r.left)
         IN /\ sunk = [n EXCEPT !.right = n.right.left]
            /\ RotateLeft(n) = Node(r.price, r.quantity, r.priority, sunk, r.right)
            /\ RotateLeft(n).left = sunk
<1>0. H \in 0..H /\ Tree = Trees[H]
  BY HNat DEF Tree, H
<1>1. n.right \in Tree
  BY SubtreeInTree
<1>2. /\ n = Node(n.price, n.quantity, n.priority, n.left, n.right)
      /\ n.right = Node(n.right.price, n.right.quantity, n.right.priority, n.right.left, n.right.right)
  BY <1>0, <1>1, TreeParts
<1>. QED
  BY <1>2 DEF RotateLeft, Node

\* remove goes down to the price, and there on with a node that sank.  Its
\* children have fewer nodes on their paths together each time.
LEMMA RemoveUnfolds ==
  ASSUME NEW price, NEW n \in Tree
  PROVE  RemoveNode(n, price) =
           IF n = Nil THEN Nil
           ELSE IF price < n.price THEN [n EXCEPT !.left = RemoveNode(n.left, price)]
           ELSE IF price > n.price THEN [n EXCEPT !.right = RemoveNode(n.right, price)]
           ELSE IF n.left = Nil THEN n.right
           ELSE IF n.right = Nil THEN n.left
           ELSE IF n.left.priority > n.right.priority
           THEN [n.left EXCEPT !.right = RemoveNode(RotateRight(n).right, price)]
           ELSE [n.right EXCEPT !.left = RemoveNode(RotateLeft(n).left, price)]
<1>. DEFINE F(g) == [m \in Tree |->
              IF m = Nil THEN Nil
              ELSE IF price < m.price THEN [m EXCEPT !.left = g[m.left]]
              ELSE IF price > m.price THEN [m EXCEPT !.right = g[m.right]]
              ELSE IF m.left = Nil THEN m.right
              ELSE IF m.right = Nil THEN m.left
              ELSE IF m.left.priority > m.right.priority
              THEN [m.left EXCEPT !.right = g[RotateRight(m).right]]
              ELSE [m.right EXCEPT !.left = g[RotateLeft(m).left]]]
            Good(g, T) == \A m \in T : g[m] = F(g)[m]
            C == {h \in 0..H : \E g : Good(g, Trees[h])}
<1>0. H \in Nat /\ Tree = Trees[H] /\ H \in 0..H
  BY HNat DEF Tree, H
<1>1. 0 \in C
  <2>1. Good([m \in Tree |-> Nil], Trees[0])
    BY <1>0, TreesUnfold, NilInTrees
  <2>. HIDE DEF Good
  <2>. QED
    BY <1>0, <2>1
\* where F looks
<1>2. ASSUME NEW g, NEW f, NEW m \in Tree, m # Nil,
             g[m.left] = f[m.left], g[m.right] = f[m.right],
             m.left # Nil => g[RotateRight(m).right] = f[RotateRight(m).right],
             m.right # Nil => g[RotateLeft(m).left] = f[RotateLeft(m).left]
      PROVE  F(g)[m] = F(f)[m]
  BY <1>2
<1>3. ASSUME NEW h \in 0..H, h \in C, h < H PROVE h + 1 \in C
  <2>. DEFINE X(c) == Trees[h] \cup {m \in Trees[h + 1] :
                        /\ m # Nil
                        /\ \E i, j \in 0..h : i + j < c /\ m.left \in Trees[i] /\ m.right \in Trees[j]}
              D == {c \in 0..(2 * h + 1) : \E g : Good(g, X(c))}
  <2>1. /\ h + 1 \in 0..H /\ (h + 1) - 1 = h /\ h \in Nat /\ h \in 0..h /\ h \in 0..(h + 1) /\ h + 1 \in 0..H
        /\ Trees[h] \subseteq Trees[h + 1] /\ Trees[h + 1] \subseteq Tree
    <3>1. h + 1 \in 0..H /\ (h + 1) - 1 = h /\ h \in Nat /\ h \in 0..h /\ h \in 0..(h + 1)
      BY <1>0, <1>3
    <3>2. Trees[h] \subseteq Trees[h + 1] /\ Trees[h + 1] \subseteq Trees[H]
      BY <1>0, <3>1, TreesGrow
    <3>. QED
      BY <1>0, <3>1, <3>2
  <2>2. 0 \in D
    <3>1. X(0) = Trees[h]
      BY <2>1
    <3>2. PICK g : Good(g, Trees[h])
      BY <1>3
    <3>3. 0 \in 0..(2 * h + 1)
      BY <2>1
    <3>. HIDE DEF X, Good
    <3>. QED
      BY <3>1, <3>2, <3>3
  <2>3. ASSUME NEW c \in 0..(2 * h + 1), c \in D, c < 2 * h + 1 PROVE c + 1 \in D
    <3>1. PICK g : Good(g, X(c))
      BY <2>3
    <3>2. ASSUME NEW m \in X(c + 1) PROVE F(g)[m] = F(F(g))[m]
      <4>1. CASE m = Nil
        <5>1. m \in Tree
          BY <1>0, <4>1, NilInTrees
        <5>. QED
          BY <4>1, <5>1
      <4>2. CASE m # Nil
        <5>1. m \in Trees[h + 1] /\ m \in Tree
          BY <2>1, <3>2
        <5>2. m.left \in Trees[h] /\ m.right \in Trees[h]
          BY <2>1, <4>2, <5>1, TreeParts
        <5>3. Trees[h] \subseteq X(c)
          OBVIOUS
        <5>4. ASSUME m.left # Nil PROVE RotateRight(m).right \in X(c)
          <6>. DEFINE l == m.left
                      sunk == Node(m.price, m.quantity, m.priority, l.right, m.right)
          <6>1. RotateRight(m).right = sunk
            BY <4>2, <5>1, <5>4, RotateRightIs
          <6>2. CASE m \in Trees[h]
            <7>1. h > 0 /\ h - 1 \in 0..H /\ m.left \in Trees[h - 1] /\ m.right \in Trees[h - 1]
                  /\ m.price \in Price /\ m.quantity \in Qty /\ m.priority \in Priority
              BY <4>2, <6>2, TreeParts
            <7>2. h - 1 - 1 \in 0..H /\ l.right \in Trees[h - 1 - 1] /\ h - 1 > 0
              BY <5>4, <7>1, TreeParts
            <7>3. l.right \in Trees[h - 1]
              <8>1. h - 1 - 1 \in 0..(h - 1)
                BY <1>0, <7>1, <7>2
              <8>. QED
                BY <7>1, <7>2, <8>1, TreesGrow
            <7>4. h - 1 < H /\ (h - 1) + 1 = h
              BY <1>0, <7>1
            <7>5. sunk \in Trees[(h - 1) + 1]
              BY <7>1, <7>3, <7>4, NodeInTrees
            <7>. QED
              BY <5>3, <6>1, <7>4, <7>5
          <6>3. CASE m \notin Trees[h]
            <7>1. PICK i \in 0..h, j \in 0..h : i + j < c + 1 /\ l \in Trees[i] /\ m.right \in Trees[j]
              BY <3>2, <6>3
            <7>2. i \in 0..H /\ j \in 0..H
              BY <1>0, <1>3, <7>1
            <7>3. i > 0 /\ i - 1 \in 0..H /\ l.right \in Trees[i - 1]
              BY <5>4, <7>1, <7>2, TreeParts
            <7>4. i - 1 \in 0..h /\ (i - 1) + j < c
              BY <7>1, <7>3, <2>3
            <7>5. l.right \in Trees[h]
              BY <7>3, <7>4, TreesGrow
            <7>6. m.price \in Price /\ m.quantity \in Qty /\ m.priority \in Priority
              BY <2>1, <4>2, <5>1, TreeParts
            <7>7. sunk \in Trees[h + 1]
              BY <1>3, <5>2, <7>5, <7>6, NodeInTrees
            <7>8. sunk # Nil /\ sunk.left = l.right /\ sunk.right = m.right
              BY NodeParts, NodeNotNil
            <7>. HIDE DEF sunk, l
            <7>. QED
              BY <6>1, <7>1, <7>3, <7>4, <7>7, <7>8
          <6>. QED
            BY <6>2, <6>3
        <5>5. ASSUME m.right # Nil PROVE RotateLeft(m).left \in X(c)
          <6>. DEFINE r == m.right
                      sunk == Node(m.price, m.quantity, m.priority, m.left, r.left)
          <6>1. RotateLeft(m).left = sunk
            BY <4>2, <5>1, <5>5, RotateLeftIs
          <6>2. CASE m \in Trees[h]
            <7>1. h > 0 /\ h - 1 \in 0..H /\ m.left \in Trees[h - 1] /\ m.right \in Trees[h - 1]
                  /\ m.price \in Price /\ m.quantity \in Qty /\ m.priority \in Priority
              BY <4>2, <6>2, TreeParts
            <7>2. h - 1 - 1 \in 0..H /\ r.left \in Trees[h - 1 - 1] /\ h - 1 > 0
              BY <5>5, <7>1, TreeParts
            <7>3. r.left \in Trees[h - 1]
              <8>1. h - 1 - 1 \in 0..(h - 1)
                BY <1>0, <7>1, <7>2
              <8>. QED
                BY <7>1, <7>2, <8>1, TreesGrow
            <7>4. h - 1 < H /\ (h - 1) + 1 = h
              BY <1>0, <7>1
            <7>5. sunk \in Trees[(h - 1) + 1]
              BY <7>1, <7>3, <7>4, NodeInTrees
            <7>. QED
              BY <5>3, <6>1, <7>4, <7>5
          <6>3. CASE m \notin Trees[h]
            <7>1. PICK i \in 0..h, j \in 0..h : i + j < c + 1 /\ m.left \in Trees[i] /\ r \in Trees[j]
              BY <3>2, <6>3
            <7>2. i \in 0..H /\ j \in 0..H
              BY <1>0, <1>3, <7>1
            <7>3. j > 0 /\ j - 1 \in 0..H /\ r.left \in Trees[j - 1]
              BY <5>5, <7>1, <7>2, TreeParts
            <7>4. j - 1 \in 0..h /\ i + (j - 1) < c
              BY <7>1, <7>3, <2>3
            <7>5. r.left \in Trees[h]
              BY <7>3, <7>4, TreesGrow
            <7>6. m.price \in Price /\ m.quantity \in Qty /\ m.priority \in Priority
              BY <2>1, <4>2, <5>1, TreeParts
            <7>7. sunk \in Trees[h + 1]
              BY <1>3, <5>2, <7>5, <7>6, NodeInTrees
            <7>8. sunk # Nil /\ sunk.left = m.left /\ sunk.right = r.left
              BY NodeParts, NodeNotNil
            <7>. HIDE DEF sunk, r
            <7>. QED
              BY <6>1, <7>1, <7>3, <7>4, <7>7, <7>8
          <6>. QED
            BY <6>2, <6>3
        <5>6. /\ g[m.left] = F(g)[m.left] /\ g[m.right] = F(g)[m.right]
              /\ m.left # Nil => g[RotateRight(m).right] = F(g)[RotateRight(m).right]
              /\ m.right # Nil => g[RotateLeft(m).left] = F(g)[RotateLeft(m).left]
          <6>. HIDE DEF X, F
          <6>. QED
            BY <3>1, <5>2, <5>3, <5>4, <5>5
        <5>. HIDE DEF F
        <5>. QED
          BY <1>2, <4>2, <5>1, <5>6
      <4>. QED
        BY <4>1, <4>2
    <3>3. Good(F(g), X(c + 1))
      <4>. HIDE DEF X, F
      <4>. QED
        BY <3>2
    <3>4. c + 1 \in 0..(2 * h + 1)
      BY <2>1, <2>3
    <3>. HIDE DEF X, Good
    <3>. QED
      BY <3>3, <3>4
  <2>4. 2 * h + 1 \in D
    <3>1. 2 * h + 1 \in Nat
      BY <2>1
    <3>2. \A c \in 0..(2 * h + 1) : c \in D /\ c < 2 * h + 1 => c + 1 \in D
      BY <2>3
    <3>. HIDE DEF D
    <3>. QED
      BY <2>2, <3>1, <3>2, BoundedInduction
  <2>5. PICK g : Good(g, X(2 * h + 1))
    BY <2>4
  <2>6. Trees[h + 1] \subseteq X(2 * h + 1)
    <3>1. h + h < 2 * h + 1 /\ h \in 0..h
      BY <2>1
    <3>2. \A m \in Trees[h + 1] : m # Nil => m.left \in Trees[h] /\ m.right \in Trees[h]
      BY <2>1, TreeParts
    <3>. QED
      BY <1>3, <3>1, <3>2, NilInTrees
  <2>7. Good(g, Trees[h + 1])
    BY <2>5, <2>6
  <2>. HIDE DEF Good
  <2>. QED
    BY <2>1, <2>7
<1>4. H \in C
  <2>1. \A h \in 0..H : h \in C /\ h < H => h + 1 \in C
    BY <1>3
  <2>. HIDE DEF C
  <2>. QED
    BY <1>0, <1>1, <2>1, BoundedInduction
<1>5. PICK g : \A m \in Tree : g[m] = F(g)[m]
  BY <1>0, <1>4
<1>6. \A m \in Tree : /\ m # Nil /\ m.left # Nil => RotateRight(m).right \in Tree
                      /\ m # Nil /\ m.right # Nil => RotateLeft(m).left \in Tree
  <2>1. ASSUME NEW m \in Tree, m # Nil, m.left # Nil PROVE RotateRight(m).right \in Tree
    <3>1. H - 1 \in 0..H /\ m.left \in Trees[H - 1] /\ m.right \in Trees[H - 1]
          /\ m.price \in Price /\ m.quantity \in Qty /\ m.priority \in Priority
      BY <1>0, <2>1, TreeParts
    <3>2. H - 1 - 1 \in 0..H /\ H - 1 > 0 /\ m.left.right \in Trees[H - 1 - 1]
      BY <2>1, <3>1, TreeParts
    <3>3. m.left.right \in Trees[H - 1]
      <4>1. H - 1 - 1 \in 0..(H - 1)
        BY <1>0, <3>2
      <4>. QED
        BY <3>1, <3>2, <4>1, TreesGrow
    <3>4. H - 1 < H /\ (H - 1) + 1 = H
      BY <1>0
    <3>5. Node(m.price, m.quantity, m.priority, m.left.right, m.right) \in Trees[(H - 1) + 1]
      BY <3>1, <3>3, <3>4, NodeInTrees
    <3>. QED
      BY <1>0, <2>1, <3>4, <3>5, RotateRightIs
  <2>2. ASSUME NEW m \in Tree, m # Nil, m.right # Nil PROVE RotateLeft(m).left \in Tree
    <3>1. H - 1 \in 0..H /\ m.left \in Trees[H - 1] /\ m.right \in Trees[H - 1]
          /\ m.price \in Price /\ m.quantity \in Qty /\ m.priority \in Priority
      BY <1>0, <2>2, TreeParts
    <3>2. H - 1 - 1 \in 0..H /\ H - 1 > 0 /\ m.right.left \in Trees[H - 1 - 1]
      BY <2>2, <3>1, TreeParts
    <3>3. m.right.left \in Trees[H - 1]
      <4>1. H - 1 - 1 \in 0..(H - 1)
        BY <1>0, <3>2
      <4>. QED
        BY <3>1, <3>2, <4>1, TreesGrow
    <3>4. H - 1 < H /\ (H - 1) + 1 = H
      BY <1>0
    <3>5. Node(m.price, m.quantity, m.priority, m.left, m.right.left) \in Trees[(H - 1) + 1]
      BY <3>1, <3>3, <3>4, NodeInTrees
    <3>. QED
      BY <1>0, <2>2, <3>4, <3>5, RotateLeftIs
  <2>. QED
    BY <2>1, <2>2
<1>7. F(g) = F(F(g))
  <2>1. ASSUME NEW m \in Tree PROVE F(g)[m] = F(F(g))[m]
    <3>1. CASE m = Nil
      BY <3>1
    <3>2. CASE m # Nil
      <4>1. m.left \in Tree /\ m.right \in Tree
        BY <3>2, SubtreeInTree
      <4>2. /\ g[m.left] = F(g)[m.left] /\ g[m.right] = F(g)[m.right]
            /\ m.left # Nil => g[RotateRight(m).right] = F(g)[RotateRight(m).right]
            /\ m.right # Nil => g[RotateLeft(m).left] = F(g)[RotateLeft(m).left]
        <5>. HIDE DEF F
        <5>. QED
          BY <1>5, <1>6, <3>2, <4>1
      <4>. HIDE DEF F
      <4>. QED
        BY <1>2, <3>2, <4>2
    <3>. QED
      BY <3>1, <3>2
  <2>. QED
    BY <2>1
<1>. DEFINE remove == CHOOSE e : e = F(e)
<1>8. remove = F(remove)
  <2>. HIDE DEF F
  <2>. QED
    BY <1>7
<1>9. \A m : RemoveNode(m, price) = remove[m]
  BY DEF RemoveNode
<1>. HIDE DEF remove
<1>10. remove[n] = F(remove)[n]
  <2>. HIDE DEF F
  <2>. QED
    BY <1>8
<1>11. remove[n] =
         IF n = Nil THEN Nil
         ELSE IF price < n.price THEN [n EXCEPT !.left = remove[n.left]]
         ELSE IF price > n.price THEN [n EXCEPT !.right = remove[n.right]]
         ELSE IF n.left = Nil THEN n.right
         ELSE IF n.right = Nil THEN n.left
         ELSE IF n.left.priority > n.right.priority
         THEN [n.left EXCEPT !.right = remove[RotateRight(n).right]]
         ELSE [n.right EXCEPT !.left = remove[RotateLeft(n).left]]
  BY <1>10, Zenon
<1>12. /\ remove[n] = RemoveNode(n, price)
       /\ remove[n.left] = RemoveNode(n.left, price)
       /\ remove[n.right] = RemoveNode(n.right, price)
       /\ remove[RotateRight(n).right] = RemoveNode(RotateRight(n).right, price)
       /\ remove[RotateLeft(n).left] = RemoveNode(RotateLeft(n).left, price)
  <2>. HIDE DEF F
  <2>. QED
    BY <1>9
<1>. HIDE DEF F
<1>. QED
  BY <1>11, <1>12, Zenon

-----------------------------------------------------------------------------
(* Search trees and the depths they stand for *)

\* What a tree can stand for: a quantity for every price, 0 where there is none.
Depths == [Price -> Qty \cup {0}]
NoDepth == [p \in Price |-> 0]
Dom(f) == {p \in Price : f[p] # 0}
Between(fl, p, fr) == \A x \in Price : (x >= p => fl[x] = 0) /\ (x <= p => fr[x] = 0)
Join(fl, p, q, fr) == [x \in Price |-> IF x < p THEN fl[x] ELSE IF x = p THEN q ELSE fr[x]]

Universe == {x \in Tree \X Depths : x[1] \in Trees[Cardinality(Dom(x[2]))]}

Closed(R) ==
  /\ <<Nil, NoDepth>> \in R
  /\ \A left \in Tree, right \in Tree, fl \in Depths, fr \in Depths,
        p \in Price, q \in Qty, y \in Priority :
       <<left, fl>> \in R /\ <<right, fr>> \in R /\ Between(fl, p, fr)
         => <<Node(p, q, y, left, right), Join(fl, p, q, fr)>> \in R

\* The search trees, each with the depths it stands for: no more pairs than
\* those that are built from the empty tree up.
Stands == {x \in Universe : \A R \in SUBSET Universe : Closed(R) => x \in R}

\* The depths of a node.
LEMMA JoinDepths ==
  ASSUME NEW fl \in Depths, NEW fr \in Depths, NEW p \in Price, NEW q \in Qty
  PROVE  /\ Join(fl, p, q, fr) \in Depths
         /\ Join(fl, p, q, fr)[p] = q
         /\ \A x \in Price : x < p => Join(fl, p, q, fr)[x] = fl[x]
         /\ \A x \in Price : x > p => Join(fl, p, q, fr)[x] = fr[x]
BY PriceAssumption DEF Depths, Join

\* The prices of a node are those of its children and its own, no two the same:
\* that bounds its height by their number.
LEMMA DomJoin ==
  ASSUME NEW fl \in Depths, NEW fr \in Depths, NEW p \in Price, NEW q \in Qty, Between(fl, p, fr)
  PROVE  /\ Cardinality(Dom(fl)) \in Nat /\ Cardinality(Dom(fr)) \in Nat
         /\ Cardinality(Dom(Join(fl, p, q, fr))) = Cardinality(Dom(fl)) + Cardinality(Dom(fr)) + 1
         /\ Cardinality(Dom(Join(fl, p, q, fr))) \in 1..H
<1>. DEFINE J == Join(fl, p, q, fr)
<1>1. Dom(J) = (Dom(fl) \cup Dom(fr)) \cup {p}
  <2>1. q # 0
    BY QtyAssumption
  <2>2. ASSUME NEW x \in Price PROVE J[x] # 0 <=> fl[x] # 0 \/ fr[x] # 0 \/ x = p
    <3>0. x \in Nat /\ p \in Nat
      BY PriceAssumption
    <3>1. J[p] = q /\ (x < p => J[x] = fl[x]) /\ (x > p => J[x] = fr[x])
      BY <3>0 DEF Join
    <3>2. (x >= p => fl[x] = 0) /\ (x <= p => fr[x] = 0)
      BY DEF Between
    <3>. HIDE DEF J
    <3>. QED
      BY <2>1, <3>0, <3>1, <3>2
  <2>. HIDE DEF J
  <2>. QED
    BY <2>2 DEF Dom
<1>2. p \notin Dom(fl) \cup Dom(fr) /\ Dom(fl) \cap Dom(fr) = {}
  <2>1. p \in Nat
    BY PriceAssumption
  <2>2. ASSUME NEW x \in Price PROVE (x >= p => fl[x] = 0) /\ (x <= p => fr[x] = 0) /\ x \in Nat
    BY PriceAssumption DEF Between
  <2>3. fl[p] = 0 /\ fr[p] = 0
    BY <2>1, <2>2
  <2>4. ASSUME NEW x \in Price PROVE fl[x] = 0 \/ fr[x] = 0
    BY <2>1, <2>2
  <2>. QED
    BY <2>3, <2>4 DEF Dom
<1>3. IsFiniteSet(Dom(fl)) /\ IsFiniteSet(Dom(fr)) /\ IsFiniteSet(Price)
  <2>1. Dom(fl) \subseteq Price /\ Dom(fr) \subseteq Price
    BY DEF Dom
  <2>. QED
    BY <2>1, TreapAssumption, FS_Subset
<1>4. Cardinality(Dom(fl)) \in Nat /\ Cardinality(Dom(fr)) \in Nat
  BY <1>3, FS_CardinalityType
<1>5. Cardinality(Dom(fl) \cup Dom(fr)) = Cardinality(Dom(fl)) + Cardinality(Dom(fr))
      /\ IsFiniteSet(Dom(fl) \cup Dom(fr))
  <2>1. Cardinality(Dom(fl) \cap Dom(fr)) = 0
    BY <1>2, FS_EmptySet
  <2>2. IsFiniteSet(Dom(fl) \cup Dom(fr))
    BY <1>3, FS_Union
  <2>3. Cardinality(Dom(fl) \cup Dom(fr))
        = Cardinality(Dom(fl)) + Cardinality(Dom(fr)) - Cardinality(Dom(fl) \cap Dom(fr))
    BY <1>3, FS_Union
  <2>. QED
    BY <1>4, <2>1, <2>2, <2>3
<1>6. Cardinality(Dom(J)) = Cardinality(Dom(fl) \cup Dom(fr)) + 1
  BY <1>1, <1>2, <1>5, FS_AddElement
<1>7. Cardinality(Dom(J)) <= H
  <2>1. Dom(J) \subseteq Price
    BY DEF Dom
  <2>. QED
    BY <1>3, <2>1, FS_Subset DEF H
<1>. HIDE DEF J
<1>8. Cardinality(Dom(J)) = Cardinality(Dom(fl)) + Cardinality(Dom(fr)) + 1
  BY <1>5, <1>6
<1>. QED
  BY <1>4, <1>7, <1>8, HNat DEF J

\* The trees that are no higher than they have prices are closed, and so is the
\* least closed set.
LEMMA UniverseClosed == Closed(Universe)
<1>0. H \in Nat /\ Tree = Trees[H] /\ H \in 0..H
  BY HNat DEF Tree, H
<1>1. <<Nil, NoDepth>> \in Universe
  <2>1. NoDepth \in Depths /\ Dom(NoDepth) = {}
    BY DEF NoDepth, Depths, Dom
  <2>2. Cardinality(Dom(NoDepth)) = 0
    BY <2>1, FS_EmptySet
  <2>3. Nil \in Tree /\ Nil \in Trees[0]
    BY <1>0, NilInTrees
  <2>. QED
    BY <2>1, <2>2, <2>3 DEF Universe
<1>2. ASSUME NEW left \in Tree, NEW right \in Tree, NEW fl \in Depths, NEW fr \in Depths,
             NEW p \in Price, NEW q \in Qty, NEW y \in Priority,
             <<left, fl>> \in Universe, <<right, fr>> \in Universe, Between(fl, p, fr)
      PROVE  <<Node(p, q, y, left, right), Join(fl, p, q, fr)>> \in Universe
  <2>. DEFINE a == Cardinality(Dom(fl))
              b == Cardinality(Dom(fr))
              J == Join(fl, p, q, fr)
              c == Cardinality(Dom(J))
  <2>1. a \in Nat /\ b \in Nat /\ c = a + b + 1 /\ c \in 1..H /\ J \in Depths
    BY <1>2, DomJoin, JoinDepths
  <2>2. left \in Trees[a] /\ right \in Trees[b]
    BY <1>2 DEF Universe
  <2>. HIDE DEF a, b, c, J
  <2>3. a + b \in 0..H /\ a + b < H /\ a \in 0..(a + b) /\ b \in 0..(a + b) /\ (a + b) + 1 = c /\ c \in 0..H
    BY <1>0, <2>1
  <2>4. left \in Trees[a + b] /\ right \in Trees[a + b]
    <3>1. Trees[a] \subseteq Trees[a + b] /\ Trees[b] \subseteq Trees[a + b]
      BY <2>3, TreesGrow
    <3>. QED
      BY <2>2, <3>1
  <2>5. Node(p, q, y, left, right) \in Trees[(a + b) + 1]
    BY <2>3, <2>4, NodeInTrees
  <2>6. Node(p, q, y, left, right) \in Trees[c]
    BY <2>3, <2>5
  <2>7. Node(p, q, y, left, right) \in Tree
    <3>1. Trees[c] \subseteq Trees[H]
      BY <1>0, <2>3, TreesGrow
    <3>. QED
      BY <1>0, <2>6, <3>1
  <2>. QED
    BY <2>1, <2>6, <2>7 DEF Universe, c, J
<1>. QED
  BY <1>1, <1>2 DEF Closed

LEMMA StandsClosed == Closed(Stands)
<1>1. <<Nil, NoDepth>> \in Stands
  BY UniverseClosed DEF Closed, Stands
<1>2. ASSUME NEW left \in Tree, NEW right \in Tree, NEW fl \in Depths, NEW fr \in Depths,
             NEW p \in Price, NEW q \in Qty, NEW y \in Priority,
             <<left, fl>> \in Stands, <<right, fr>> \in Stands, Between(fl, p, fr)
      PROVE  <<Node(p, q, y, left, right), Join(fl, p, q, fr)>> \in Stands
  <2>1. <<left, fl>> \in Universe /\ <<right, fr>> \in Universe
    BY <1>2 DEF Stands
  <2>2. <<Node(p, q, y, left, right), Join(fl, p, q, fr)>> \in Universe
    BY <1>2, <2>1, UniverseClosed DEF Closed
  <2>3. ASSUME NEW R \in SUBSET Universe, Closed(R)
        PROVE  <<Node(p, q, y, left, right), Join(fl, p, q, fr)>> \in R
    <3>1. <<left, fl>> \in R /\ <<right, fr>> \in R
      BY <1>2, <2>3 DEF Stands
    <3>. QED
      BY <1>2, <2>3, <3>1 DEF Closed
  <2>. QED
    BY <2>2, <2>3 DEF Stands
<1>. QED
  BY <1>1, <1>2 DEF Closed

\* Its members are pairs of a tree and depths.
LEMMA StandsParts ==
  ASSUME NEW x \in Stands
  PROVE  x = <<x[1], x[2]>> /\ x[1] \in Tree /\ x[2] \in Depths
<1>1. x \in Tree \X Depths
  BY DEF Stands, Universe
<1>. QED
  BY <1>1

\* What holds of the empty tree, and of a tree when it holds of its children,
\* holds of all.
LEMMA StandsInduction ==
  ASSUME NEW R, <<Nil, NoDepth>> \in R,
         \A left \in Tree, right \in Tree, fl \in Depths, fr \in Depths,
            p \in Price, q \in Qty, y \in Priority :
           /\ <<left, fl>> \in Stands /\ <<left, fl>> \in R
           /\ <<right, fr>> \in Stands /\ <<right, fr>> \in R
           /\ Between(fl, p, fr)
           => <<Node(p, q, y, left, right), Join(fl, p, q, fr)>> \in R
  PROVE  Stands \subseteq R
<1>. DEFINE Q == Stands \cap R
<1>1. Closed(Q)
  BY StandsClosed DEF Closed
<1>2. Q \in SUBSET Universe
  BY DEF Stands
<1>3. ASSUME NEW x \in Stands PROVE x \in Q
  <2>. HIDE DEF Q
  <2>. QED
    BY <1>1, <1>2, <1>3 DEF Stands
<1>. QED
  BY <1>3

\* The parts of a search tree.
LEMMA StandsCases ==
  ASSUME NEW n, NEW f, <<n, f>> \in Stands
  PROVE  \/ n = Nil /\ f = NoDepth
         \/ /\ n # Nil
            /\ n.price \in Price /\ n.quantity \in Qty /\ n.priority \in Priority
            /\ n.left \in Tree /\ n.right \in Tree
            /\ n = Node(n.price, n.quantity, n.priority, n.left, n.right)
            /\ \E fl \in Depths, fr \in Depths :
                 /\ <<n.left, fl>> \in Stands /\ <<n.right, fr>> \in Stands
                 /\ Between(fl, n.price, fr)
                 /\ f = Join(fl, n.price, n.quantity, fr)
<1>. DEFINE P(m, g) ==
         \/ m = Nil /\ g = NoDepth
         \/ /\ m # Nil
            /\ m.price \in Price /\ m.quantity \in Qty /\ m.priority \in Priority
            /\ m.left \in Tree /\ m.right \in Tree
            /\ m = Node(m.price, m.quantity, m.priority, m.left, m.right)
            /\ \E fl \in Depths, fr \in Depths :
                 /\ <<m.left, fl>> \in Stands /\ <<m.right, fr>> \in Stands
                 /\ Between(fl, m.price, fr)
                 /\ g = Join(fl, m.price, m.quantity, fr)
            R == {x \in Stands : P(x[1], x[2])}
<1>1. <<Nil, NoDepth>> \in R
  BY StandsClosed DEF Closed
<1>2. ASSUME NEW left \in Tree, NEW right \in Tree, NEW fl \in Depths, NEW fr \in Depths,
             NEW p \in Price, NEW q \in Qty, NEW y \in Priority,
             <<left, fl>> \in Stands, <<right, fr>> \in Stands, Between(fl, p, fr)
      PROVE  <<Node(p, q, y, left, right), Join(fl, p, q, fr)>> \in R
  <2>. DEFINE m == Node(p, q, y, left, right)
              J == Join(fl, p, q, fr)
  <2>1. <<m, J>> \in Stands
    BY <1>2, StandsClosed DEF Closed
  <2>2. m # Nil /\ m.price = p /\ m.quantity = q /\ m.priority = y /\ m.left = left /\ m.right = right
    BY NodeParts, NodeNotNil
  <2>3. m = Node(m.price, m.quantity, m.priority, m.left, m.right)
    BY <2>2
  <2>4. J = Join(fl, m.price, m.quantity, fr)
    BY <2>2
  <2>5. P(m, J)
    <3>. HIDE DEF m, J
    <3>. QED
      BY <1>2, <2>2, <2>3, <2>4
  <2>. HIDE DEF m, J, P
  <2>. QED
    BY <2>1, <2>5 DEF m, J
<1>3. Stands \subseteq R
  <2>. HIDE DEF R
  <2>. QED
    BY <1>1, <1>2, StandsInduction
<1>4. P(n, f)
  <2>. HIDE DEF P
  <2>. QED
    BY <1>3
<1>. QED
  BY <1>4

\* A quantity set below, above or at the price of the root.
LEMMA JoinSet ==
  ASSUME NEW fl \in Depths, NEW fr \in Depths, NEW p \in Price, NEW q \in Qty, Between(fl, p, fr),
         NEW x \in Price, NEW v \in Qty \cup {0}
  PROVE  /\ x < p => /\ [fl EXCEPT ![x] = v] \in Depths
                     /\ Between([fl EXCEPT ![x] = v], p, fr)
                     /\ [Join(fl, p, q, fr) EXCEPT ![x] = v] = Join([fl EXCEPT ![x] = v], p, q, fr)
         /\ x > p => /\ [fr EXCEPT ![x] = v] \in Depths
                     /\ Between(fl, p, [fr EXCEPT ![x] = v])
                     /\ [Join(fl, p, q, fr) EXCEPT ![x] = v] = Join(fl, p, q, [fr EXCEPT ![x] = v])
         /\ x = p => [Join(fl, p, q, fr) EXCEPT ![x] = v] = Join(fl, p, v, fr)
<1>0. p \in Nat /\ x \in Nat /\ Price \subseteq Nat
  BY PriceAssumption
<1>. DEFINE gl == [fl EXCEPT ![x] = v]
            gr == [fr EXCEPT ![x] = v]
<1>1. /\ gl \in Depths /\ gr \in Depths
      /\ \A z \in Price : gl[z] = IF z = x THEN v ELSE fl[z]
      /\ \A z \in Price : gr[z] = IF z = x THEN v ELSE fr[z]
  BY DEF Depths
<1>2. ASSUME x < p
      PROVE  Between(gl, p, fr) /\ [Join(fl, p, q, fr) EXCEPT ![x] = v] = Join(gl, p, q, fr)
  <2>1. Between(gl, p, fr)
    <3>. HIDE DEF gl
    <3>. QED
      BY <1>0, <1>1, <1>2 DEF Between
  <2>2. [Join(fl, p, q, fr) EXCEPT ![x] = v] = Join(gl, p, q, fr)
    <3>. HIDE DEF gl
    <3>. QED
      BY <1>0, <1>1, <1>2 DEF Join
  <2>. QED
    BY <2>1, <2>2
<1>3. ASSUME x > p
      PROVE  Between(fl, p, gr) /\ [Join(fl, p, q, fr) EXCEPT ![x] = v] = Join(fl, p, q, gr)
  <2>1. Between(fl, p, gr)
    <3>. HIDE DEF gr
    <3>. QED
      BY <1>0, <1>1, <1>3 DEF Between
  <2>2. [Join(fl, p, q, fr) EXCEPT ![x] = v] = Join(fl, p, q, gr)
    <3>1. ASSUME NEW z \in Price
          PROVE  [Join(fl, p, q, fr) EXCEPT ![x] = v][z] = Join(fl, p, q, gr)[z]
      <4>. HIDE DEF gr
      <4>1. CASE z = x
        BY <1>0, <1>1, <1>3, <4>1 DEF Join
      <4>2. CASE z # x
        BY <1>0, <1>1, <1>3, <4>2 DEF Join
      <4>. QED
        BY <4>1, <4>2
    <3>. HIDE DEF gr
    <3>. QED
      BY <3>1 DEF Join
  <2>. QED
    BY <2>1, <2>2
<1>4. ASSUME x = p PROVE [Join(fl, p, q, fr) EXCEPT ![x] = v] = Join(fl, p, v, fr)
  <2>1. ASSUME NEW z \in Price
        PROVE  [Join(fl, p, q, fr) EXCEPT ![x] = v][z] = Join(fl, p, v, fr)[z]
    <3>1. CASE z = x
      BY <1>0, <1>4, <3>1 DEF Join
    <3>2. CASE z # x
      BY <1>0, <1>4, <3>2 DEF Join
    <3>. QED
      BY <3>1, <3>2
  <2>. QED
    BY <2>1 DEF Join
<1>. QED
  BY <1>1, <1>2, <1>3, <1>4

\* A node of two trees that stand for the depths on its two sides.
LEMMA StandsNode ==
  ASSUME NEW left \in Tree, NEW right \in Tree, NEW fl \in Depths, NEW fr \in Depths,
         NEW p \in Price, NEW q \in Qty, NEW y \in Priority,
         <<left, fl>> \in Stands, <<right, fr>> \in Stands, Between(fl, p, fr)
  PROVE  <<Node(p, q, y, left, right), Join(fl, p, q, fr)>> \in Stands
BY StandsClosed DEF Closed

LEMMA StandsNil == <<Nil, NoDepth>> \in Stands
BY StandsClosed DEF Closed

LEMMA StandsTree ==
  ASSUME NEW n, NEW f, <<n, f>> \in Stands
  PROVE  n \in Tree /\ f \in Depths
BY StandsParts

\* The empty tree stands for nothing else.
LEMMA StandsEmpty ==
  ASSUME NEW n, NEW f, <<n, f>> \in Stands
  PROVE  n = Nil <=> \A x \in Price : f[x] = 0
<1>1. CASE n = Nil
  BY <1>1, StandsCases DEF NoDepth
<1>2. CASE n # Nil
  <2>. DEFINE p == n.price
              q == n.quantity
  <2>1. PICK fl \in Depths, fr \in Depths : f = Join(fl, p, q, fr)
    BY <1>2, StandsCases
  <2>2. p \in Price /\ q \in Qty
    BY <1>2, StandsCases
  <2>. HIDE DEF p, q
  <2>3. p \in Nat /\ q # 0
    BY <2>2, PriceAssumption, QtyAssumption
  <2>4. f[p] = q
    BY <2>1, <2>2, <2>3 DEF Join
  <2>. QED
    BY <1>2, <2>2, <2>3, <2>4
<1>. QED
  BY <1>1, <1>2

\* A rotation stands for what the node did.
LEMMA RotateRightStands ==
  ASSUME NEW n, NEW f, <<n, f>> \in Stands, n # Nil, n.left # Nil
  PROVE  <<RotateRight(n), f>> \in Stands
<1>. DEFINE p == n.price
            q == n.quantity
            y == n.priority
            l == n.left
            lp == l.price
            lq == l.quantity
            ly == l.priority
<1>1. PICK fl \in Depths, fr \in Depths :
        <<l, fl>> \in Stands /\ <<n.right, fr>> \in Stands /\ Between(fl, p, fr) /\ f = Join(fl, p, q, fr)
  BY StandsCases
<1>2. p \in Price /\ q \in Qty /\ y \in Priority /\ l \in Tree /\ n.right \in Tree
  BY StandsCases
<1>3. PICK fll \in Depths, flr \in Depths :
        <<l.left, fll>> \in Stands /\ <<l.right, flr>> \in Stands /\ Between(fll, lp, flr)
        /\ fl = Join(fll, lp, lq, flr)
  BY <1>1, StandsCases
<1>4. lp \in Price /\ lq \in Qty /\ ly \in Priority /\ l.left \in Tree /\ l.right \in Tree
  BY <1>1, StandsCases
<1>5. RotateRight(n) = Node(lp, lq, ly, l.left, Node(p, q, y, l.right, n.right))
  BY StandsTree, RotateRightIs
<1>. DEFINE fs == Join(flr, p, q, fr)
<1>. HIDE DEF p, q, y, l, lp, lq, ly
<1>6. p \in Nat /\ lp \in Nat /\ Price \subseteq Nat /\ lq # 0
  BY <1>2, <1>4, PriceAssumption, QtyAssumption
<1>7. lp < p
  <2>1. fl[lp] = lq
    BY <1>3, <1>4, <1>6 DEF Join
  <2>. QED
    BY <1>1, <1>4, <1>6, <2>1 DEF Between
<1>8. \A x \in Price : /\ x < lp => fl[x] = fll[x]
                       /\ x > lp => fl[x] = flr[x]
                       /\ x = lp => fl[x] = lq
  BY <1>3, <1>4, <1>6 DEF Join
<1>9. Between(flr, p, fr)
  BY <1>1, <1>6, <1>7, <1>8 DEF Between
<1>10. Between(fll, lp, fs)
  <2>1. \A x \in Price : x <= lp => fs[x] = flr[x]
    BY <1>6, <1>7 DEF Join
  <2>. HIDE DEF fs
  <2>. QED
    BY <1>3, <1>6, <2>1 DEF Between
<1>11. f = Join(fll, lp, lq, fs)
  BY <1>1, <1>3, <1>6, <1>7 DEF Join
<1>12. fs \in Depths
  BY <1>2, JoinDepths
<1>13. <<Node(p, q, y, l.right, n.right), fs>> \in Stands
  BY <1>1, <1>2, <1>3, <1>4, <1>9, StandsNode
<1>14. Node(p, q, y, l.right, n.right) \in Tree
  BY <1>13, StandsTree
<1>. HIDE DEF fs
<1>. QED
  BY <1>3, <1>4, <1>5, <1>10, <1>11, <1>12, <1>13, <1>14, StandsNode

LEMMA RotateLeftStands ==
  ASSUME NEW n, NEW f, <<n, f>> \in Stands, n # Nil, n.right # Nil
  PROVE  <<RotateLeft(n), f>> \in Stands
<1>. DEFINE p == n.price
            q == n.quantity
            y == n.priority
            r == n.right
            rp == r.price
            rq == r.quantity
            ry == r.priority
<1>1. PICK fl \in Depths, fr \in Depths :
        <<n.left, fl>> \in Stands /\ <<r, fr>> \in Stands /\ Between(fl, p, fr) /\ f = Join(fl, p, q, fr)
  BY StandsCases
<1>2. p \in Price /\ q \in Qty /\ y \in Priority /\ r \in Tree /\ n.left \in Tree
  BY StandsCases
<1>3. PICK frl \in Depths, frr \in Depths :
        <<r.left, frl>> \in Stands /\ <<r.right, frr>> \in Stands /\ Between(frl, rp, frr)
        /\ fr = Join(frl, rp, rq, frr)
  BY <1>1, StandsCases
<1>4. rp \in Price /\ rq \in Qty /\ ry \in Priority /\ r.left \in Tree /\ r.right \in Tree
  BY <1>1, StandsCases
<1>5. RotateLeft(n) = Node(rp, rq, ry, Node(p, q, y, n.left, r.left), r.right)
  BY StandsTree, RotateLeftIs
<1>. DEFINE fs == Join(fl, p, q, frl)
<1>. HIDE DEF p, q, y, r, rp, rq, ry
<1>6. p \in Nat /\ rp \in Nat /\ Price \subseteq Nat /\ rq # 0
  BY <1>2, <1>4, PriceAssumption, QtyAssumption
<1>7. p < rp
  <2>1. fr[rp] = rq
    BY <1>3, <1>4, <1>6 DEF Join
  <2>. QED
    BY <1>1, <1>4, <1>6, <2>1 DEF Between
<1>8. \A x \in Price : /\ x < rp => fr[x] = frl[x]
                       /\ x > rp => fr[x] = frr[x]
                       /\ x = rp => fr[x] = rq
  BY <1>3, <1>4, <1>6 DEF Join
<1>9. Between(fl, p, frl)
  BY <1>1, <1>6, <1>7, <1>8 DEF Between
<1>10. Between(fs, rp, frr)
  <2>1. \A x \in Price : x >= rp => fs[x] = frl[x]
    BY <1>6, <1>7 DEF Join
  <2>. HIDE DEF fs
  <2>. QED
    BY <1>3, <1>6, <2>1 DEF Between
<1>11. f = Join(fs, rp, rq, frr)
  BY <1>1, <1>3, <1>6, <1>7 DEF Join
<1>12. fs \in Depths
  BY <1>2, JoinDepths
<1>13. <<Node(p, q, y, n.left, r.left), fs>> \in Stands
  BY <1>1, <1>2, <1>3, <1>4, <1>9, StandsNode
<1>14. Node(p, q, y, n.left, r.left) \in Tree
  BY <1>13, StandsTree
<1>. HIDE DEF fs
<1>. QED
  BY <1>3, <1>4, <1>5, <1>10, <1>11, <1>12, <1>13, <1>14, StandsNode

\* Get returns the quantity at the price.
LEMMA FindStands ==
  ASSUME NEW n, NEW f, <<n, f>> \in Stands, NEW price \in Price
  PROVE  Find(n, price) = f[price]
<1>. DEFINE R == {z \in Stands : Find(z[1], price) = z[2][price]}
<1>1. <<Nil, NoDepth>> \in R
  <2>1. Nil \in Tree
    BY StandsNil, StandsTree
  <2>2. Find(Nil, price) = 0
    BY <2>1, FindUnfolds
  <2>. QED
    BY <2>2, StandsNil DEF NoDepth
<1>2. ASSUME NEW left \in Tree, NEW right \in Tree, NEW fl \in Depths, NEW fr \in Depths,
             NEW p \in Price, NEW q \in Qty, NEW y \in Priority,
             <<left, fl>> \in Stands, <<left, fl>> \in R, <<right, fr>> \in Stands, <<right, fr>> \in R,
             Between(fl, p, fr)
      PROVE  <<Node(p, q, y, left, right), Join(fl, p, q, fr)>> \in R
  <2>. DEFINE m == Node(p, q, y, left, right)
              J == Join(fl, p, q, fr)
  <2>1. <<m, J>> \in Stands
    BY <1>2, StandsNode
  <2>2. m \in Tree
    BY <2>1, StandsTree
  <2>3. m # Nil /\ m.price = p /\ m.quantity = q /\ m.left = left /\ m.right = right
    BY NodeParts, NodeNotNil
  <2>4. p \in Nat /\ price \in Nat
    BY PriceAssumption
  <2>5. J[p] = q /\ (price < p => J[price] = fl[price]) /\ (price > p => J[price] = fr[price])
    BY <2>4 DEF Join
  <2>6. Find(left, price) = fl[price] /\ Find(right, price) = fr[price]
    BY <1>2
  <2>. HIDE DEF m, J
  <2>7. Find(m, price) = IF price < p THEN Find(left, price)
                         ELSE IF price > p THEN Find(right, price) ELSE q
    BY <2>2, <2>3, FindUnfolds
  <2>8. Find(m, price) = J[price]
    BY <2>4, <2>5, <2>6, <2>7
  <2>. QED
    BY <2>1, <2>8 DEF m, J
<1>3. Stands \subseteq R
  <2>. HIDE DEF R
  <2>. QED
    BY <1>1, <1>2, StandsInduction
<1>. QED
  BY <1>3

\* Insert puts the quantity at the price and changes nothing else, whatever the
\* priority.
LEMMA InsertStands ==
  ASSUME NEW n, NEW f, <<n, f>> \in Stands,
         NEW price \in Price, NEW quantity \in Qty, NEW priority \in Priority
  PROVE  <<InsertNode(n, price, quantity, priority), [f EXCEPT ![price] = quantity]>> \in Stands
<1>. DEFINE I(m) == InsertNode(m, price, quantity, priority)
            Set(g) == [g EXCEPT ![price] = quantity]
            R == {z \in Stands : <<I(z[1]), Set(z[2])>> \in Stands}
<1>0. quantity \in Qty \cup {0} /\ quantity # 0
  BY QtyAssumption
<1>1. <<Nil, NoDepth>> \in R
  <2>1. NoDepth \in Depths /\ Nil \in Tree
    BY StandsNil, StandsTree
  <2>2. Between(NoDepth, price, NoDepth)
    BY DEF Between, NoDepth
  <2>3. <<Node(price, quantity, priority, Nil, Nil), Join(NoDepth, price, quantity, NoDepth)>> \in Stands
    BY <2>1, <2>2, StandsNil, StandsNode
  <2>4. Join(NoDepth, price, quantity, NoDepth) = Set(NoDepth)
    <3>1. ASSUME NEW z \in Price
          PROVE  Join(NoDepth, price, quantity, NoDepth)[z] = Set(NoDepth)[z]
      <4>1. price \in Nat /\ z \in Nat
        BY PriceAssumption
      <4>2. NoDepth[z] = 0 /\ Set(NoDepth)[z] = IF z = price THEN quantity ELSE 0
        BY DEF NoDepth
      <4>. HIDE DEF Set
      <4>. QED
        BY <4>1, <4>2 DEF Join
    <3>. QED
      BY <3>1 DEF Join, NoDepth
  <2>5. I(Nil) = Node(price, quantity, priority, Nil, Nil)
    BY <2>1, InsertUnfolds
  <2>. HIDE DEF I, Set
  <2>. QED
    BY <2>3, <2>4, <2>5, StandsNil
<1>2. ASSUME NEW left \in Tree, NEW right \in Tree, NEW fl \in Depths, NEW fr \in Depths,
             NEW p \in Price, NEW q \in Qty, NEW y \in Priority,
             <<left, fl>> \in Stands, <<left, fl>> \in R, <<right, fr>> \in Stands, <<right, fr>> \in R,
             Between(fl, p, fr)
      PROVE  <<Node(p, q, y, left, right), Join(fl, p, q, fr)>> \in R
  <2>. DEFINE m == Node(p, q, y, left, right)
              J == Join(fl, p, q, fr)
  <2>1. <<m, J>> \in Stands
    BY <1>2, StandsNode
  <2>2. m \in Tree
    BY <2>1, StandsTree
  <2>3. m # Nil /\ m.price = p /\ m.quantity = q /\ m.priority = y /\ m.left = left /\ m.right = right
    BY NodeParts, NodeNotNil
  <2>4. p \in Nat /\ price \in Nat
    BY PriceAssumption
  <2>5. <<I(left), Set(fl)>> \in Stands /\ <<I(right), Set(fr)>> \in Stands
    BY <1>2
  <2>6. I(left) \in Tree /\ I(right) \in Tree /\ Set(fl) \in Depths /\ Set(fr) \in Depths
    <3>. HIDE DEF I, Set
    <3>. QED
      BY <2>5, StandsTree
  <2>7. I(m) = IF price < p THEN RaiseLeft([m EXCEPT !.left = I(left)])
               ELSE IF price > p THEN RaiseRight([m EXCEPT !.right = I(right)])
               ELSE [m EXCEPT !.quantity = quantity]
    <3>. HIDE DEF m
    <3>. QED
      BY <2>2, <2>3, InsertUnfolds
  <2>8. /\ \A t : [m EXCEPT !.left = t] = Node(p, q, y, t, right)
        /\ \A t : [m EXCEPT !.right = t] = Node(p, q, y, left, t)
        /\ [m EXCEPT !.quantity = quantity] = Node(p, quantity, y, left, right)
    BY DEF Node
  <2>9. /\ price < p => Between(Set(fl), p, fr) /\ Set(J) = Join(Set(fl), p, q, fr)
        /\ price > p => Between(fl, p, Set(fr)) /\ Set(J) = Join(fl, p, q, Set(fr))
        /\ price = p => Set(J) = Join(fl, p, quantity, fr)
    <3>1. /\ price < p => /\ Set(fl) \in Depths
                          /\ Between(Set(fl), p, fr)
                          /\ Set(Join(fl, p, q, fr)) = Join(Set(fl), p, q, fr)
          /\ price > p => /\ Set(fr) \in Depths
                          /\ Between(fl, p, Set(fr))
                          /\ Set(Join(fl, p, q, fr)) = Join(fl, p, q, Set(fr))
          /\ price = p => Set(Join(fl, p, q, fr)) = Join(fl, p, quantity, fr)
      <4>1. Between(fl, p, fr)
        BY <1>2
      <4>. QED
        BY <1>0, <4>1, JoinSet, SMTT(60)
    <3>. QED
      BY <3>1
  <2>10. I(left) # Nil /\ I(right) # Nil
    <3>1. Set(fl)[price] = quantity /\ Set(fr)[price] = quantity
      BY DEF Depths
    <3>. HIDE DEF I, Set
    <3>. QED
      BY <1>0, <2>5, <3>1, StandsEmpty
  <2>. HIDE DEF m, J, I, Set
  <2>11. ASSUME price < p PROVE <<I(m), Set(J)>> \in Stands
    <3>. DEFINE k == Node(p, q, y, I(left), right)
    <3>1. <<k, Set(J)>> \in Stands
      BY <1>2, <2>5, <2>6, <2>9, <2>11, StandsNode
    <3>2. k # Nil /\ k.left = I(left)
      BY NodeParts, NodeNotNil
    <3>3. I(m) = RaiseLeft(k)
      BY <2>7, <2>8, <2>11
    <3>. HIDE DEF k
    <3>4. <<RotateRight(k), Set(J)>> \in Stands
      BY <2>10, <3>1, <3>2, RotateRightStands
    <3>. QED
      BY <3>1, <3>3, <3>4 DEF RaiseLeft
  <2>12. ASSUME price > p PROVE <<I(m), Set(J)>> \in Stands
    <3>. DEFINE k == Node(p, q, y, left, I(right))
    <3>1. <<k, Set(J)>> \in Stands
      BY <1>2, <2>5, <2>6, <2>9, <2>12, StandsNode
    <3>2. k # Nil /\ k.right = I(right)
      BY NodeParts, NodeNotNil
    <3>3. I(m) = RaiseRight(k)
      BY <2>4, <2>7, <2>8, <2>12
    <3>. HIDE DEF k
    <3>4. <<RotateLeft(k), Set(J)>> \in Stands
      BY <2>10, <3>1, <3>2, RotateLeftStands
    <3>. QED
      BY <3>1, <3>3, <3>4 DEF RaiseRight
  <2>13. ASSUME price = p PROVE <<I(m), Set(J)>> \in Stands
    <3>1. I(m) = Node(p, quantity, y, left, right)
      BY <2>4, <2>7, <2>8, <2>13
    <3>2. <<Node(p, quantity, y, left, right), Set(J)>> \in Stands
      BY <1>2, <2>9, <2>13, StandsNode
    <3>. QED
      BY <3>1, <3>2
  <2>14. <<I(m), Set(J)>> \in Stands
    BY <2>4, <2>11, <2>12, <2>13
  <2>. QED
    BY <2>1, <2>14 DEF m, J
<1>3. Stands \subseteq R
  <2>. HIDE DEF R
  <2>. QED
    BY <1>1, <1>2, StandsInduction
<1>. QED
  BY <1>3

\* MinPrice is the least price of the tree, MaxPrice its greatest.
LEMMA MinStands ==
  ASSUME NEW n, NEW f, <<n, f>> \in Stands, n # Nil
  PROVE  /\ MinPrice(n) \in Price /\ f[MinPrice(n)] # 0
         /\ \A x \in Price : f[x] # 0 => MinPrice(n) <= x
<1>. DEFINE P(m, g) == m # Nil => /\ MinPrice(m) \in Price /\ g[MinPrice(m)] # 0
                                  /\ \A x \in Price : g[x] # 0 => MinPrice(m) <= x
            R == {z \in Stands : P(z[1], z[2])}
<1>1. <<Nil, NoDepth>> \in R
  BY StandsNil
<1>2. ASSUME NEW left \in Tree, NEW right \in Tree, NEW fl \in Depths, NEW fr \in Depths,
             NEW p \in Price, NEW q \in Qty, NEW y \in Priority,
             <<left, fl>> \in Stands, <<left, fl>> \in R, <<right, fr>> \in Stands, <<right, fr>> \in R,
             Between(fl, p, fr)
      PROVE  <<Node(p, q, y, left, right), Join(fl, p, q, fr)>> \in R
  <2>. DEFINE m == Node(p, q, y, left, right)
              J == Join(fl, p, q, fr)
  <2>1. <<m, J>> \in Stands
    BY <1>2, StandsNode
  <2>2. m \in Tree
    BY <2>1, StandsTree
  <2>3. m # Nil /\ m.price = p /\ m.left = left
    BY NodeParts, NodeNotNil
  <2>4. p \in Nat /\ Price \subseteq Nat /\ q # 0
    BY PriceAssumption, QtyAssumption
  <2>5. \A x \in Price : /\ x < p => J[x] = fl[x]
                         /\ x = p => J[x] = q
    BY <2>4 DEF Join
  <2>. HIDE DEF J
  <2>6. P(left, fl)
    BY <1>2
  <2>7. MinPrice(m) = IF left = Nil THEN p ELSE MinPrice(left)
    <3>. HIDE DEF m
    <3>. QED
      BY <2>2, <2>3, MinUnfolds
  <2>8. left = Nil => \A x \in Price : fl[x] = 0
    BY <1>2, StandsEmpty
  <2>9. left # Nil => MinPrice(left) < p
    <3>1. ASSUME left # Nil PROVE MinPrice(left) < p
      <4>. DEFINE a == MinPrice(left)
      <4>1. a \in Price /\ fl[a] # 0
        BY <2>6, <3>1
      <4>2. a \in Nat /\ p \in Nat
        BY <2>4, <4>1
      <4>. HIDE DEF a
      <4>3. a < p
        BY <1>2, <4>1, <4>2 DEF Between
      <4>. QED
        BY <4>3 DEF a
    <3>. QED
      BY <3>1
  <2>10. P(m, J)
    <3>. HIDE DEF m
    <3>1. ASSUME left = Nil PROVE P(m, J)
      <4>1. J[p] # 0 /\ \A x \in Price : J[x] # 0 => p <= x
        BY <2>4, <2>5, <2>8, <3>1
      <4>. QED
        BY <2>7, <3>1, <4>1
    <3>2. ASSUME left # Nil PROVE P(m, J)
      <4>. DEFINE a == MinPrice(left)
      <4>1. a \in Price /\ fl[a] # 0 /\ \A x \in Price : fl[x] # 0 => a <= x
        BY <2>6, <3>2
      <4>2. a < p /\ MinPrice(m) = a
        BY <2>7, <2>9, <3>2
      <4>. HIDE DEF a
      <4>3. J[a] # 0 /\ \A x \in Price : J[x] # 0 => a <= x
        BY <2>4, <2>5, <4>1, <4>2
      <4>. QED
        BY <4>1, <4>2, <4>3
    <3>. QED
      BY <3>1, <3>2
  <2>. HIDE DEF m, P
  <2>. QED
    BY <2>1, <2>10 DEF m, J
<1>3. Stands \subseteq R
  <2>. HIDE DEF R
  <2>. QED
    BY <1>1, <1>2, StandsInduction
<1>4. P(n, f)
  <2>. HIDE DEF P
  <2>. QED
    BY <1>3
<1>. QED
  BY <1>4

LEMMA MaxStands ==
  ASSUME NEW n, NEW f, <<n, f>> \in Stands, n # Nil
  PROVE  /\ MaxPrice(n) \in Price /\ f[MaxPrice(n)] # 0
         /\ \A x \in Price : f[x] # 0 => MaxPrice(n) >= x
<1>. DEFINE P(m, g) == m # Nil => /\ MaxPrice(m) \in Price /\ g[MaxPrice(m)] # 0
                                  /\ \A x \in Price : g[x] # 0 => MaxPrice(m) >= x
            R == {z \in Stands : P(z[1], z[2])}
<1>1. <<Nil, NoDepth>> \in R
  BY StandsNil
<1>2. ASSUME NEW left \in Tree, NEW right \in Tree, NEW fl \in Depths, NEW fr \in Depths,
             NEW p \in Price, NEW q \in Qty, NEW y \in Priority,
             <<left, fl>> \in Stands, <<left, fl>> \in R, <<right, fr>> \in Stands, <<right, fr>> \in R,
             Between(fl, p, fr)
      PROVE  <<Node(p, q, y, left, right), Join(fl, p, q, fr)>> \in R
  <2>. DEFINE m == Node(p, q, y, left, right)
              J == Join(fl, p, q, fr)
  <2>1. <<m, J>> \in Stands
    BY <1>2, StandsNode
  <2>2. m \in Tree
    BY <2>1, StandsTree
  <2>3. m # Nil /\ m.price = p /\ m.right = right
    BY NodeParts, NodeNotNil
  <2>4. p \in Nat /\ Price \subseteq Nat /\ q # 0
    BY PriceAssumption, QtyAssumption
  <2>5. \A x \in Price : /\ x > p => J[x] = fr[x]
                         /\ x = p => J[x] = q
    BY <2>4 DEF Join
  <2>. HIDE DEF J
  <2>6. P(right, fr)
    BY <1>2
  <2>7. MaxPrice(m) = IF right = Nil THEN p ELSE MaxPrice(right)
    <3>. HIDE DEF m
    <3>. QED
      BY <2>2, <2>3, MaxUnfolds
  <2>8. right = Nil => \A x \in Price : fr[x] = 0
    BY <1>2, StandsEmpty
  <2>9. right # Nil => MaxPrice(right) > p
    <3>1. ASSUME right # Nil PROVE MaxPrice(right) > p
      <4>. DEFINE a == MaxPrice(right)
      <4>1. a \in Price /\ fr[a] # 0
        BY <2>6, <3>1
      <4>2. a \in Nat /\ p \in Nat
        BY <2>4, <4>1
      <4>. HIDE DEF a
      <4>3. a > p
        BY <1>2, <4>1, <4>2 DEF Between
      <4>. QED
        BY <4>3 DEF a
    <3>. QED
      BY <3>1
  <2>10. P(m, J)
    <3>. HIDE DEF m
    <3>1. ASSUME right = Nil PROVE P(m, J)
      <4>1. J[p] # 0 /\ \A x \in Price : J[x] # 0 => p >= x
        BY <2>4, <2>5, <2>8, <3>1
      <4>. QED
        BY <2>7, <3>1, <4>1
    <3>2. ASSUME right # Nil PROVE P(m, J)
      <4>. DEFINE a == MaxPrice(right)
      <4>1. a \in Price /\ fr[a] # 0 /\ \A x \in Price : fr[x] # 0 => a >= x
        BY <2>6, <3>2
      <4>2. a > p /\ MaxPrice(m) = a
        BY <2>7, <2>9, <3>2
      <4>. HIDE DEF a
      <4>3. J[a] # 0 /\ \A x \in Price : J[x] # 0 => a >= x
        BY <2>4, <2>5, <4>1, <4>2
      <4>. QED
        BY <4>1, <4>2, <4>3
    <3>. QED
      BY <3>1, <3>2
  <2>. HIDE DEF m, P
  <2>. QED
    BY <2>1, <2>10 DEF m, J
<1>3. Stands \subseteq R
  <2>. HIDE DEF R
  <2>. QED
    BY <1>1, <1>2, StandsInduction
<1>4. P(n, f)
  <2>. HIDE DEF P
  <2>. QED
    BY <1>3
<1>. QED
  BY <1>4

\* Remove takes the price out and changes nothing else: by induction on the
\* number of prices, since a node that sinks leaves its tree.
LEMMA RemoveStands ==
  ASSUME NEW n, NEW f, <<n, f>> \in Stands, NEW price \in Price
  PROVE  <<RemoveNode(n, price), [f EXCEPT ![price] = 0]>> \in Stands
<1>. DEFINE Out(m) == RemoveNode(m, price)
            Less(g) == [g EXCEPT ![price] = 0]
            Good(m, g) == <<Out(m), Less(g)>> \in Stands
            Bad == {Cardinality(Dom(z[2])) : z \in {x \in Stands : ~ Good(x[1], x[2])}}
<1>0. price \in Nat /\ Price \subseteq Nat /\ 0 \in Qty \cup {0} /\ \A q \in Qty : q # 0
  BY PriceAssumption, QtyAssumption
<1>1. \A g \in Depths : Cardinality(Dom(g)) \in Nat
  <2>1. \A g \in Depths : Dom(g) \subseteq Price
    BY DEF Dom
  <2>2. \A g \in Depths : IsFiniteSet(Dom(g))
    BY <2>1, TreapAssumption, FS_Subset
  <2>. QED
    BY <2>2, FS_CardinalityType
<1>2. ASSUME NEW m, NEW g, <<m, g>> \in Stands,
             \A k, h : <<k, h>> \in Stands /\ Cardinality(Dom(h)) < Cardinality(Dom(g)) => Good(k, h)
      PROVE  Good(m, g)
  <2>0. m \in Tree /\ g \in Depths
    BY <1>2, StandsTree
  <2>1. ASSUME m = Nil PROVE Good(m, g)
    <3>1. Out(m) = Nil
      BY <2>0, <2>1, RemoveUnfolds
    <3>2. g = NoDepth
      BY <1>2, <2>1, StandsCases
    <3>3. Less(g) = NoDepth
      BY <3>2 DEF NoDepth
    <3>. QED
      BY <3>1, <3>3, StandsNil
  <2>2. ASSUME m # Nil PROVE Good(m, g)
    <3>. DEFINE p == m.price
                q == m.quantity
                y == m.priority
                left == m.left
                right == m.right
    <3>1. /\ p \in Price /\ q \in Qty /\ y \in Priority /\ left \in Tree /\ right \in Tree
          /\ m = Node(p, q, y, left, right)
      BY <1>2, <2>2, StandsCases
    <3>2. PICK fl \in Depths, fr \in Depths :
            /\ <<left, fl>> \in Stands /\ <<right, fr>> \in Stands
            /\ Between(fl, p, fr) /\ g = Join(fl, p, q, fr)
      BY <1>2, <2>2, StandsCases
    <3>3. Out(m) = IF price < p THEN [m EXCEPT !.left = Out(left)]
                   ELSE IF price > p THEN [m EXCEPT !.right = Out(right)]
                   ELSE IF left = Nil THEN right
                   ELSE IF right = Nil THEN left
                   ELSE IF left.priority > right.priority
                   THEN [left EXCEPT !.right = Out(RotateRight(m).right)]
                   ELSE [right EXCEPT !.left = Out(RotateLeft(m).left)]
      BY <2>0, <2>2, RemoveUnfolds
    <3>4. /\ \A t : [m EXCEPT !.left = t] = Node(p, q, y, t, right)
          /\ \A t : [m EXCEPT !.right = t] = Node(p, q, y, left, t)
      <4>1. /\ \A t : [Node(p, q, y, left, right) EXCEPT !.left = t] = Node(p, q, y, t, right)
            /\ \A t : [Node(p, q, y, left, right) EXCEPT !.right = t] = Node(p, q, y, left, t)
        <5>. HIDE DEF p, q, y, left, right
        <5>. QED
          BY DEF Node
      <4>. HIDE DEF p, q, y, left, right
      <4>. QED
        BY <3>1, <4>1
    <3>5. p \in Nat
      BY <1>0, <3>1
    <3>6. /\ Cardinality(Dom(fl)) < Cardinality(Dom(g))
          /\ Cardinality(Dom(fr)) < Cardinality(Dom(g))
      <4>. HIDE DEF p, q, y, left, right
      <4>. QED
        BY <3>1, <3>2, DomJoin
    <3>7. Good(left, fl) /\ Good(right, fr)
      BY <1>2, <3>2, <3>6
    <3>8. Out(left) \in Tree /\ Out(right) \in Tree /\ Less(fl) \in Depths /\ Less(fr) \in Depths
      <4>. HIDE DEF Out, Less, left, right
      <4>. QED
        BY <3>7, StandsTree
    <3>9. /\ price < p => Between(Less(fl), p, fr) /\ Less(Join(fl, p, q, fr)) = Join(Less(fl), p, q, fr)
          /\ price > p => Between(fl, p, Less(fr)) /\ Less(Join(fl, p, q, fr)) = Join(fl, p, q, Less(fr))
      <4>1. /\ price < p => /\ Less(fl) \in Depths
                            /\ Between(Less(fl), p, fr)
                            /\ Less(Join(fl, p, q, fr)) = Join(Less(fl), p, q, fr)
            /\ price > p => /\ Less(fr) \in Depths
                            /\ Between(fl, p, Less(fr))
                            /\ Less(Join(fl, p, q, fr)) = Join(fl, p, q, Less(fr))
        <5>1. Between(fl, p, fr) /\ p \in Price /\ q \in Qty
          BY <3>1, <3>2
        <5>. HIDE DEF p, q, y, left, right
        <5>. QED
          BY <1>0, <5>1, JoinSet, SMTT(60)
      <4>. QED
        BY <4>1
    <3>10. ASSUME price < p PROVE Good(m, g)
      <4>1. Out(m) = Node(p, q, y, Out(left), right)
        BY <3>3, <3>4, <3>10
      <4>2. Less(g) = Join(Less(fl), p, q, fr) /\ Between(Less(fl), p, fr)
        BY <3>2, <3>9, <3>10
      <4>. HIDE DEF Out, Less, p, q, y, left, right
      <4>3. <<Node(p, q, y, Out(left), right), Join(Less(fl), p, q, fr)>> \in Stands
        BY <3>1, <3>2, <3>7, <3>8, <4>2, StandsNode
      <4>. QED
        BY <4>1, <4>2, <4>3
    <3>11. ASSUME price > p PROVE Good(m, g)
      <4>1. Out(m) = Node(p, q, y, left, Out(right))
        BY <1>0, <3>3, <3>4, <3>5, <3>11
      <4>2. Less(g) = Join(fl, p, q, Less(fr)) /\ Between(fl, p, Less(fr))
        BY <3>2, <3>9, <3>11
      <4>. HIDE DEF Out, Less, p, q, y, left, right
      <4>3. <<Node(p, q, y, left, Out(right)), Join(fl, p, q, Less(fr))>> \in Stands
        BY <3>1, <3>2, <3>7, <3>8, <4>2, StandsNode
      <4>. QED
        BY <4>1, <4>2, <4>3
    <3>12. ASSUME price = p PROVE Good(m, g)
      <4>0. \A z \in Price : Less(g)[z] = IF z < p THEN fl[z] ELSE IF z = p THEN 0 ELSE fr[z]
        <5>1. \A z \in Price : Less(g)[z] = IF z = p THEN 0 ELSE g[z]
          BY <2>0, <3>12 DEF Depths
        <5>. HIDE DEF Less, p, q, y, left, right
        <5>. QED
          BY <1>0, <3>2, <3>5, <5>1 DEF Join
      <4>1. Less(g) \in Depths
        BY <2>0 DEF Depths
      <4>2. ASSUME left = Nil PROVE Good(m, g)
        <5>1. \A z \in Price : fl[z] = 0
          BY <3>2, <4>2, StandsEmpty
        <5>2. \A z \in Price : fr[z] # 0 => z > p
          <6>. HIDE DEF p, q, y, left, right
          <6>. QED
            BY <1>0, <3>2, <3>5 DEF Between
        <5>3. \A z \in Price : Less(g)[z] = fr[z]
          <6>. HIDE DEF Less, p, q, y, left, right
          <6>. QED
            BY <1>0, <3>5, <4>0, <5>1, <5>2
        <5>4. Less(g) = fr
          <6>. HIDE DEF Less
          <6>. QED
            BY <4>1, <5>3 DEF Depths
        <5>5. Out(m) = right
          BY <1>0, <3>3, <3>5, <3>12, <4>2
        <5>. QED
          BY <3>2, <5>4, <5>5
      <4>3. ASSUME left # Nil, right = Nil PROVE Good(m, g)
        <5>1. \A z \in Price : fr[z] = 0
          BY <3>2, <4>3, StandsEmpty
        <5>2. \A z \in Price : fl[z] # 0 => z < p
          <6>. HIDE DEF p, q, y, left, right
          <6>. QED
            BY <1>0, <3>2, <3>5 DEF Between
        <5>3. \A z \in Price : Less(g)[z] = fl[z]
          <6>. HIDE DEF Less, p, q, y, left, right
          <6>. QED
            BY <1>0, <3>5, <4>0, <5>1, <5>2
        <5>4. Less(g) = fl
          <6>. HIDE DEF Less
          <6>. QED
            BY <4>1, <5>3 DEF Depths
        <5>5. Out(m) = left
          BY <1>0, <3>3, <3>5, <3>12, <4>3
        <5>. QED
          BY <3>2, <5>4, <5>5
      <4>4. ASSUME left # Nil, right # Nil, left.priority > right.priority PROVE Good(m, g)
        <5>. DEFINE lp == left.price
                    lq == left.quantity
                    ly == left.priority
                    sunk == RotateRight(m).right
        <5>1. /\ lp \in Price /\ lq \in Qty /\ ly \in Priority /\ left.left \in Tree /\ left.right \in Tree
              /\ left = Node(lp, lq, ly, left.left, left.right)
          BY <3>2, <4>4, StandsCases
        <5>2. PICK fll \in Depths, flr \in Depths :
                /\ <<left.left, fll>> \in Stands /\ <<left.right, flr>> \in Stands
                /\ Between(fll, lp, flr) /\ fl = Join(fll, lp, lq, flr)
          BY <3>2, <4>4, StandsCases
        <5>3. Out(m) = [left EXCEPT !.right = Out(sunk)]
          BY <1>0, <3>3, <3>5, <3>12, <4>4
        <5>4. sunk = Node(p, q, y, left.right, right)
          BY <2>0, <2>2, <4>4, RotateRightIs
        <5>. DEFINE fs == Join(flr, p, q, fr)
        <5>. HIDE DEF p, q, y, right, lp, lq, ly, sunk
        <5>5. lp \in Nat /\ lq # 0
          BY <1>0, <5>1
        <5>6. lp < p
          <6>1. fl[lp] = lq
            BY <5>1, <5>2, <5>5 DEF Join
          <6>. QED
            BY <3>2, <3>5, <5>1, <5>5, <6>1 DEF Between
        <5>7. \A x \in Price : /\ x < lp => fl[x] = fll[x]
                               /\ x > lp => fl[x] = flr[x]
                               /\ x = lp => fl[x] = lq
          BY <1>0, <5>2, <5>5 DEF Join
        <5>8. Between(flr, p, fr)
          BY <1>0, <3>2, <3>5, <5>5, <5>6, <5>7 DEF Between
        <5>9. <<sunk, fs>> \in Stands
          BY <3>1, <3>2, <5>1, <5>2, <5>4, <5>8, StandsNode
        <5>10. fs \in Depths
          BY <5>9, StandsTree
        <5>11. Cardinality(Dom(fs)) < Cardinality(Dom(g))
          <6>1. /\ Cardinality(Dom(fs)) = Cardinality(Dom(flr)) + Cardinality(Dom(fr)) + 1
                /\ Cardinality(Dom(flr)) \in Nat
            BY <3>1, <5>8, DomJoin
          <6>2. /\ Cardinality(Dom(fl)) = Cardinality(Dom(fll)) + Cardinality(Dom(flr)) + 1
                /\ Cardinality(Dom(fll)) \in Nat
            BY <5>1, <5>2, DomJoin
          <6>3. /\ Cardinality(Dom(g)) = Cardinality(Dom(fl)) + Cardinality(Dom(fr)) + 1
                /\ Cardinality(Dom(fr)) \in Nat
            BY <3>1, <3>2, DomJoin
          <6>. HIDE DEF fs
          <6>. QED
            BY <6>1, <6>2, <6>3
        <5>12. Good(sunk, fs)
          <6>. HIDE DEF fs, Good
          <6>. QED
            BY <1>2, <5>9, <5>11
        <5>13. Out(sunk) \in Tree /\ Less(fs) \in Depths
          <6>. HIDE DEF fs, Out, Less
          <6>. QED
            BY <5>12, StandsTree
        <5>14. [left EXCEPT !.right = Out(sunk)] = Node(lp, lq, ly, left.left, Out(sunk))
          <6>1. \A a, b, t : [Node(lp, lq, ly, a, b) EXCEPT !.right = t] = Node(lp, lq, ly, a, t)
            BY DEF Node
          <6>. DEFINE ll == left.left
                      lr == left.right
          <6>2. left = Node(lp, lq, ly, ll, lr)
            BY <5>1
          <6>. HIDE DEF ll, lr, left, Out
          <6>3. [left EXCEPT !.right = Out(sunk)] = Node(lp, lq, ly, ll, Out(sunk))
            BY <6>1, <6>2
          <6>. QED
            BY <6>3 DEF ll
        <5>15. \A z \in Price : Less(fs)[z] = IF z < p THEN flr[z] ELSE IF z = p THEN 0 ELSE fr[z]
          <6>1. \A z \in Price : Less(fs)[z] = IF z = p THEN 0 ELSE fs[z]
            <7>. HIDE DEF fs
            <7>. QED
              BY <3>12, <5>10 DEF Depths
          <6>. HIDE DEF Less
          <6>. QED
            BY <1>0, <3>5, <6>1 DEF Join
        <5>16. Between(fll, lp, Less(fs))
          <6>1. \A z \in Price : z <= lp => Less(fs)[z] = flr[z]
            <7>. HIDE DEF Less, fs
            <7>. QED
              BY <1>0, <3>5, <5>5, <5>6, <5>15
          <6>. HIDE DEF Less, fs
          <6>. QED
            BY <5>2, <6>1 DEF Between
        <5>17. Less(g) = Join(fll, lp, lq, Less(fs))
          <6>1. ASSUME NEW z \in Price PROVE Less(g)[z] = Join(fll, lp, lq, Less(fs))[z]
            <7>. HIDE DEF Less, fs
            <7>. QED
              BY <1>0, <3>5, <4>0, <5>5, <5>6, <5>7, <5>15 DEF Join
          <6>. HIDE DEF Less, fs
          <6>. QED
            BY <4>1, <6>1 DEF Join, Depths
        <5>. HIDE DEF fs, Less, Out
        <5>18. <<Node(lp, lq, ly, left.left, Out(sunk)), Join(fll, lp, lq, Less(fs))>> \in Stands
          BY <5>1, <5>2, <5>12, <5>13, <5>16, StandsNode
        <5>. QED
          BY <5>3, <5>14, <5>17, <5>18
      <4>5. ASSUME left # Nil, right # Nil, ~ (left.priority > right.priority) PROVE Good(m, g)
        <5>. DEFINE rp == right.price
                    rq == right.quantity
                    ry == right.priority
                    sunk == RotateLeft(m).left
        <5>1. /\ rp \in Price /\ rq \in Qty /\ ry \in Priority /\ right.left \in Tree /\ right.right \in Tree
              /\ right = Node(rp, rq, ry, right.left, right.right)
          BY <3>2, <4>5, StandsCases
        <5>2. PICK frl \in Depths, frr \in Depths :
                /\ <<right.left, frl>> \in Stands /\ <<right.right, frr>> \in Stands
                /\ Between(frl, rp, frr) /\ fr = Join(frl, rp, rq, frr)
          BY <3>2, <4>5, StandsCases
        <5>3. Out(m) = [right EXCEPT !.left = Out(sunk)]
          BY <1>0, <3>3, <3>5, <3>12, <4>5
        <5>4. sunk = Node(p, q, y, left, right.left)
          BY <2>0, <2>2, <4>5, RotateLeftIs
        <5>. DEFINE fs == Join(fl, p, q, frl)
        <5>. HIDE DEF p, q, y, left, rp, rq, ry, sunk
        <5>5. rp \in Nat /\ rq # 0
          BY <1>0, <5>1
        <5>6. p < rp
          <6>1. fr[rp] = rq
            BY <5>1, <5>2, <5>5 DEF Join
          <6>. QED
            BY <3>2, <3>5, <5>1, <5>5, <6>1 DEF Between
        <5>7. \A x \in Price : /\ x < rp => fr[x] = frl[x]
                               /\ x > rp => fr[x] = frr[x]
                               /\ x = rp => fr[x] = rq
          BY <1>0, <5>2, <5>5 DEF Join
        <5>8. Between(fl, p, frl)
          BY <1>0, <3>2, <3>5, <5>5, <5>6, <5>7 DEF Between
        <5>9. <<sunk, fs>> \in Stands
          BY <3>1, <3>2, <5>1, <5>2, <5>4, <5>8, StandsNode
        <5>10. fs \in Depths
          BY <5>9, StandsTree
        <5>11. Cardinality(Dom(fs)) < Cardinality(Dom(g))
          <6>1. /\ Cardinality(Dom(fs)) = Cardinality(Dom(fl)) + Cardinality(Dom(frl)) + 1
                /\ Cardinality(Dom(frl)) \in Nat
            BY <3>1, <5>8, DomJoin
          <6>2. /\ Cardinality(Dom(fr)) = Cardinality(Dom(frl)) + Cardinality(Dom(frr)) + 1
                /\ Cardinality(Dom(frr)) \in Nat
            BY <5>1, <5>2, DomJoin
          <6>3. /\ Cardinality(Dom(g)) = Cardinality(Dom(fl)) + Cardinality(Dom(fr)) + 1
                /\ Cardinality(Dom(fl)) \in Nat
            BY <3>1, <3>2, DomJoin
          <6>. HIDE DEF fs
          <6>. QED
            BY <6>1, <6>2, <6>3
        <5>12. Good(sunk, fs)
          <6>. HIDE DEF fs, Good
          <6>. QED
            BY <1>2, <5>9, <5>11
        <5>13. Out(sunk) \in Tree /\ Less(fs) \in Depths
          <6>. HIDE DEF fs, Out, Less
          <6>. QED
            BY <5>12, StandsTree
        <5>14. [right EXCEPT !.left = Out(sunk)] = Node(rp, rq, ry, Out(sunk), right.right)
          <6>1. \A a, b, t : [Node(rp, rq, ry, a, b) EXCEPT !.left = t] = Node(rp, rq, ry, t, b)
            BY DEF Node
          <6>. DEFINE rl == right.left
                      rr == right.right
          <6>2. right = Node(rp, rq, ry, rl, rr)
            BY <5>1
          <6>. HIDE DEF rl, rr, right, Out
          <6>3. [right EXCEPT !.left = Out(sunk)] = Node(rp, rq, ry, Out(sunk), rr)
            BY <6>1, <6>2
          <6>. QED
            BY <6>3 DEF rr
        <5>15. \A z \in Price : Less(fs)[z] = IF z < p THEN fl[z] ELSE IF z = p THEN 0 ELSE frl[z]
          <6>1. \A z \in Price : Less(fs)[z] = IF z = p THEN 0 ELSE fs[z]
            <7>. HIDE DEF fs
            <7>. QED
              BY <3>12, <5>10 DEF Depths
          <6>. HIDE DEF Less
          <6>. QED
            BY <1>0, <3>5, <6>1 DEF Join
        <5>16. Between(Less(fs), rp, frr)
          <6>1. \A z \in Price : z >= rp => Less(fs)[z] = frl[z]
            <7>. HIDE DEF Less, fs
            <7>. QED
              BY <1>0, <3>5, <5>5, <5>6, <5>15
          <6>. HIDE DEF Less, fs
          <6>. QED
            BY <5>2, <6>1 DEF Between
        <5>17. Less(g) = Join(Less(fs), rp, rq, frr)
          <6>1. ASSUME NEW z \in Price PROVE Less(g)[z] = Join(Less(fs), rp, rq, frr)[z]
            <7>. HIDE DEF Less, fs
            <7>. QED
              BY <1>0, <3>5, <4>0, <5>5, <5>6, <5>7, <5>15 DEF Join
          <6>. HIDE DEF Less, fs
          <6>. QED
            BY <4>1, <6>1 DEF Join, Depths
        <5>. HIDE DEF fs, Less, Out
        <5>18. <<Node(rp, rq, ry, Out(sunk), right.right), Join(Less(fs), rp, rq, frr)>> \in Stands
          BY <5>1, <5>2, <5>12, <5>13, <5>16, StandsNode
        <5>. QED
          BY <5>3, <5>14, <5>17, <5>18
      <4>. HIDE DEF Good
      <4>. QED
        BY <4>2, <4>3, <4>4, <4>5
    <3>. HIDE DEF Good
    <3>. QED
      BY <1>0, <3>5, <3>10, <3>11, <3>12
  <2>. HIDE DEF Good
  <2>. QED
    BY <2>1, <2>2
<1>3. Bad = {}
  <2>. SUFFICES ASSUME Bad # {} PROVE FALSE
    OBVIOUS
  <2>1. Bad \subseteq Nat
    <3>. HIDE DEF Good
    <3>. QED
      BY <1>1, StandsParts
  <2>2. PICK c \in Bad : \A d \in Bad : c <= d
    <3>. HIDE DEF Bad
    <3>. QED
      BY <2>1, Least
  <2>3. PICK x \in Stands : ~ Good(x[1], x[2]) /\ c = Cardinality(Dom(x[2]))
    <3>. HIDE DEF Good
    <3>. QED
      BY <2>2
  <2>4. <<x[1], x[2]>> \in Stands /\ x[2] \in Depths
    BY StandsParts
  <2>5. ASSUME NEW k, NEW h, <<k, h>> \in Stands, Cardinality(Dom(h)) < Cardinality(Dom(x[2]))
        PROVE  Good(k, h)
    <3>1. h \in Depths
      BY <2>5, StandsTree
    <3>2. Cardinality(Dom(h)) \notin Bad
      <4>1. Cardinality(Dom(h)) \in Nat /\ c \in Nat
        BY <1>1, <2>1, <3>1
      <4>. HIDE DEF Bad
      <4>. QED
        BY <2>2, <2>3, <2>5, <4>1
    <3>. HIDE DEF Good
    <3>. QED
      BY <2>5, <3>2
  <2>. HIDE DEF Good
  <2>. QED
    BY <1>2, <2>3, <2>4, <2>5
<1>. HIDE DEF Good
<1>4. Good(n, f)
  BY <1>3
<1>. QED
  BY <1>4 DEF Good

-----------------------------------------------------------------------------
(* A treap keeps the depths and their sum *)

\* A treap keeps the depths f: its tree stands for them and its depth is their sum.
Keeps(t, f) == <<t.root, f>> \in Stands /\ t.totalDepth = SumFunction(f)

LEMMA DepthNat == Qty \cup {0} \subseteq Nat
BY QtyAssumption

\* The sum of the depths over the prices.
LEMMA DepthSum ==
  ASSUME NEW f \in Depths
  PROVE  SumFunction(f) = SumOver(f, Price) /\ SumFunction(f) \in Nat
<1>1. DOMAIN f = Price /\ \A p \in Price : f[p] \in Nat
  <2>1. \A p \in Price : f[p] \in Qty \cup {0}
    BY DEF Depths
  <2>. QED
    BY <2>1, DepthNat DEF Depths
<1>2. SumFunction(f) = SumOver(f, DOMAIN f)
  BY DEF SumFunction, FoldFunction, SumOver, SumFunctionOnSet
<1>3. SumOver(f, Price) \in Nat
  BY <1>1, TreapAssumption, SumNat
<1>. QED
  BY <1>1, <1>2, <1>3

\* One quantity changes: the sum changes by the difference.
LEMMA DepthSumSet ==
  ASSUME NEW f \in Depths, NEW p \in Price, NEW q \in Qty \cup {0}
  PROVE  SumFunction([f EXCEPT ![p] = q]) = SumFunction(f) + (q - f[p])
<1>. DEFINE g == [f EXCEPT ![p] = q]
            S == Price \ {p}
<1>1. g \in Depths /\ g[p] = q /\ \A x \in S : g[x] = f[x]
  BY DEF Depths
<1>2. q \in Nat /\ \A x \in Price : f[x] \in Nat /\ g[x] \in Nat
  <2>0. \A h \in Depths : \A x \in Price : h[x] \in Qty \cup {0}
    BY DEF Depths
  <2>1. \A h \in Depths : \A x \in Price : h[x] \in Nat
    BY <2>0, DepthNat
  <2>. HIDE DEF g
  <2>. QED
    BY <1>1, <2>1, QtyAssumption
<1>3. SumOver(f, S) = SumOver(g, S) /\ SumOver(f, S) \in Nat
  <2>1. IsFiniteSet(S)
    BY TreapAssumption, FS_Subset
  <2>2. \A x \in S : f[x] \in Nat
    BY <1>2
  <2>. HIDE DEF g, S
  <2>. QED
    BY <1>1, <2>1, <2>2, SumCongruence, SumNat
<1>. HIDE DEF g
<1>4. SumOver(f, Price) = f[p] + SumOver(f, S) /\ SumOver(g, Price) = g[p] + SumOver(g, S)
  BY <1>2, TreapAssumption, SumTakeOut
<1>5. SumFunction(f) = SumOver(f, Price) /\ SumFunction(g) = SumOver(g, Price)
  BY <1>1, DepthSum
<1>. HIDE DEF S
<1>6. SumFunction(g) = SumFunction(f) + (q - f[p])
  BY <1>1, <1>2, <1>3, <1>4, <1>5
<1>. QED
  BY <1>6 DEF g

\* A new treap keeps nothing.
LEMMA KeepsNew == Keeps(New, NoDepth)
<1>1. NoDepth \in Depths /\ \A p \in Price : NoDepth[p] = 0
  BY StandsNil, StandsTree DEF NoDepth
<1>2. SumOver(NoDepth, Price) = 0
  <2>. DEFINE C == {U \in SUBSET Price : SumOver(NoDepth, U) = 0}
  <2>1. {} \in C
    BY SumEmpty
  <2>2. ASSUME NEW U \in SUBSET Price, U # {}, \A x \in U : U \ {x} \in C PROVE U \in C
    <3>1. IsFiniteSet(U)
      BY TreapAssumption, FS_Subset
    <3>2. Pick(U) \in U /\ SumOver(NoDepth, U) = NoDepth[Pick(U)] + SumOver(NoDepth, U \ {Pick(U)})
      BY <2>2, <3>1, SumNonempty
    <3>. QED
      BY <1>1, <2>2, <3>2
  <2>3. \A U \in SUBSET Price : U # {} /\ (\A x \in U : U \ {x} \in C) => U \in C
    BY <2>2
  <2>4. \A U \in SUBSET Price : U \in C
    <3>. HIDE DEF C
    <3>. QED
      BY <2>1, <2>3, TreapAssumption, SetInduction
  <2>. QED
    BY <2>4
<1>3. SumFunction(NoDepth) = 0
  BY <1>1, <1>2, DepthSum
<1>. QED
  BY <1>3, StandsNil DEF Keeps, New

\* Insert keeps the quantity at the price, 0 included, whatever the priority.
LEMMA KeepsInsert ==
  ASSUME NEW t, NEW f, Keeps(t, f), NEW price \in Price, NEW quantity \in Qty \cup {0},
         NEW priority \in Priority
  PROVE  Keeps(Insert(t, price, quantity, priority), [f EXCEPT ![price] = quantity])
<1>. DEFINE g == [f EXCEPT ![price] = quantity]
            u == Insert(t, price, quantity, priority)
<1>1. <<t.root, f>> \in Stands /\ f \in Depths
  BY StandsTree DEF Keeps
<1>2. u.root = IF quantity = 0 THEN RemoveNode(t.root, price)
               ELSE InsertNode(t.root, price, quantity, priority)
  BY DEF Insert
<1>3. <<u.root, g>> \in Stands
  <2>. HIDE DEF u
  <2>1. CASE quantity = 0
    BY <1>1, <1>2, <2>1, RemoveStands
  <2>2. CASE quantity # 0
    BY <1>1, <1>2, <2>2, InsertStands
  <2>. QED
    BY <2>1, <2>2
<1>4. u.totalDepth = t.totalDepth + (quantity - Find(t.root, price))
  BY DEF Insert
<1>5. Find(t.root, price) = f[price]
  BY <1>1, FindStands
<1>6. SumFunction(g) = SumFunction(f) + (quantity - f[price])
  BY <1>1, DepthSumSet
<1>7. u.totalDepth = SumFunction(g)
  <2>. HIDE DEF u, g
  <2>. QED
    BY <1>4, <1>5, <1>6 DEF Keeps
<1>. HIDE DEF u, g
<1>8. Keeps(u, g)
  BY <1>3, <1>7 DEF Keeps
<1>. QED
  BY <1>8 DEF u, g

\* A treap keeps no other depths than those it finds.
LEMMA KeepsFind ==
  ASSUME NEW t, NEW f, Keeps(t, f)
  PROVE  f \in Depths /\ [p \in Price |-> Find(t.root, p)] = f
<1>1. <<t.root, f>> \in Stands /\ f \in Depths
  BY StandsTree DEF Keeps
<1>2. \A p \in Price : Find(t.root, p) = f[p]
  BY <1>1, FindStands
<1>. QED
  BY <1>1, <1>2 DEF Depths

\* Its best prices are those of the depths, 0 when there are none.
LEMMA KeepsBest ==
  ASSUME NEW t, NEW f, Keeps(t, f)
  PROVE  /\ MaxPrice(t.root) = IF Dom(f) = {} THEN 0 ELSE Max(Dom(f))
         /\ MinPrice(t.root) = IF Dom(f) = {} THEN 0 ELSE Min(Dom(f))
<1>1. <<t.root, f>> \in Stands /\ Dom(f) \subseteq Nat
  BY PriceAssumption DEF Keeps, Dom
<1>2. CASE t.root = Nil
  <2>1. Dom(f) = {}
    BY <1>1, <1>2, StandsEmpty DEF Dom
  <2>. QED
    BY <1>2, <2>1 DEF MaxPrice, MinPrice
<1>3. CASE t.root # Nil
  <2>1. /\ MaxPrice(t.root) \in Dom(f) /\ \A x \in Dom(f) : x <= MaxPrice(t.root)
        /\ MinPrice(t.root) \in Dom(f) /\ \A x \in Dom(f) : MinPrice(t.root) <= x
    BY <1>1, <1>3, MaxStands, MinStands DEF Dom
  <2>2. Max(Dom(f)) = MaxPrice(t.root)
    BY <1>1, <2>1, MaxIs
  <2>3. Min(Dom(f)) = MinPrice(t.root)
    BY <1>1, <2>1, MinIs
  <2>. QED
    BY <2>1, <2>2, <2>3
<1>. QED
  BY <1>2, <1>3

-----------------------------------------------------------------------------
(* The aggregators with treaps implement DepthBook *)

\* The treaps are sound and keep what they show; what the exchange and the
\* recorder have is typed.
KeptInv ==
  /\ Keeps(bids, Kept!Levels(bids)) /\ Keeps(asks, Kept!Levels(asks))
  /\ market \in Market /\ seen \in Market
  /\ rows \subseteq Kind \X Side \X Price

\* The operators of the instance are those of Treap, DepthLevels and DepthBook.
LEMMA SameTrees == Kept!Nil = Nil /\ Kept!Tree = Tree
<1>1. Kept!Nil = Nil
  BY DEF Kept!Nil, Nil
<1>2. \A S : Kept!Cardinality(S) = Cardinality(S)
  BY DEF Kept!Cardinality, Cardinality
<1>3. Kept!Trees = Trees
  BY <1>1, <1>2 DEF Kept!Trees, Trees
<1>. QED
  BY <1>1, <1>2, <1>3 DEF Kept!Tree, Tree

LEMMA SameFind == \A n, p : Kept!Find(n, p) = Find(n, p)
BY SameTrees DEF Kept!Find, Find

LEMMA SameExtremes == \A n : Kept!MaxPrice(n) = MaxPrice(n) /\ Kept!MinPrice(n) = MinPrice(n)
BY SameTrees DEF Kept!MaxPrice, MaxPrice, Kept!MinPrice, MinPrice

LEMMA SameNew == Kept!New = New
BY SameTrees DEF Kept!New, New

LEMMA SameInsert == \A t, p, q, y : Kept!Insert(t, p, q, y) = Insert(t, p, q, y)
<1>1. \A n, p, q, y : Kept!InsertNode(n, p, q, y) = InsertNode(n, p, q, y)
  BY SameTrees DEF Kept!InsertNode, InsertNode, Kept!Node, Node,
       Kept!RaiseLeft, RaiseLeft, Kept!RaiseRight, RaiseRight,
       Kept!RotateLeft, RotateLeft, Kept!RotateRight, RotateRight
<1>2. \A n, p : Kept!RemoveNode(n, p) = RemoveNode(n, p)
  BY SameTrees DEF Kept!RemoveNode, RemoveNode,
       Kept!RotateLeft, RotateLeft, Kept!RotateRight, RotateRight
<1>. QED
  BY <1>1, <1>2, SameFind DEF Kept!Insert, Insert

LEMMA SameSum == \A f : Kept!Book!SumFunction(f) = SumFunction(f)
BY DEF Kept!Book!SumFunction, SumFunction, Kept!Book!SumFunctionOnSet, SumFunctionOnSet,
     Kept!Book!FoldFunctionOnSet, FoldFunctionOnSet, Kept!Book!MapThenFoldSet, MapThenFoldSet

LEMMA SameMinMax == \A S : Kept!Book!Max(S) = Max(S) /\ Kept!Book!Min(S) = Min(S)
BY DEF Kept!Book!Max, Max, Kept!Book!Min, Min

LEMMA SameSides ==
  /\ Kept!Side = Side /\ Kept!Book!Side = Side /\ Kept!Book!Kind = Kind
  /\ Kept!Book!Empty = Empty
BY DEF Kept!Side, Kept!Book!Side, Side, Kept!Book!Kind, Kind, Kept!Book!Empty, Empty

\* A treap shows what it keeps.
LEMMA SameLevels == \A t, f : Keeps(t, f) => f \in Depths /\ Kept!Levels(t) = f
BY KeepsFind, SameFind DEF Kept!Levels

LEMMA KeptInit == Kept!Init => KeptInv /\ Kept!Book!Init
<1>. SUFFICES ASSUME Kept!Init PROVE KeptInv
  BY DEF Kept!Init
<1>1. bids = New /\ asks = New /\ market \in Market /\ seen \in Market /\ rows = {}
  BY SameNew DEF Kept!Init, Kept!TreapInit, Kept!Book!Init
<1>2. Kept!Levels(New) = NoDepth
  BY KeepsNew, SameLevels
<1>. QED
  BY <1>1, <1>2, KeepsNew DEF KeptInv

\* The row's quantity is at its price on its side, and nothing else changed.
LEMMA InsertRowKeeps ==
  ASSUME KeptInv, NEW b, NEW a, NEW fb, NEW fa, Keeps(b, fb), Keeps(a, fa),
         NEW r \in rows, Kept!InsertRow(b, a, r)
  PROVE  LET q == seen[r[2]][r[3]]
             gb == IF r[2] = "bid" THEN [fb EXCEPT ![r[3]] = q] ELSE fb
             ga == IF r[2] = "ask" THEN [fa EXCEPT ![r[3]] = q] ELSE fa
         IN  Keeps(bids', gb) /\ Keeps(asks', ga)
<1>. DEFINE q == seen[r[2]][r[3]]
<1>1. r[2] \in Side /\ r[3] \in Price /\ q \in Qty \cup {0}
  <2>1. r[2] \in Side /\ r[3] \in Price
    BY DEF KeptInv
  <2>2. seen \in Books
    BY MarketAssumption DEF KeptInv
  <2>. QED
    BY <2>1, <2>2 DEF Books
<1>2. PICK y \in Priority :
        /\ bids' = IF r[2] = "bid" THEN Kept!Insert(b, r[3], q, y) ELSE b
        /\ asks' = IF r[2] = "ask" THEN Kept!Insert(a, r[3], q, y) ELSE a
  BY DEF Kept!InsertRow
<1>. HIDE DEF q
<1>3. /\ bids' = IF r[2] = "bid" THEN Insert(b, r[3], q, y) ELSE b
      /\ asks' = IF r[2] = "ask" THEN Insert(a, r[3], q, y) ELSE a
  BY <1>2, SameInsert
<1>4. /\ Keeps(Insert(b, r[3], q, y), [fb EXCEPT ![r[3]] = q])
      /\ Keeps(Insert(a, r[3], q, y), [fa EXCEPT ![r[3]] = q])
  BY <1>1, KeepsInsert
<1>. QED
  BY <1>3, <1>4 DEF q

\* The book of two sides.
Two(fb, fa) == [s \in Side |-> IF s = "bid" THEN fb ELSE fa]

LEMMA TwoSides == ASSUME NEW fb, NEW fa PROVE Two(fb, fa)["bid"] = fb /\ Two(fb, fa)["ask"] = fa
BY DEF Two, Side

\* A sample of the treaps is one of the book they keep.
LEMMA SameSample ==
  ASSUME NEW b, NEW a, NEW fb, NEW fa, Keeps(b, fb), Keeps(a, fa)
  PROVE  /\ Kept!SampleTreaps(b, a) = Kept!Book!SampleBook(Two(fb, fa))
         /\ Kept!Book!SumDepth(Two(fb, fa), "bid") = b.totalDepth
         /\ Kept!Book!SumDepth(Two(fb, fa), "ask") = a.totalDepth
<1>. DEFINE B == Two(fb, fa)
<1>1. B["bid"] = fb /\ B["ask"] = fa
  BY TwoSides
<1>. HIDE DEF B
<1>2. /\ Kept!Book!SumDepth(B, "bid") = b.totalDepth
      /\ Kept!Book!SumDepth(B, "ask") = a.totalDepth
  BY <1>1, SameSum DEF Kept!Book!SumDepth, Keeps
<1>3. Kept!Book!Held(B, "bid") = Dom(fb) /\ Kept!Book!Held(B, "ask") = Dom(fa)
  BY <1>1 DEF Kept!Book!Held, Dom
<1>4. /\ Kept!Book!Best(B, "bid") = IF Dom(fb) = {} THEN 0 ELSE Max(Dom(fb))
      /\ Kept!Book!Best(B, "ask") = IF Dom(fa) = {} THEN 0 ELSE Min(Dom(fa))
  BY <1>3, SameMinMax DEF Kept!Book!Best
<1>5. /\ Kept!MaxPrice(b.root) = IF Dom(fb) = {} THEN 0 ELSE Max(Dom(fb))
      /\ Kept!MinPrice(a.root) = IF Dom(fa) = {} THEN 0 ELSE Min(Dom(fa))
  BY KeepsBest, SameExtremes
<1>6. Kept!SampleTreaps(b, a) = Kept!Book!SampleBook(B)
  BY <1>2, <1>4, <1>5 DEF Kept!SampleTreaps, Kept!Book!SampleBook
<1>. QED
  BY <1>2, <1>6 DEF B

\* What the treaps show after a row is inserted.
LEMMA InsertRowShows ==
  ASSUME KeptInv, NEW b, NEW a, NEW fb, NEW fa, Keeps(b, fb), Keeps(a, fa),
         NEW r \in rows, Kept!InsertRow(b, a, r)
  PROVE  LET q == seen[r[2]][r[3]]
             gb == IF r[2] = "bid" THEN [fb EXCEPT ![r[3]] = q] ELSE fb
             ga == IF r[2] = "ask" THEN [fa EXCEPT ![r[3]] = q] ELSE fa
         IN  /\ Keeps(bids', gb) /\ Keeps(asks', ga)
             /\ Kept!Levels(bids') = gb /\ Kept!Levels(asks') = ga
             /\ Two(gb, ga) = Kept!Book!Inserted(Two(fb, fa), r)
<1>. DEFINE q == seen[r[2]][r[3]]
            gb == IF r[2] = "bid" THEN [fb EXCEPT ![r[3]] = q] ELSE fb
            ga == IF r[2] = "ask" THEN [fa EXCEPT ![r[3]] = q] ELSE fa
<1>1. Keeps(bids', gb) /\ Keeps(asks', ga)
  BY InsertRowKeeps
<1>2. Kept!Levels(bids') = gb /\ Kept!Levels(asks') = ga
  <2>. HIDE DEF gb, ga
  <2>. QED
    BY <1>1, SameLevels
<1>3. r[2] \in Side
  BY DEF KeptInv
<1>4. Two(gb, ga) = [Two(fb, fa) EXCEPT ![r[2]][r[3]] = q]
  <2>. HIDE DEF q
  <2>1. CASE r[2] = "bid"
    BY <2>1 DEF Two, Side
  <2>2. CASE r[2] = "ask"
    BY <2>2 DEF Two, Side
  <2>. QED
    BY <1>3, <2>1, <2>2 DEF Side
<1>5. Two(gb, ga) = Kept!Book!Inserted(Two(fb, fa), r)
  BY <1>4, Zenon DEF Kept!Book!Inserted
<1>. QED
  BY <1>1, <1>2, <1>5, Zenon

\* The book the treaps show.
LEMMA ShownIs ==
  ASSUME NEW b, NEW a, NEW fb, NEW fa, Kept!Levels(b) = fb, Kept!Levels(a) = fa
  PROVE  [s \in Kept!Side |-> Kept!Levels(IF s = "bid" THEN b ELSE a)] = Two(fb, fa)
<1>1. \A s \in Side : Kept!Levels(IF s = "bid" THEN b ELSE a) = IF s = "bid" THEN fb ELSE fa
  OBVIOUS
<1>. QED
  BY <1>1, SameSides DEF Two

\* A row that the live aggregator processes.
LEMMA TreapLiveStep ==
  ASSUME KeptInv, NEW r \in rows, Kept!ProcessLiveUpdate(r)
  PROVE  Kept!Book!ProcessLiveUpdate(r)
<1>. DEFINE fb == Kept!Levels(bids)
            fa == Kept!Levels(asks)
            q == seen[r[2]][r[3]]
            gb == IF r[2] = "bid" THEN [fb EXCEPT ![r[3]] = q] ELSE fb
            ga == IF r[2] = "ask" THEN [fa EXCEPT ![r[3]] = q] ELSE fa
<1>1. Keeps(bids, fb) /\ Keeps(asks, fa)
  BY DEF KeptInv
<1>2. Kept!InsertRow(bids, asks, r)
  BY DEF Kept!ProcessLiveUpdate
<1>. HIDE DEF fb, fa
<1>3. /\ Keeps(bids', gb) /\ Keeps(asks', ga)
      /\ Kept!Levels(bids') = gb /\ Kept!Levels(asks') = ga
      /\ Two(gb, ga) = Kept!Book!Inserted(Two(fb, fa), r)
  BY <1>1, <1>2, InsertRowShows
<1>. HIDE DEF gb, ga
<1>4. [s \in Kept!Side |-> Kept!Levels(IF s = "bid" THEN bids ELSE asks)] = Two(fb, fa)
  BY ShownIs DEF fb, fa
<1>5. [s \in Kept!Side |-> Kept!Levels(IF s = "bid" THEN bids' ELSE asks')] = Two(gb, ga)
  BY <1>3, ShownIs
<1>6. Kept!SampleTreaps(bids', asks') = Kept!Book!SampleBook(Two(gb, ga))
  BY <1>3, SameSample
<1>7. Kept!Book!ProcessLiveUpdate(r)
  BY <1>3, <1>4, <1>5, <1>6 DEF Kept!ProcessLiveUpdate, Kept!Book!ProcessLiveUpdate, Kept!ids
<1>. QED
  BY <1>7

\* New treaps show the empty book: what Init and ResetDepth take over from
\* DepthBook about the book holds of them.
LEMMA NewShowsEmpty ==
  /\ Two(NoDepth, NoDepth) = Empty
  /\ [s \in Kept!Side |-> Kept!Levels(Kept!New)] = Kept!Book!Empty
<1>1. Two(NoDepth, NoDepth) = Empty
  BY DEF Two, NoDepth, Empty
<1>2. Kept!Levels(Kept!New) = NoDepth
  BY KeepsNew, SameNew, SameLevels
<1>. QED
  BY <1>1, <1>2, SameSides DEF Empty, NoDepth

\* The treaps stay sound.
LEMMA InsertRowKept ==
  ASSUME KeptInv, NEW b, NEW a, Keeps(b, Kept!Levels(b)), Keeps(a, Kept!Levels(a)),
         NEW r \in rows, Kept!InsertRow(b, a, r)
  PROVE  Keeps(bids', Kept!Levels(bids')) /\ Keeps(asks', Kept!Levels(asks'))
<1>. DEFINE fb == Kept!Levels(b)
            fa == Kept!Levels(a)
<1>1. Keeps(b, fb) /\ Keeps(a, fa)
  OBVIOUS
<1>. HIDE DEF fb, fa
<1>. QED
  BY <1>1, InsertRowShows

\* A row that the batch aggregator processes, with or without a reset.
LEMMA TreapFileStep ==
  ASSUME KeptInv, NEW r \in rows, Kept!ProcessOrderBookUpdate(r)
  PROVE  Kept!Book!ProcessOrderBookUpdate(r)
<1>. DEFINE reset == Kept!Book!ResetOrderbook(r)
            b == IF reset THEN New ELSE bids
            a == IF reset THEN New ELSE asks
            fb == Kept!Levels(b)
            fa == Kept!Levels(a)
            q == seen[r[2]][r[3]]
            gb == IF r[2] = "bid" THEN [fb EXCEPT ![r[3]] = q] ELSE fb
            ga == IF r[2] = "ask" THEN [fa EXCEPT ![r[3]] = q] ELSE fa
            shown == [s \in Kept!Side |-> Kept!Levels(IF s = "bid" THEN bids ELSE asks)]
<1>0. Kept!Levels(New) = NoDepth
  BY KeepsNew, SameLevels
<1>1. Keeps(b, fb) /\ Keeps(a, fa)
  BY <1>0, KeepsNew DEF KeptInv
<1>2. Kept!InsertRow(b, a, r)
  BY SameNew DEF Kept!ProcessOrderBookUpdate
<1>3. Two(fb, fa) = IF reset THEN Kept!Book!Empty ELSE shown
  <2>1. CASE reset
    <3>1. fb = NoDepth /\ fa = NoDepth
      BY <1>0, <2>1
    <3>. HIDE DEF fb, fa, reset
    <3>. QED
      BY <2>1, <3>1, NewShowsEmpty, SameSides
  <2>2. CASE ~ reset
    <3>1. fb = Kept!Levels(bids) /\ fa = Kept!Levels(asks)
      BY <2>2
    <3>2. shown = Two(Kept!Levels(bids), Kept!Levels(asks))
      BY ShownIs
    <3>. HIDE DEF fb, fa, reset, shown
    <3>. QED
      BY <2>2, <3>1, <3>2
  <2>. QED
    BY <2>1, <2>2
<1>. HIDE DEF b, a, fb, fa
<1>4. /\ Keeps(bids', gb) /\ Keeps(asks', ga)
      /\ Kept!Levels(bids') = gb /\ Kept!Levels(asks') = ga
      /\ Two(gb, ga) = Kept!Book!Inserted(Two(fb, fa), r)
  BY <1>1, <1>2, InsertRowShows
<1>. HIDE DEF gb, ga
<1>5. [s \in Kept!Side |-> Kept!Levels(IF s = "bid" THEN bids' ELSE asks')] = Two(gb, ga)
  BY <1>4, ShownIs
<1>6. /\ Kept!SampleTreaps(bids', asks') = Kept!Book!SampleBook(Two(gb, ga))
      /\ Kept!Book!SumDepth(Two(gb, ga), "bid") = bids'.totalDepth
      /\ Kept!Book!SumDepth(Two(gb, ga), "ask") = asks'.totalDepth
  BY <1>4, SameSample
<1>7. Two(gb, ga) = Kept!Book!Inserted(IF reset THEN Kept!Book!Empty ELSE shown, r)
  BY <1>3, <1>4
<1>8. warm' <=> \/ r[1] = "snapshot"
                \/ warm /\ ~ Kept!Book!Gap(r)
                \/ \A s \in Kept!Book!Side : Kept!Book!SumDepth(Two(gb, ga), s) >= WarmDepth
  <2>1. (\A s \in Kept!Book!Side : Kept!Book!SumDepth(Two(gb, ga), s) >= WarmDepth)
        <=> bids'.totalDepth >= WarmDepth /\ asks'.totalDepth >= WarmDepth
    BY <1>6, SameSides DEF Side
  <2>. QED
    BY <2>1 DEF Kept!ProcessOrderBookUpdate
<1>9. sample' = IF warm' THEN Kept!Book!SampleBook(Two(gb, ga)) ELSE Kept!Book!NoSample
  BY <1>6 DEF Kept!ProcessOrderBookUpdate
<1>. QED
  BY <1>5, <1>7, <1>8, <1>9 DEF Kept!ProcessOrderBookUpdate, Kept!Book!ProcessOrderBookUpdate

\* Rows of a payload are of the two sides.
LEMMA RowsShape ==
  ASSUME NEW new
  PROVE  /\ Kept!Book!DeltaRows(new) \subseteq Kind \X Side \X Price
         /\ Kept!Book!SnapshotRows(new) \subseteq Kind \X Side \X Price
BY SameSides DEF Kept!Book!DeltaRows, Kept!Book!SnapshotRows, Kept!Book!Rows, Kind

LEMMA KeptStep ==
  KeptInv /\ [Kept!Next]_(Kept!vars) => KeptInv' /\ [Kept!Book!Next]_(Kept!Book!vars)
<1>. SUFFICES ASSUME KeptInv, [Kept!Next]_(Kept!vars)
              PROVE  KeptInv' /\ [Kept!Book!Next]_(Kept!Book!vars)
  OBVIOUS
<1>0. /\ Keeps(bids, Kept!Levels(bids)) /\ Keeps(asks, Kept!Levels(asks))
      /\ market \in Market /\ seen \in Market /\ rows \subseteq Kind \X Side \X Price
  BY DEF KeptInv
<1>1. ASSUME Kept!Recorded PROVE KeptInv' /\ Kept!Book!Next
  <2>1. bids' = bids /\ asks' = asks
    BY <1>1 DEF Kept!Recorded, Kept!treaps
  <2>2. market' \in Market /\ seen' \in Market /\ rows' \subseteq Kind \X Side \X Price
    BY <1>0, <1>1, RowsShape DEF Kept!Recorded, Kept!Book!Snapshot, Kept!Book!Delta,
         Kept!Book!DeltaWithSnapshot, Kept!Book!Lose, Kept!Book!Read
  <2>3. Kept!Book!Next
    BY <1>1 DEF Kept!Recorded, Kept!Book!Next
  <2>. QED
    BY <1>0, <2>1, <2>2, <2>3 DEF KeptInv
<1>2. ASSUME NEW new \in Market, Kept!ResetDepth(new) PROVE KeptInv' /\ Kept!Book!Next
  <2>1. bids' = New /\ asks' = New /\ Kept!Book!ResetDepth(new)
    BY <1>2, SameNew DEF Kept!ResetDepth
  <2>2. market' \in Market /\ seen' \in Market /\ rows' \subseteq Kind \X Side \X Price
    BY <1>0, <2>1 DEF Kept!Book!ResetDepth
  <2>3. Kept!Book!Next
    BY <2>1 DEF Kept!Book!Next
  <2>4. Kept!Levels(New) = NoDepth
    BY KeepsNew, SameLevels
  <2>. QED
    BY <2>1, <2>2, <2>3, <2>4, KeepsNew DEF KeptInv
<1>3. ASSUME NEW r \in rows, Kept!ProcessOrderBookUpdate(r) PROVE KeptInv' /\ Kept!Book!Next
  <2>1. Kept!Book!ProcessOrderBookUpdate(r)
    BY <1>3, TreapFileStep
  <2>2. Keeps(bids', Kept!Levels(bids')) /\ Keeps(asks', Kept!Levels(asks'))
    <3>1. \E b, a : Keeps(b, Kept!Levels(b)) /\ Keeps(a, Kept!Levels(a)) /\ Kept!InsertRow(b, a, r)
      BY <1>0, <1>3, KeepsNew, SameNew, SameLevels DEF Kept!ProcessOrderBookUpdate
    <3>. QED
      BY <3>1, InsertRowKept
  <2>3. market' \in Market /\ seen' \in Market /\ rows' \subseteq Kind \X Side \X Price
    BY <1>0, <1>3 DEF Kept!ProcessOrderBookUpdate
  <2>4. Kept!Book!Next
    BY <2>1 DEF Kept!Book!Next
  <2>. QED
    BY <2>2, <2>3, <2>4 DEF KeptInv
<1>4. ASSUME NEW r \in rows, Kept!ProcessLiveUpdate(r) PROVE KeptInv' /\ Kept!Book!Next
  <2>1. Kept!Book!ProcessLiveUpdate(r)
    BY <1>4, TreapLiveStep
  <2>2. Keeps(bids', Kept!Levels(bids')) /\ Keeps(asks', Kept!Levels(asks'))
    <3>1. Kept!InsertRow(bids, asks, r)
      BY <1>4 DEF Kept!ProcessLiveUpdate
    <3>. QED
      BY <1>0, <3>1, InsertRowKept
  <2>3. market' \in Market /\ seen' \in Market /\ rows' \subseteq Kind \X Side \X Price
    BY <1>0, <1>4 DEF Kept!ProcessLiveUpdate
  <2>4. Kept!Book!Next
    BY <2>1 DEF Kept!Book!Next
  <2>. QED
    BY <2>2, <2>3, <2>4 DEF KeptInv
<1>5. ASSUME UNCHANGED Kept!vars PROVE KeptInv' /\ UNCHANGED Kept!Book!vars
  <2>1. /\ bids' = bids /\ asks' = asks /\ market' = market /\ seen' = seen /\ rows' = rows
    BY <1>5 DEF Kept!vars, Kept!treaps
  <2>2. KeptInv'
    BY <1>0, <2>1 DEF KeptInv
  <2>3. UNCHANGED Kept!Book!vars
    BY <1>5, <2>1 DEF Kept!vars, Kept!ids, Kept!Book!vars, Kept!Book!aggregator
  <2>. QED
    BY <2>2, <2>3
<1>. QED
  BY <1>1, <1>2, <1>3, <1>4, <1>5 DEF Kept!Next

\* The treaps implement the book (Refines), for every set of prices and
\* quantities and whatever priorities are drawn: lookups, best prices and the
\* running sums of depth are those of the levels, after any order of inserts,
\* replacements, removals and resets.
THEOREM TreapTheorem == Kept!Spec => Refines
<1>1. Kept!Spec => []KeptInv
  BY KeptInit, KeptStep, PTL DEF Kept!Spec
<1>. QED
  BY <1>1, KeptInit, KeptStep, PTL DEF Kept!Spec, Refines, Kept!Refines, Kept!Book!Spec
=============================================================================
