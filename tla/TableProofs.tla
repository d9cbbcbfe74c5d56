----------------------------- MODULE TableProofs -----------------------------
(***************************************************************************)
(* Proofs about the two tables: orderbook_bars and its upsert              *)
(* (OrderbookStore), price_bars and the price cache before it              *)
(* (PriceCache).                                                           *)
(***************************************************************************)
EXTENDS OrderbookStore, PriceCache, WellFoundedInduction, TLAPS

-----------------------------------------------------------------------------
(***************************************************************************)
(* What the upsert guarantees for every set of minutes, sources and bars.  *)
(* The inductive invariant is RowInv of every row: the conjuncts lean on   *)
(* each other only through "a minute without a row has no history", which  *)
(* a fresh insert needs.                                                   *)
(***************************************************************************)

\* What is true of a row r whose submitted bars are W.
RowInv(r, W) ==
  /\ (r.cov = 1) <=> (r.liq # Null)
  /\ \A b \in W : b.tc <= r.tc
  /\ \E b \in W : b.tc = r.tc /\ b.trades = r.trades
  /\ r.fp # Null /\ r.fp # r.trades => \E b \in W : b.tc = r.tc /\ b.trades = r.trades /\ b.fp = Null

IInv ==
  /\ TypeOK
  /\ \A m \in Minute : /\ Present(m) => RowInv(rows[m], written[m])
                       /\ ~ Present(m) => written[m] = {}

\* The set of bars a batch holds for a minute, its kept bar having the most
\* trades: what IsKept gives the upsert.
Keeps(b, B) == b \in B /\ \A c \in B : c.tc <= b.tc

-----------------------------------------------------------------------------
LEMMA BarFacts == \A b \in Bar : b \in Row /\ WellFormed(b)
  BY BarAssumption

LEMMA MergeType ==
  ASSUME NEW r \in Row, NEW b \in Row
  PROVE  Merge(r, b) \in Row
  BY DEF Row, Merge, Greatest, Coalesce, Wins

LEMMA KeptIsLargest ==
  ASSUME NEW n \in 1..MaxBatch, NEW s \in [1..n -> Bar], NEW i \in 1..n,
         IsKept(s, i)
  PROVE  Keeps(s[i], {s[j] : j \in DOMAIN s})
  <1>1. \A j \in 1..n : s[j] \in Row
    BY BarFacts
  <1>2. \A j \in 1..n : s[j].tc <= s[i].tc
    BY <1>1 DEF IsKept, Better, Row
  <1> QED BY <1>2 DEF Keeps

LEMMA FreshRow ==
  ASSUME NEW b \in Bar, NEW B \in SUBSET Bar, Keeps(b, B)
  PROVE  b \in Row /\ RowInv(b, B)
  BY BarFacts DEF Keeps, RowInv, WellFormed

LEMMA MergedRow ==
  ASSUME NEW r \in Row, NEW W \in SUBSET Bar, RowInv(r, W),
         NEW b \in Bar, NEW B \in SUBSET Bar, Keeps(b, B)
  PROVE  RowInv(Merge(r, b), W \cup B)
  <1> DEFINE q == Merge(r, b)
  <1>1. b \in Row /\ WellFormed(b)
    BY BarFacts
  <1>2. r.tc \in Nat /\ b.tc \in Nat /\ r.cov \in {0, 1} /\ b.cov \in {0, 1}
    BY <1>1 DEF Row
  <1>3. (q.cov = 1) <=> (q.liq # Null)
    BY <1>1, <1>2 DEF RowInv, WellFormed, Merge, Greatest, Coalesce
  <1>4. q.tc >= r.tc /\ q.tc >= b.tc /\ q.tc \in Nat
    BY <1>2 DEF Merge, Greatest
  <1>5. \A c \in W \cup B : c.tc <= q.tc
    <2>1. \A c \in W \cup B : c.tc \in Nat
      BY BarFacts DEF Row
    <2> QED BY <1>2, <1>4, <2>1 DEF RowInv, Keeps
  <1>6. \E c \in W \cup B : c.tc = q.tc /\ c.trades = q.trades
    <2>1. CASE Wins(r, b) /\ b.tc > 0
      BY <2>1, <1>2 DEF Wins, Merge, Greatest, Keeps
    <2>2. CASE ~ (Wins(r, b) /\ b.tc > 0)
      <3>1. q.tc = r.tc /\ q.trades = r.trades
        BY <2>2, <1>2 DEF Wins, Merge, Greatest
      <3> QED BY <3>1 DEF RowInv
    <2> QED BY <2>1, <2>2
  <1>7. ASSUME q.fp # Null, q.fp # q.trades
        PROVE  \E c \in W \cup B : c.tc = q.tc /\ c.trades = q.trades /\ c.fp = Null
    <2>1. CASE Wins(r, b) /\ b.tc > 0
      <3>1. q.tc = b.tc /\ q.trades = b.trades
        BY <2>1, <1>2 DEF Wins, Merge, Greatest
      <3>2. b.fp = Null
        BY <1>1, <1>7, <2>1 DEF Merge, WellFormed
      <3> QED BY <3>1, <3>2 DEF Keeps
    <2>2. CASE ~ (Wins(r, b) /\ b.tc > 0)
      <3>1. q.tc = r.tc /\ q.trades = r.trades
        BY <2>2, <1>2 DEF Wins, Merge, Greatest
      <3>2. q.fp = r.fp
        BY <1>1, <1>2, <2>2 DEF Merge, Wins, WellFormed
      <3> QED BY <1>7, <3>1, <3>2 DEF RowInv
    <2> QED BY <2>1, <2>2
  <1> QED BY <1>3, <1>5, <1>6, <1>7 DEF RowInv

\* The upsert of one minute, whether or not it has a row.
LEMMA UpsertedRow ==
  ASSUME IInv, NEW m \in Minute,
         NEW b \in Bar, NEW B \in SUBSET Bar, Keeps(b, B)
  PROVE  /\ Upsert(m, b) \in Row
         /\ RowInv(Upsert(m, b), written[m] \cup B)
  <1>1. rows[m] \in Row \cup {NoRow} /\ written[m] \in SUBSET Bar
    BY DEF IInv, TypeOK
  <1>2. CASE Present(m)
    <2>1. rows[m] \in Row /\ RowInv(rows[m], written[m])
      BY <1>1, <1>2 DEF IInv, Present
    <2> QED BY <1>1, <1>2, <2>1, MergedRow, MergeType, BarFacts DEF Upsert
  <1>3. CASE ~ Present(m)
    <2>1. written[m] = {}
      BY <1>3 DEF IInv
    <2> QED BY <1>3, <2>1, FreshRow DEF Upsert
  <1> QED BY <1>2, <1>3

-----------------------------------------------------------------------------
\* A batch step, in the form the invariants use: every minute of the batch is
\* upserted with a bar at least as large as the others the batch had for it.
BatchStep(ms, kept, all) ==
  /\ ms \in SUBSET Minute
  /\ \A m \in ms : kept[m] \in Bar /\ all[m] \in SUBSET Bar /\ Keeps(kept[m], all[m])
  /\ rows' = [m \in Minute |-> IF m \in ms THEN Upsert(m, kept[m]) ELSE rows[m]]
  /\ written' = [m \in Minute |-> IF m \in ms THEN written[m] \cup all[m] ELSE written[m]]

LEMMA InsertStep ==
  ASSUME InsertOrderbookBars
  PROVE  \E ms, kept, all : BatchStep(ms, kept, all)
  <1>1. PICK ms \in SUBSET Minute \ {{}} :
          \E batch \in [ms -> Submission] :
            /\ rows' = [m \in Minute |-> IF m \in ms THEN Upsert(m, batch[m].kept)
                                                     ELSE rows[m]]
            /\ written' = [m \in Minute |-> IF m \in ms THEN written[m] \cup batch[m].all
                                                        ELSE written[m]]
    BY DEF InsertOrderbookBars
  <1>2. PICK batch \in [ms -> Submission] :
            /\ rows' = [m \in Minute |-> IF m \in ms THEN Upsert(m, batch[m].kept)
                                                     ELSE rows[m]]
            /\ written' = [m \in Minute |-> IF m \in ms THEN written[m] \cup batch[m].all
                                                        ELSE written[m]]
    BY <1>1
  <1> DEFINE k == [m \in ms |-> batch[m].kept]
             a == [m \in ms |-> batch[m].all]
  <1>3. ASSUME NEW m \in ms
        PROVE  k[m] \in Bar /\ a[m] \in SUBSET Bar /\ Keeps(k[m], a[m])
    <2>1. PICK bars \in Batch : \E i \in DOMAIN bars :
            /\ IsKept(bars, i)
            /\ batch[m] = [all |-> {bars[j] : j \in DOMAIN bars}, kept |-> bars[i]]
      <3>1. batch[m] \in Submission
        OBVIOUS
      <3> QED BY <3>1 DEF Submission
    <2>2. PICK n \in 1..MaxBatch : bars \in [1..n -> Bar]
      BY <2>1 DEF Batch
    <2>3. PICK i \in 1..n :
            /\ IsKept(bars, i)
            /\ batch[m] = [all |-> {bars[j] : j \in DOMAIN bars}, kept |-> bars[i]]
      BY <2>1, <2>2
    <2>4. Keeps(bars[i], {bars[j] : j \in DOMAIN bars})
      BY <2>2, <2>3, KeptIsLargest
    <2>5. bars[i] \in Bar /\ {bars[j] : j \in DOMAIN bars} \in SUBSET Bar
      BY <2>2
    <2>6. k[m] = bars[i] /\ a[m] = {bars[j] : j \in DOMAIN bars}
      BY <2>3
    <2> HIDE DEF k, a
    <2> QED BY <2>4, <2>5, <2>6
  <1>4. rows' = [m \in Minute |-> IF m \in ms THEN Upsert(m, k[m]) ELSE rows[m]]
    BY <1>2
  <1>5. written' = [m \in Minute |-> IF m \in ms THEN written[m] \cup a[m]
                                                 ELSE written[m]]
    BY <1>2
  <1>6. ms \in SUBSET Minute
    OBVIOUS
  <1> HIDE DEF k, a
  <1>7. BatchStep(ms, k, a)
    BY <1>3, <1>4, <1>5, <1>6 DEF BatchStep
  <1> QED BY <1>7

-----------------------------------------------------------------------------
\* An update of the liquidation columns keeps the trade columns of the row.
LEMMA LiqColumnsRow ==
  ASSUME NEW r \in Row, NEW W \in SUBSET Bar, RowInv(r, W),
         NEW src \in Source \cup {Null}, NEW c \in {0, 1},
         (c = 1) <=> (src # Null)
  PROVE  /\ [r EXCEPT !.liq = src, !.cov = c] \in Row
         /\ RowInv([r EXCEPT !.liq = src, !.cov = c], W)
  BY DEF Row, RowInv

\* IInv speaks of each minute alone; a step that keeps it minute by minute
\* keeps it.
LEMMA ByMinute ==
  ASSUME IInv,
         \E r, w : rows' = [m \in Minute |-> r[m]] /\ written' = [m \in Minute |-> w[m]],
         \A m \in Minute :
           \/ /\ rows'[m] \in Row /\ written'[m] \in SUBSET Bar
              /\ RowInv(rows'[m], written'[m])
           \/ rows'[m] = NoRow /\ written'[m] = {}
           \/ rows'[m] = rows[m] /\ written'[m] = written[m]
  PROVE  IInv'
  <1>1. TypeOK'
    BY DEF IInv, TypeOK
  <1>2. ASSUME NEW m \in Minute
        PROVE  /\ Present(m)' => RowInv(rows'[m], written'[m])
               /\ ~ Present(m)' => written'[m] = {}
    BY NoRowAssumption DEF IInv, Present
  <1> QED BY <1>1, <1>2 DEF IInv

LEMMA InductiveStep == IInv /\ [Next]_vars => IInv'
  <1> SUFFICES ASSUME IInv, [Next]_vars PROVE IInv'
    OBVIOUS
  <1> USE DEF Present
  <1>0. \A m \in Minute : rows[m] \in Row \cup {NoRow} /\ written[m] \in SUBSET Bar
    BY DEF IInv, TypeOK
  <1>1. CASE InsertOrderbookBars
    <2>1. PICK ms, kept, all : BatchStep(ms, kept, all)
      BY <1>1, InsertStep
    <2>2. ASSUME NEW m \in ms
          PROVE  /\ rows'[m] \in Row /\ written'[m] \in SUBSET Bar
                 /\ RowInv(rows'[m], written'[m])
      <3>1. rows'[m] = Upsert(m, kept[m]) /\ written'[m] = written[m] \cup all[m]
        BY <2>1 DEF BatchStep
      <3> QED BY <1>0, <2>1, <3>1, UpsertedRow DEF BatchStep
    <2>3. \A m \in Minute \ ms : rows'[m] = rows[m] /\ written'[m] = written[m]
      BY <2>1 DEF BatchStep
    <2>4. \E r, w : rows' = [m \in Minute |-> r[m]] /\ written' = [m \in Minute |-> w[m]]
      <3>1. /\ rows' = [m \in Minute |-> rows'[m]]
            /\ written' = [m \in Minute |-> written'[m]]
        BY <2>1 DEF BatchStep
      <3> QED BY <3>1
    <2> HIDE DEF Present
    <2>5. ms \in SUBSET Minute
      BY <2>1 DEF BatchStep
    <2> QED BY <2>2, <2>3, <2>4, <2>5, ByMinute
  <1>2. CASE DeleteOrderbookBars
    <2>1. PICK start \in Bound, end \in Bound :
            /\ rows' = [m \in Minute |->
                  IF m \in {n \in Minute : start <= n /\ n < end} THEN NoRow ELSE rows[m]]
            /\ written' = [m \in Minute |->
                  IF m \in {n \in Minute : start <= n /\ n < end} THEN {} ELSE written[m]]
      BY <1>2 DEF DeleteOrderbookBars
    <2>2. \A m \in Minute : \/ rows'[m] = NoRow /\ written'[m] = {}
                            \/ rows'[m] = rows[m] /\ written'[m] = written[m]
      BY <2>1
    <2>3. \E r, w : rows' = [m \in Minute |-> r[m]] /\ written' = [m \in Minute |-> w[m]]
      <3>1. /\ rows' = [m \in Minute |-> rows'[m]]
            /\ written' = [m \in Minute |-> written'[m]]
        BY <2>1
      <3> QED BY <3>1
    <2> QED BY <2>2, <2>3, ByMinute
  <1>3. CASE SetLiqUnknownRange
    <2>1. PICK start \in Bound, end \in Bound :
            /\ rows' = [m \in Minute |->
                  IF start <= m /\ m < end /\ rows[m] # NoRow
                  THEN [rows[m] EXCEPT !.liq = Null, !.cov = 0] ELSE rows[m]]
            /\ written' = written
      BY <1>3 DEF SetLiqUnknownRange
    <2>2. ASSUME NEW m \in Minute, rows[m] # NoRow
          PROVE  /\ [rows[m] EXCEPT !.liq = Null, !.cov = 0] \in Row
                 /\ RowInv([rows[m] EXCEPT !.liq = Null, !.cov = 0], written[m])
      <3>1. rows[m] \in Row /\ RowInv(rows[m], written[m])
        BY <1>0, <2>2 DEF IInv
      <3>2. Null \in Source \cup {Null} /\ 0 \in {0, 1} /\ ((0 = 1) <=> (Null # Null))
        OBVIOUS
      <3>3. written[m] \in SUBSET Bar
        BY <1>0
      <3> QED BY <3>1, <3>2, <3>3, LiqColumnsRow
    <2>3. \A m \in Minute :
            \/ /\ rows'[m] \in Row /\ written'[m] \in SUBSET Bar
               /\ RowInv(rows'[m], written'[m])
            \/ rows'[m] = rows[m] /\ written'[m] = written[m]
      BY <1>0, <2>1, <2>2
    <2>4. \E r, w : rows' = [m \in Minute |-> r[m]] /\ written' = [m \in Minute |-> w[m]]
      <3>1. /\ rows' = [m \in Minute |-> rows'[m]]
            /\ written' = [m \in Minute |-> written'[m]]
        BY <2>1 DEF IInv, TypeOK
      <3> QED BY <3>1
    <2> QED BY <2>3, <2>4, ByMinute
  <1>4. CASE SetLiqBars
    <2>1. PICK ts \in SUBSET Minute, src \in Source :
            /\ rows' = [m \in Minute |->
                  IF m \in ts /\ rows[m] # NoRow
                  THEN [rows[m] EXCEPT !.liq = src, !.cov = 1] ELSE rows[m]]
            /\ written' = written
      BY <1>4 DEF SetLiqBars
    <2>2. ASSUME NEW m \in Minute, rows[m] # NoRow
          PROVE  /\ [rows[m] EXCEPT !.liq = src, !.cov = 1] \in Row
                 /\ RowInv([rows[m] EXCEPT !.liq = src, !.cov = 1], written[m])
      <3>1. rows[m] \in Row /\ RowInv(rows[m], written[m])
        BY <1>0, <2>2 DEF IInv
      <3>2. src # Null
        BY NullAssumption
      <3> QED BY <1>0, <3>1, <3>2, LiqColumnsRow
    <2>3. \A m \in Minute :
            \/ /\ rows'[m] \in Row /\ written'[m] \in SUBSET Bar
               /\ RowInv(rows'[m], written'[m])
            \/ rows'[m] = rows[m] /\ written'[m] = written[m]
      BY <1>0, <2>1, <2>2
    <2>4. \E r, w : rows' = [m \in Minute |-> r[m]] /\ written' = [m \in Minute |-> w[m]]
      <3>1. /\ rows' = [m \in Minute |-> rows'[m]]
            /\ written' = [m \in Minute |-> written'[m]]
        BY <2>1 DEF IInv, TypeOK
      <3> QED BY <3>1
    <2> QED BY <2>3, <2>4, ByMinute
  <1>5. CASE UNCHANGED vars
    BY <1>5 DEF vars, IInv, TypeOK, RowInv
  <1> QED BY <1>1, <1>2, <1>3, <1>4, <1>5 DEF Next

LEMMA Inductive == Spec => []IInv
  <1>1. Init => IInv
    BY DEF Init, IInv, TypeOK, Present
  <1> QED BY <1>1, InductiveStep, PTL DEF Spec

-----------------------------------------------------------------------------
\* Every row and every submitted bar has the shape of the table.
THEOREM TypeCorrect == Spec => []TypeOK
  <1>1. IInv => TypeOK
    BY DEF IInv
  <1> QED BY <1>1, Inductive, PTL

\* No mix of InsertOrderbookBars, SetLiqBars, SetLiqUnknownRange and
\* DeleteOrderbookBars yields a covered row with NULL volumes, or volumes in
\* an uncovered row.
THEOREM CoverageTheorem == Spec => []CoveredIffVolumes
  <1>1. IInv => CoveredIffVolumes
    BY DEF IInv, CoveredIffVolumes, RowInv
  <1> QED BY <1>1, Inductive, PTL

\* The trade columns of a row always come from a submitted bar with the most
\* trades, for any number of writers and batches in any order.
THEOREM LargestBarTheorem == Spec => []LargestBarWins
  <1>1. IInv => LargestBarWins
    BY DEF IInv, LargestBarWins, RowInv
  <1> QED BY <1>1, Inductive, PTL

-----------------------------------------------------------------------------
\* A row whose footprint and VWAP come from different bars has its VWAP from
\* one that counted trades and had no footprint; every other combination the
\* two guards of the upsert could make is excluded.
THEOREM OnePopulationTheorem == Spec => []OnePopulation
  <1>1. IInv => OnePopulation
    BY DEF IInv, OnePopulation, RowInv
  <1> QED BY <1>1, Inductive, PTL

-----------------------------------------------------------------------------
\* Whatever call runs next, a row that survives it keeps its trades and its
\* open interest, and loses coverage only to SetLiqUnknownRange.
THEOREM UpsertOnlyAddsTheorem == Spec => UpsertOnlyAdds
  <1> DEFINE Adds(m) == Present(m) /\ written'[m] # {} =>
                          /\ rows'[m].tc >= rows[m].tc
                          /\ rows[m].oi # Null => rows'[m].oi # Null
                          /\ rows'[m].cov < rows[m].cov => UNCHANGED written
  <1>1. ASSUME IInv, Next, NEW m \in Minute, Present(m), written'[m] # {}
        PROVE  Adds(m)
    <2>1. rows[m] \in Row
      BY <1>1 DEF IInv, TypeOK, Present
    <2>2. rows[m].tc \in Nat /\ rows[m].cov \in {0, 1}
      BY <2>1 DEF Row
    <2>3. CASE rows'[m] = rows[m]
      BY <2>2, <2>3
    <2>4. CASE InsertOrderbookBars /\ rows'[m] # rows[m]
      <3>1. PICK b \in Bar : rows'[m] = Merge(rows[m], b)
        BY <1>1, <2>4, InsertStep DEF BatchStep, Upsert
      <3>2. b.tc \in Nat /\ b.cov \in {0, 1}
        BY BarFacts DEF Row
      <3> QED BY <2>2, <3>1, <3>2 DEF Merge, Greatest, Coalesce
    <2>5. CASE DeleteOrderbookBars /\ rows'[m] # rows[m]
      BY <1>1, <2>5 DEF DeleteOrderbookBars
    <2>6. CASE SetLiqUnknownRange /\ rows'[m] # rows[m]
      <3>1. rows'[m] = [rows[m] EXCEPT !.liq = Null, !.cov = 0] /\ UNCHANGED written
        BY <2>6 DEF SetLiqUnknownRange
      <3> QED BY <2>1, <2>2, <3>1 DEF Row
    <2>7. CASE SetLiqBars /\ rows'[m] # rows[m]
      <3>1. PICK src \in Source : rows'[m] = [rows[m] EXCEPT !.liq = src, !.cov = 1]
        BY <2>7 DEF SetLiqBars
      <3> QED BY <2>1, <2>2, <3>1 DEF Row
    <2> QED BY <1>1, <2>3, <2>4, <2>5, <2>6, <2>7 DEF Next
  <1>2. IInv /\ [Next]_vars => [\A m \in Minute : Adds(m)]_vars
    BY <1>1
  <1> QED BY <1>2, Inductive, PTL DEF Spec, UpsertOnlyAdds

-----------------------------------------------------------------------------
(***************************************************************************)
(* The price cache, for every set of ranges and every length of days,      *)
(* months and pages.                                                       *)
(*                                                                         *)
(* A bar the server has answered stays Covered: it has a row, or the       *)
(* overwriting process has it in hand, or its insert failed.  What that    *)
(* needs of the process is that it deletes no minute it does not hold:     *)
(* every part it fetches is an interval of keys (ZipIsInterval,            *)
(* PagesAreInterval), so that from its first to its last bar there is      *)
(* nothing but the part.  What the server has had and got while it is      *)
(* still fetching is Covered as well, which is what its answer and its     *)
(* caches are filled from.                                                 *)
(***************************************************************************)

Covered == Stored \cup Held \cup lost

IsInterval(F) == \E a, b \in Int : F = a..b

\* The first turn of f is the whole of an empty span.
FirstIsWhole(f) ==
  \E x \in f.turns : /\ x.at = Day(f.s) * DayLen /\ x.from = x.at /\ x.end = f.e
                     /\ \A y \in f.turns : y.from = x.from /\ x.at <= y.at /\ y.end = x.end

\* A fetch for an empty span within a month leaves nothing out: it has it
\* all, or the first turn is still to come.
LeavesNothingOut(f) ==
  f.sound /\ f.had = {} /\ f.s % DayLen # 0 /\ Month(f.s) = Month(f.e)
    => f.due \subseteq f.got \cup f.part \/ FirstIsWhole(f)

ReqSound ==
  req.on => req.s <= req.e /\ req.due \subseteq Traded(req.s, req.e) /\ LeavesNothingOut(req)

CacheInv ==
  /\ CacheTypeOK /\ AnswersStored /\ EmptySpanFetched
  /\ req.had \cup req.got \subseteq Covered
  /\ IsInterval(tool.part)
  /\ tool.on \/ (~tool.hole /\ tool.part = {})
  /\ ReqSound

-----------------------------------------------------------------------------
(* Days, months and intervals of keys *)

LEMMA CacheConstants ==
  /\ DayLen \in Nat \ {0} /\ MonthLen \in Nat \ {0} /\ Page \in Nat \ {0}
  /\ MonthLen % DayLen = 0
  /\ LastMinute \in Nat /\ FirstNow \in Nat /\ FirstNow <= LastMinute
  /\ Key \subseteq Nat /\ \A k \in Key : 1 <= k
BY ShapeAssumption DEF Key

LEMMA Times ==
  ASSUME NEW k \in Nat, NEW l \in Nat, NEW b \in Nat
  PROVE  /\ k * b \in Nat
         /\ k < l => k * b + b <= l * b
         /\ k <= l => k * b <= l * b
<1>1. k * b \in Nat /\ l * b \in Nat
  OBVIOUS
<1>2. k < l => k * b + b <= l * b
  OBVIOUS
<1>. QED
  BY <1>1, <1>2

LEMMA Division ==
  ASSUME NEW a \in Nat, NEW b \in Nat \ {0}
  PROVE  \E q \in Nat : a \div b = q /\ q * b <= a /\ a < q * b + b
OBVIOUS

\* The quotient is q when a is in the q-th part.
LEMMA Quotient ==
  ASSUME NEW a \in Nat, NEW b \in Nat \ {0}, NEW q \in Nat, q * b <= a, a < q * b + b
  PROVE  a \div b = q
<1>1. PICK p \in Nat : a \div b = p /\ p * b <= a /\ a < p * b + b
  BY Division
<1>2. p * b \in Nat /\ q * b \in Nat
  BY Times
<1>3. ~ (p < q)
  <2>1. p < q => p * b + b <= q * b
    BY Times
  <2>. QED
    BY <1>1, <1>2, <2>1
<1>4. ~ (q < p)
  <2>1. q < p => q * b + b <= p * b
    BY Times
  <2>. QED
    BY <1>1, <1>2, <2>1
<1>. QED
  BY <1>1, <1>3, <1>4

\* A day and a month have a first minute and come one after the other.
LEMMA DayOf ==
  ASSUME NEW t \in Nat
  PROVE  Day(t) \in Nat /\ Day(t) * DayLen \in Nat
         /\ Day(t) * DayLen <= t /\ t < Day(t) * DayLen + DayLen
<1>1. PICK q \in Nat : t \div DayLen = q /\ q * DayLen <= t /\ t < q * DayLen + DayLen
  BY CacheConstants, Division
<1>. QED
  BY <1>1, CacheConstants, Times DEF Day

LEMMA MonthOf ==
  ASSUME NEW t \in Nat
  PROVE  Month(t) \in Nat /\ Month(t) * MonthLen \in Nat
         /\ Month(t) * MonthLen <= t /\ t < Month(t) * MonthLen + MonthLen
<1>1. PICK q \in Nat : t \div MonthLen = q /\ q * MonthLen <= t /\ t < q * MonthLen + MonthLen
  BY CacheConstants, Division
<1>. QED
  BY <1>1, CacheConstants, Times DEF Month

LEMMA DayMonotone ==
  ASSUME NEW t \in Nat, NEW u \in Nat, t <= u
  PROVE  Day(t) <= Day(u)
<1>. DEFINE d == Day(t)
            f == Day(u)
<1>1. d \in Nat /\ f \in Nat /\ d * DayLen <= t /\ u < f * DayLen + DayLen
  BY DayOf
<1>. HIDE DEF d, f
<1>2. d * DayLen \in Nat /\ f * DayLen \in Nat /\ (f < d => f * DayLen + DayLen <= d * DayLen)
  BY <1>1, CacheConstants, Times
<1>3. ~ (f < d)
  BY <1>1, <1>2, CacheConstants
<1>4. d <= f
  BY <1>1, <1>3
<1>. QED
  BY <1>4 DEF d, f

\* First and last of an interval.
LEMMA Ends ==
  ASSUME NEW a \in Int, NEW b \in Int, a <= b
  PROVE  Min(a..b) = a /\ Max(a..b) = b
BY DEF Min, Max

\* The minutes the exchange has of a span are an interval.
LEMMA TradedIsInterval ==
  ASSUME NEW s \in Nat, NEW e \in Nat, now \in Nat
  PROVE  \E a, b \in Int : Traded(s, e) = a..b
<1>. DEFINE a == IF s > 1 THEN s ELSE 1
            c == IF e - 1 < now + 1 THEN e - 1 ELSE now + 1
            b == IF c < LastMinute + 1 THEN c ELSE LastMinute + 1
<1>1. a \in Int /\ b \in Int
  BY CacheConstants
<1>2. Traded(s, e) = a..b
  BY CacheConstants DEF Traded, Key
<1>. QED
  BY <1>1, <1>2

\* So are those of them that a monthly file has.
LEMMA ZipIsInterval ==
  ASSUME NEW t \in Nat, NEW r, r.from \in Nat, NEW e \in Nat, now \in Nat
  PROVE  \E a, b \in Int : FromZip(t, r, e) = a..b
<1>1. PICK a, b \in Int : Traded(r.from, e) = a..b
  BY TradedIsInterval
<1>. DEFINE m == Month(t)
<1>2. m \in Nat /\ m * MonthLen \in Nat
  BY MonthOf
<1>3. \A k \in Key : Month(k - 1) = m <=> m * MonthLen <= k - 1 /\ k - 1 < m * MonthLen + MonthLen
  <2>1. TAKE k \in Key
  <2>2. k - 1 \in Nat
    BY CacheConstants
  <2>3. Month(k - 1) = m => m * MonthLen <= k - 1 /\ k - 1 < m * MonthLen + MonthLen
    BY <2>2, MonthOf
  <2>4. m * MonthLen <= k - 1 /\ k - 1 < m * MonthLen + MonthLen => Month(k - 1) = m
    BY <1>2, <2>2, CacheConstants, Quotient DEF Month
  <2>. QED
    BY <2>3, <2>4
<1>. DEFINE x == IF a > m * MonthLen + 1 THEN a ELSE m * MonthLen + 1
            y == IF b < m * MonthLen + MonthLen THEN b ELSE m * MonthLen + MonthLen
<1>4. a..b \subseteq Key
  BY <1>1 DEF Traded
<1>. HIDE DEF m
<1>5. FromZip(t, r, e) = {k \in a..b : m * MonthLen <= k - 1 /\ k - 1 < m * MonthLen + MonthLen}
  BY <1>1, <1>3, <1>4 DEF FromZip, m
<1>6. x \in Int /\ y \in Int /\ FromZip(t, r, e) = x..y
  BY <1>2, <1>5, CacheConstants
<1>. QED
  BY <1>6

LEMMA PagesAreInterval ==
  ASSUME NEW t \in Nat, NEW n \in Nat, now \in Nat
  PROVE  \E a, b \in Int : FromPages(t, n) = a..b
<1>. DEFINE m == n * Page
<1>1. m \in Nat
  BY CacheConstants, Times
<1>. HIDE DEF m
<1>2. t + 1 \in Nat /\ t + 1 + m \in Nat
  BY <1>1
<1>3. \E a, b \in Int : Traded(t + 1, t + 1 + m) = a..b
  BY <1>2, TradedIsInterval
<1>. QED
  BY <1>3 DEF FromPages, m

LEMMA Remainder ==
  ASSUME NEW a \in Nat, NEW b \in Nat \ {0}
  PROVE  a % b \in Nat /\ a = (a \div b) * b + (a % b)
OBVIOUS

\* Enough pages are allowed for a month.
LEMMA PagesCover == Pages \in Nat /\ 1 <= Pages /\ Pages * Page \in Nat /\ MonthLen <= Pages * Page
<1>. DEFINE a == MonthLen + Page - 1
<1>1. a \in Nat /\ Page <= a
  BY CacheConstants
<1>2. PICK q \in Nat : a \div Page = q /\ q * Page <= a /\ a < q * Page + Page
  BY <1>1, CacheConstants, Division
<1>3. q * Page \in Nat /\ MonthLen <= q * Page
  BY <1>2, CacheConstants, Times
<1>4. q # 0
  <2>1. 0 * Page = 0
    BY CacheConstants
  <2>. QED
    BY <1>3, <2>1, CacheConstants
<1>5. Pages = q
  BY <1>2 DEF Pages
<1>. QED
  BY <1>3, <1>4, <1>5

-----------------------------------------------------------------------------
(* Days of a range, and the range that has no bar in the table *)

LEMMA AskedRange ==
  ASSUME NEW a \in Asked
  PROVE  /\ a[1] + 1 \in Nat /\ a[2] + 1 \in Nat
         /\ 1 <= a[1] + 1 /\ a[1] + 1 <= a[2] + 1 /\ a[2] + 1 <= LastMinute + 2
BY AskedAssumption, CacheConstants

LEMMA ChunkDaysKept ==
  ASSUME NEW s \in Nat, NEW e \in Nat, s <= e, e <= LastMinute + 2
  PROVE  Day(s) \in Days /\ ChunkDays(s, e) \subseteq Days
<1>1. LastMinute + 2 \in Nat
  BY CacheConstants
<1>2. Day(s) \in Nat /\ Day(e) \in Nat /\ Day(LastMinute + 2) \in Nat
  BY <1>1, DayOf
<1>3. Day(s) <= Day(e) /\ Day(e) <= Day(LastMinute + 2)
  BY <1>1, DayMonotone
<1>. QED
  BY <1>2, <1>3 DEF ChunkDays, Days

\* All days are missing: they are one run, which ends after the last.
LEMMA OneMissingRange ==
  ASSUME NEW s \in Nat, NEW e \in Nat, s <= e
  PROVE  MissingRanges({}, s, e) = {[from |-> Day(s) * DayLen, to |-> (Day(e) + 1) * DayLen]}
<1>. DEFINE x == Day(s)
            y == Day(e)
            M == Missing({}, s, e)
            Start == {d \in M : d - 1 \notin M}
            Stops(d) == {z \in x..(y + 1) : z > d /\ z \notin M}
<1>1. x \in Nat /\ y \in Nat /\ x <= y
  BY DayOf, DayMonotone
<1>2. M = x..y
  BY DEF Missing, DaysWithData
<1>3. MissingRanges({}, s, e) =
        {[from |-> d * DayLen,
          to |-> IF Min(Stops(d)) > y THEN Min(Stops(d)) * DayLen
                                      ELSE (Min(Stops(d)) + 1) * DayLen] : d \in Start}
  BY DEF MissingRanges
<1>. HIDE DEF x, y
<1>4. Start = {x}
  BY <1>1, <1>2
<1>5. Stops(x) = (y + 1)..(y + 1)
  BY <1>1, <1>2
<1>6. Min(Stops(x)) = y + 1
  <2>1. Min((y + 1)..(y + 1)) = y + 1
    BY <1>1, Ends
  <2>. HIDE DEF Stops
  <2>. QED
    BY <1>5, <2>1
<1>. HIDE DEF Start, Stops
<1>7. MissingRanges({}, s, e) = {[from |-> x * DayLen, to |-> (y + 1) * DayLen]}
  BY <1>1, <1>3, <1>4, <1>6
<1>. QED
  BY <1>7 DEF x, y

\* The month a range lies in has begun when the day it starts on begins,
\* because a month begins with a day.
LEMMA MonthBeginsBefore ==
  ASSUME NEW s \in Nat
  PROVE  Month(s) * MonthLen <= Day(s) * DayLen
<1>. DEFINE d == Day(s)
            m == Month(s)
            q == MonthLen \div DayLen
<1>1. d \in Nat /\ d * DayLen \in Nat /\ s < d * DayLen + DayLen
  BY DayOf
<1>2. m \in Nat /\ m * MonthLen \in Nat /\ m * MonthLen <= s
  BY MonthOf
<1>3. q \in Nat /\ MonthLen = q * DayLen
  <2>1. q \in Nat
    BY CacheConstants, Division
  <2>2. q * DayLen \in Nat /\ MonthLen = q * DayLen + (MonthLen % DayLen)
    BY <2>1, CacheConstants, Remainder, Times
  <2>. QED
    BY <2>1, <2>2, CacheConstants
<1>. HIDE DEF d, m, q
<1>4. m * q \in Nat
  BY <1>2, <1>3, Times
<1>5. m * MonthLen = (m * q) * DayLen
  BY <1>2, <1>3, CacheConstants
<1>6. d < m * q => d * DayLen + DayLen <= (m * q) * DayLen
  BY <1>1, <1>4, CacheConstants, Times
<1>7. ~ (d < m * q)
  BY <1>1, <1>2, <1>5, <1>6, CacheConstants
<1>8. m * q <= d => (m * q) * DayLen <= d * DayLen
  BY <1>1, <1>4, CacheConstants, Times
<1>9. m * MonthLen <= d * DayLen
  BY <1>1, <1>4, <1>5, <1>7, <1>8
<1>. QED
  BY <1>9 DEF d, m

\* The first turn of the loop starts with the day and brings all of a range
\* that lies in one month and does not begin with the end of a day.
LEMMA FirstTurnBringsAll ==
  ASSUME NEW s \in Nat, NEW e \in Nat, s <= e, s % DayLen # 0, Month(s) = Month(e),
         NEW r, r.from = Day(s) * DayLen
  PROVE  /\ Traded(s, e) \subseteq FromZip(Day(s) * DayLen, r, e)
         /\ Traded(s, e) \subseteq FromPages(Day(s) * DayLen, Pages)
<1>. DEFINE t == Day(s) * DayLen
            m == Month(s)
            c == Pages * Page
<1>1. Day(s) \in Nat /\ t \in Nat /\ t <= s /\ s < t + DayLen
  BY DayOf
<1>2. t # s
  <2>1. Day(s) = s \div DayLen
    BY DEF Day
  <2>2. s % DayLen \in Nat /\ s = t + (s % DayLen)
    BY <2>1, CacheConstants, Remainder
  <2>. QED
    BY <1>1, <2>2
<1>3. m \in Nat /\ m * MonthLen \in Nat /\ m * MonthLen <= t
  BY MonthOf, MonthBeginsBefore
<1>4. e < m * MonthLen + MonthLen
  BY MonthOf
<1>5. c \in Nat /\ MonthLen <= c /\ Pages \in Nat /\ Pages > 0
  BY PagesCover
<1>. HIDE DEF m, c
<1>6. Month(t) = m
  <2>1. t < m * MonthLen + MonthLen
    BY <1>1, <1>3, <1>4, CacheConstants
  <2>. QED
    BY <1>1, <1>3, <2>1, CacheConstants, Quotient DEF Month
<1>. HIDE DEF t
<1>9. ASSUME NEW k \in Traded(s, e)
      PROVE  k \in Traded(t, e) /\ Month(k - 1) = m /\ k \in Traded(t + 1, t + 1 + c)
  <2>1. k \in Key /\ k \in Nat /\ 1 <= k /\ s <= k /\ k < e /\ k - 1 <= now
    BY CacheConstants DEF Traded
  <2>2. t < s /\ k - 1 \in Nat /\ m * MonthLen <= k - 1 /\ k - 1 < m * MonthLen + MonthLen
    BY <1>1, <1>2, <1>3, <1>4, <2>1, CacheConstants
  <2>3. Month(k - 1) = m
    BY <1>3, <2>2, CacheConstants, Quotient DEF Month
  <2>4. t <= k /\ t + 1 <= k /\ k < t + 1 + c
    BY <1>1, <1>3, <1>4, <1>5, <2>1, <2>2, CacheConstants
  <2>. QED
    BY <2>1, <2>3, <2>4 DEF Traded
<1>10. r.from = t
  BY DEF t
<1>11. FromPages(t, Pages) = Traded(t + 1, t + 1 + c)
  BY DEF FromPages, c
<1>12. Traded(s, e) \subseteq FromZip(t, r, e)
  BY <1>6, <1>9, <1>10 DEF FromZip
<1>13. Traded(s, e) \subseteq FromPages(t, Pages)
  BY <1>9, <1>11
<1>. QED
  BY <1>12, <1>13 DEF t

-----------------------------------------------------------------------------
(* The turns of a fetch *)

LEMMA MonthStartsTimes ==
  ASSUME NEW r, r.from \in Nat, NEW end, NEW t \in MonthStarts(r, end)
  PROVE  t \in Nat
<1>1. PICK j \in 0..Month(LastMinute + 1) : t = Day(r.from) * DayLen + j * MonthLen
  BY DEF MonthStarts
<1>2. j \in Nat
  BY <1>1, CacheConstants, MonthOf
<1>3. j * MonthLen \in Nat /\ Day(r.from) * DayLen \in Nat
  BY <1>2, CacheConstants, DayOf, Times
<1>. QED
  BY <1>1, <1>3

LEMMA LeastOf ==
  ASSUME NEW T, T \subseteq Nat, T # {}
  PROVE  Min(T) \in T /\ \A c \in T : Min(T) <= c
<1>. DEFINE R == {ss \in Nat \X Nat : ss[1] < ss[2]}
<1>1. IsWellFoundedOn(R, Nat)
  BY NatLessThanWellFounded DEF OpToRel
<1>2. \E a \in T : \A c \in T : ~ (<<c, a>> \in R)
  <2>. HIDE DEF R
  <2>. QED
    BY <1>1, WFMin
<1>3. \A a \in Nat, c \in Nat : ~ (<<c, a>> \in R) => a <= c
  OBVIOUS
<1>. HIDE DEF R
<1>. QED
  BY <1>2, <1>3 DEF Min

LEMMA RangesTimes ==
  ASSUME NEW K, NEW s \in Nat, NEW e \in Nat, s <= e, NEW r \in MissingRanges(K, s, e)
  PROVE  r.from \in Nat /\ r.to \in Nat
<1>. DEFINE M == Missing(K, s, e)
            Start == {d \in M : d - 1 \notin M}
            Stops(d) == {z \in Day(s)..(Day(e) + 1) : z > d /\ z \notin M}
<1>1. Day(s) \in Nat /\ Day(e) \in Nat /\ Day(s) <= Day(e)
  BY DayOf, DayMonotone
<1>2. MissingRanges(K, s, e) =
        {[from |-> d * DayLen,
          to |-> IF Min(Stops(d)) > Day(e) THEN Min(Stops(d)) * DayLen
                                           ELSE (Min(Stops(d)) + 1) * DayLen] : d \in Start}
  BY DEF MissingRanges
<1>3. PICK d \in Start :
        r = [from |-> d * DayLen,
             to |-> IF Min(Stops(d)) > Day(e) THEN Min(Stops(d)) * DayLen ELSE (Min(Stops(d)) + 1) * DayLen]
  BY <1>2
<1>4. d \in Nat /\ d <= Day(e)
  BY <1>1 DEF Missing
<1>5. Day(e) + 1 \in Stops(d) /\ Stops(d) \subseteq Nat
  BY <1>1, <1>4 DEF Missing
<1>. DEFINE z == Min(Stops(d))
<1>6. z \in Nat
  <2>. HIDE DEF Stops
  <2>. QED
    BY <1>5, LeastOf
<1>7. r.from = d * DayLen /\ (r.to = z * DayLen \/ r.to = (z + 1) * DayLen)
  BY <1>3
<1>. HIDE DEF z
<1>8. z + 1 \in Nat
  BY <1>6
<1>. QED
  BY <1>4, <1>6, <1>7, <1>8, CacheConstants, Times

\* The turns are at minutes, and end where the range or the request does.
LEMMA TurnsTimes ==
  ASSUME NEW R, NEW e \in Nat, \A r \in R : r.from \in Nat /\ r.to \in Nat
  PROVE  Turns(R, e) \subseteq [at : Nat, from : Nat, end : Nat]
<1>1. SUFFICES ASSUME NEW x \in Turns(R, e)
               PROVE  x \in [at : Nat, from : Nat, end : Nat]
  OBVIOUS
<1>2. PICK r \in R : x \in {[at |-> t, from |-> r.from, end |-> Min({e, r.to})]
                             : t \in MonthStarts(r, Min({e, r.to}))}
  BY <1>1 DEF Turns
<1>3. PICK t \in MonthStarts(r, Min({e, r.to})) : x = [at |-> t, from |-> r.from, end |-> Min({e, r.to})]
  BY <1>2
<1>4. t \in Nat
  BY MonthStartsTimes
<1>5. Min({e, r.to}) \in Nat
  <2>1. {e, r.to} \subseteq Nat /\ {e, r.to} # {}
    OBVIOUS
  <2>2. Min({e, r.to}) \in {e, r.to}
    BY <2>1, LeastOf
  <2>. QED
    BY <2>1, <2>2
<1>. QED
  BY <1>3, <1>4, <1>5

\* What a turn may bring.
LEMMA OutcomeFacts ==
  ASSUME now \in Nat, NEW T \in SUBSET [at : Nat, from : Nat, end : Nat],
         NEW x \in T, NEW o \in Outcomes(T, x)
  PROVE  /\ o.left \subseteq T /\ o.part \subseteq Key /\ o.stored \subseteq Key /\ o.full \in BOOLEAN
         /\ IsInterval(o.part)
<1>1. x.at \in Nat /\ x.from \in Nat /\ x.end \in Nat
  OBVIOUS
<1>2. CASE o \in FromFile(T, x)
  <2>1. o = [left |-> T \ {x}, part |-> FromZip(x.at, x, x.end), stored |-> {}, full |-> TRUE]
    BY <1>2 DEF FromFile
  <2>2. IsInterval(FromZip(x.at, x, x.end))
    BY <1>1, ZipIsInterval DEF IsInterval
  <2>3. FromZip(x.at, x, x.end) \subseteq Key
    BY DEF FromZip, Traded
  <2>. QED
    BY <2>1, <2>2, <2>3
<1>3. CASE o \in FromExchange(T, x)
  <2>1. PICK n \in 0..Pages, J \in SUBSET (1..Pages) :
          o = [left |-> IF n = 0 THEN {y \in T : y.from # x.from} ELSE T \ {x},
               part |-> FromPages(x.at, n),
               stored |-> UNION {OnePage(x.at, i) : i \in J \cap 1..n},
               full |-> n = Pages]
    BY <1>3 DEF FromExchange
  <2>2. n \in Nat
    BY PagesCover
  <2>3. IsInterval(FromPages(x.at, n))
    BY <1>1, <2>2, PagesAreInterval DEF IsInterval
  <2>4. FromPages(x.at, n) \subseteq Key
    BY DEF FromPages, Traded
  <2>5. UNION {OnePage(x.at, i) : i \in J \cap 1..n} \subseteq Key
    <3>1. \A i \in J \cap 1..n : OnePage(x.at, i) \subseteq Key
      BY DEF OnePage, Traded
    <3>. QED
      BY <3>1
  <2>. QED
    BY <2>1, <2>3, <2>4, <2>5
<1>. QED
  BY <1>2, <1>3 DEF Outcomes

\* A fetch for an empty span begins with a turn for the whole of it.
LEMMA EmptyBegins ==
  ASSUME NEW f, f.s \in Nat, f.e \in Nat, f.s <= f.e, f.turns = Turns(MissingRanges({}, f.s, f.e), f.e)
  PROVE  FirstIsWhole(f)
<1>. DEFINE s == f.s
            e == f.e
            t == Day(s) * DayLen
            r == [from |-> t, to |-> (Day(e) + 1) * DayLen]
<1>1. s \in Nat /\ e \in Nat /\ s <= e
  OBVIOUS
<1>2. Day(s) \in Nat /\ t \in Nat /\ t <= s
  BY DayOf
<1>3. MissingRanges({}, s, e) = {r}
  BY OneMissingRange
<1>4. Min({e, r.to}) = e
  <2>1. Day(e) \in Nat /\ Day(e) * DayLen \in Nat /\ e < Day(e) * DayLen + DayLen
    BY DayOf
  <2>2. (Day(e) + 1) * DayLen = Day(e) * DayLen + DayLen
    BY <2>1, CacheConstants
  <2>3. r.to \in Nat /\ e < r.to
    BY <2>1, <2>2, CacheConstants
  <2>. QED
    BY <2>3 DEF Min
<1>5. Turns({r}, e) = {[at |-> u, from |-> t, end |-> e] : u \in MonthStarts(r, e)}
  BY <1>4 DEF Turns
<1>6. Day(r.from) * DayLen = t
  <2>1. r.from = t
    OBVIOUS
  <2>2. Day(t) = Day(s)
    BY <1>2, CacheConstants, Quotient DEF Day
  <2>. QED
    BY <2>1, <2>2
<1>7. MonthStarts(r, e) = {u \in {t + j * MonthLen : j \in 0..Month(LastMinute + 1)} : u <= e}
  BY <1>6 DEF MonthStarts
<1>. HIDE DEF t, r, s, e
<1>8. t \in MonthStarts(r, e)
  <2>1. 0 \in 0..Month(LastMinute + 1) /\ 0 * MonthLen = 0
    BY CacheConstants, MonthOf
  <2>2. t = t + 0 * MonthLen /\ t <= e
    BY <1>1, <1>2, <2>1
  <2>. QED
    BY <1>7, <2>1, <2>2
<1>9. \A u \in MonthStarts(r, e) : t <= u
  <2>1. TAKE u \in MonthStarts(r, e)
  <2>2. PICK j \in 0..Month(LastMinute + 1) : u = t + j * MonthLen
    BY <1>7, <2>1
  <2>3. j \in Nat
    BY <2>2, CacheConstants, MonthOf
  <2>4. j * MonthLen \in Nat
    BY <2>3, CacheConstants, Times
  <2>. QED
    BY <1>2, <2>2, <2>4
<1>10. f.turns = {[at |-> u, from |-> t, end |-> e] : u \in MonthStarts(r, e)}
  BY <1>3, <1>5 DEF s, e
<1>11. [at |-> t, from |-> t, end |-> e] \in f.turns
  BY <1>8, <1>10
<1>12. \A y \in f.turns : y.from = t /\ t <= y.at /\ y.end = e
  BY <1>9, <1>10
<1>13. t = Day(f.s) * DayLen /\ e = f.e
  BY DEF t, s, e
<1>. QED
  BY <1>11, <1>12, <1>13 DEF FirstIsWhole

\* That turn brings all of it, if the exchange answers.
LEMMA FirstIsAll ==
  ASSUME NEW f \in Fetch, FirstIsWhole(f), f.s <= f.e, f.s % DayLen # 0, Month(f.s) = Month(f.e),
         now \in Nat, NEW x \in Earliest(f.turns), NEW o \in Outcomes(f.turns, x), o.full
  PROVE  Traded(f.s, f.e) \subseteq o.part
<1>1. f.s \in Nat /\ f.e \in Nat /\ f.turns \subseteq [at : Nat, from : Nat, end : Nat]
  BY DEF Fetch
<1>. DEFINE t == Day(f.s) * DayLen
<1>2. x.at = t /\ x.from = t /\ x.end = f.e
  <2>1. PICK w \in f.turns : /\ w.at = t /\ w.from = w.at /\ w.end = f.e
                            /\ \A y \in f.turns : y.from = w.from /\ w.at <= y.at /\ y.end = w.end
    BY DEF FirstIsWhole
  <2>2. x \in f.turns /\ (x.from < w.from \/ (x.from = w.from /\ x.at <= w.at))
    BY DEF Earliest
  <2>. QED
    BY <1>1, <2>1, <2>2
<1>3. Traded(f.s, f.e) \subseteq FromZip(t, x, f.e) /\ Traded(f.s, f.e) \subseteq FromPages(t, Pages)
  BY <1>1, <1>2, FirstTurnBringsAll
<1>4. o \in FromFile(f.turns, x) => o.part = FromZip(x.at, x, x.end)
  BY DEF FromFile
<1>5. ASSUME o \in FromExchange(f.turns, x)
      PROVE  o.part = FromPages(x.at, Pages)
  <2>1. PICK n \in 0..Pages, J \in SUBSET (1..Pages) :
          o = [left |-> IF n = 0 THEN {y \in f.turns : y.from # x.from} ELSE f.turns \ {x},
               part |-> FromPages(x.at, n),
               stored |-> UNION {OnePage(x.at, i) : i \in J \cap 1..n},
               full |-> n = Pages]
    BY <1>5 DEF FromExchange
  <2>2. n = Pages /\ o.part = FromPages(x.at, n)
    BY <2>1
  <2>. QED
    BY <2>2
<1>. HIDE DEF t
<1>. QED
  BY <1>2, <1>3, <1>4, <1>5 DEF Outcomes

-----------------------------------------------------------------------------
(* Transactions on the table *)

\* A row only disappears into the hand of the overwriting process.
RowStep ==
  \A k \in Key : table[k] # NoBar /\ table'[k] # table[k] => table'[k] = NoBar /\ k \in Held'

\* A transaction after which the keys in X are covered, too.
TableStep(X) ==
  /\ table' \in [Key -> {"final", "partial", NoBar}] /\ lost' \subseteq Key
  /\ Covered \cup X \subseteq Covered'
  /\ RowStep

LEMMA HeldKeys == CacheTypeOK => Held \subseteq Key
BY DEF CacheTypeOK, Fetch, Held

LEMMA CommitKeeps ==
  ASSUME CacheTypeOK, NEW t \in [Key -> {"final", "partial", NoBar}], NEW X \in SUBSET Key, Commit(t, X),
         \A k \in Key : table[k] # NoBar /\ t[k] # table[k] => t[k] = NoBar /\ k \in Held',
         \A k \in Held : k \in X \/ k \in Held' \/ t[k] # NoBar
  PROVE  TableStep(X)
<1>1. table' = t /\ lost' = {k \in lost \cup X : t[k] = NoBar}
  BY DEF Commit
<1>2. lost \subseteq Key /\ Held \subseteq Key
  BY HeldKeys DEF CacheTypeOK
<1>3. Stored' = {k \in Key : t[k] # NoBar}
  BY <1>1 DEF Stored, Key
<1>4. Stored \subseteq Stored' \cup Held'
  BY <1>3 DEF Stored
<1>5. Held \subseteq Stored' \cup Held' \cup X
  BY <1>2, <1>3
<1>6. lost \cup X \subseteq Stored' \cup lost'
  BY <1>1, <1>2, <1>3
<1>7. Covered \cup X \subseteq Covered'
  BY <1>4, <1>5, <1>6 DEF Covered
<1>. QED
  BY <1>1, <1>2, <1>7 DEF TableStep, RowStep

\* Inserting adds rows and changes none.
LEMMA InsertAdds ==
  ASSUME CacheTypeOK, NEW F, NEW m
  PROVE  /\ Insert(F, m) \in [Key -> {"final", "partial", NoBar}]
         /\ \A k \in Key : table[k] # NoBar => Insert(F, m)[k] = table[k]
         /\ \A k \in Key : k \in F => Insert(F, m)[k] # NoBar
<1>1. \A k \in Key : Fetched(k, m) \in {"final", "partial"}
  BY DEF Fetched
<1>. QED
  BY <1>1, NoBarAssumption DEF Insert, CacheTypeOK

\* An insert, made or failed, of what is wanted or was in hand.
LEMMA InsertKeeps ==
  ASSUME CacheTypeOK, NEW F \in SUBSET Key, NEW m, Commit(Insert(F, m), {}) \/ Commit(table, F),
         Held \subseteq F \cup Held'
  PROVE  TableStep(F)
<1>1. CASE Commit(Insert(F, m), {})
  <2>. DEFINE t == Insert(F, m)
  <2>1. /\ t \in [Key -> {"final", "partial", NoBar}]
        /\ \A k \in Key : table[k] # NoBar => t[k] = table[k]
        /\ \A k \in Key : k \in F => t[k] # NoBar
    BY InsertAdds
  <2>2. Commit(t, {})
    BY <1>1
  <2>. HIDE DEF t
  <2>3. \A k \in Held : k \in Held' \/ t[k] # NoBar
    BY <2>1, HeldKeys
  <2>4. TableStep({})
    BY <2>1, <2>2, <2>3, CommitKeeps
  <2>5. F \subseteq Stored'
    BY <2>1, <2>2 DEF Commit, Stored, Key
  <2>. QED
    BY <2>4, <2>5 DEF TableStep, Covered
<1>2. CASE Commit(table, F)
  <2>1. table \in [Key -> {"final", "partial", NoBar}]
    BY DEF CacheTypeOK
  <2>. QED
    BY <1>2, <2>1, CommitKeeps
<1>. QED
  BY <1>1, <1>2

\* A turn of a fetch, the server's or the overwriting one.
LEMMA TurnStep ==
  ASSUME CacheTypeOK, NEW f \in Fetch, NEW f1, Turn(f, f1), Held \subseteq Held'
  PROVE  /\ TableStep({})
         /\ f.on /\ f.part = {}
         /\ f1 \in Fetch /\ IsInterval(f1.part)
         /\ f1.on = f.on /\ f1.s = f.s /\ f1.e = f.e /\ f1.had = f.had /\ f1.due = f.due /\ f1.got = f.got
         /\ f1.hole = f.hole
         /\ (f.s <= f.e /\ f.due \subseteq Traded(f.s, f.e) /\ LeavesNothingOut(f) => LeavesNothingOut(f1))
<1>1. f.on /\ f.part = {}
  BY DEF Turn
<1>2. PICK x \in Earliest(f.turns) : \E o \in Outcomes(f.turns, x) :
        /\ f1 = [f EXCEPT !.turns = o.left, !.part = o.part, !.open = now, !.sound = @ /\ o.full]
        /\ Commit(Insert(o.stored, now), {})
  BY DEF Turn
<1>. PICK o \in Outcomes(f.turns, x) :
       /\ f1 = [f EXCEPT !.turns = o.left, !.part = o.part, !.open = now, !.sound = @ /\ o.full]
       /\ Commit(Insert(o.stored, now), {})
  BY <1>2
<1>3. x \in f.turns /\ f.turns \in SUBSET [at : Nat, from : Nat, end : Nat]
  BY <1>2 DEF Earliest, Fetch
<1>4. now \in Nat
  BY CacheConstants DEF CacheTypeOK
<1>5. /\ o.left \subseteq f.turns /\ o.part \subseteq Key /\ o.stored \subseteq Key /\ o.full \in BOOLEAN
      /\ IsInterval(o.part)
  BY <1>2, <1>3, <1>4, OutcomeFacts
<1>6. TableStep({})
  <2>1. TableStep(o.stored)
    BY <1>2, <1>5, InsertKeeps
  <2>. QED
    BY <2>1 DEF TableStep
<1>7. f1 \in Fetch
  BY <1>2, <1>3, <1>4, <1>5 DEF Fetch
<1>8. /\ f1.on = f.on /\ f1.s = f.s /\ f1.e = f.e /\ f1.had = f.had /\ f1.due = f.due /\ f1.got = f.got
      /\ f1.hole = f.hole
  BY <1>2 DEF Fetch
<1>9. f1.part = o.part /\ f1.turns = o.left /\ f1.sound = (f.sound /\ o.full)
  BY <1>2 DEF Fetch
<1>10. ASSUME f.s <= f.e, f.due \subseteq Traded(f.s, f.e), LeavesNothingOut(f),
              f1.sound, f1.had = {}, f1.s % DayLen # 0, Month(f1.s) = Month(f1.e)
       PROVE  f1.due \subseteq f1.got \cup f1.part
  <2>1. f.sound /\ o.full /\ f.had = {} /\ f.s % DayLen # 0 /\ Month(f.s) = Month(f.e)
    BY <1>5, <1>8, <1>9, <1>10 DEF Fetch
  <2>2. CASE f.due \subseteq f.got \cup f.part
    BY <1>1, <1>8, <2>2
  <2>3. CASE FirstIsWhole(f)
    <3>1. Traded(f.s, f.e) \subseteq o.part
      BY <1>2, <1>4, <1>10, <2>1, <2>3, FirstIsAll
    <3>. QED
      BY <1>8, <1>9, <1>10, <3>1
  <2>. QED
    BY <1>10, <2>1, <2>2, <2>3 DEF LeavesNothingOut
<1>11. f.s <= f.e /\ f.due \subseteq Traded(f.s, f.e) /\ LeavesNothingOut(f) => LeavesNothingOut(f1)
  BY <1>10 DEF LeavesNothingOut
<1>. QED
  BY <1>1, <1>5, <1>6, <1>7, <1>8, <1>9, <1>11

-----------------------------------------------------------------------------
(* The steps *)

\* What the server has answered and keeps in memory stays covered.
LEMMA MemoryKept ==
  ASSUME CacheInv, TableStep({}), UNCHANGED <<chunks, higher, last>>
  PROVE  AnswersStored' /\ EmptySpanFetched'
<1>1. Covered \subseteq Covered'
  BY DEF TableStep
<1>2. AnswersStored'
  <2>1. /\ last.answer \subseteq Covered
        /\ \A d \in Days : chunks[d] \subseteq Covered
        /\ \A h \in higher : h.keys \subseteq Covered
    BY DEF CacheInv, AnswersStored, Covered
  <2>2. /\ last'.answer \subseteq Covered'
        /\ \A d \in Days : chunks'[d] \subseteq Covered'
        /\ \A h \in higher' : h.keys \subseteq Covered'
    BY <1>1, <2>1
  <2>. QED
    BY <2>2 DEF AnswersStored, Covered, Days, Day
<1>3. EmptySpanFetched'
  BY DEF CacheInv, EmptySpanFetched, Month
<1>. QED
  BY <1>2, <1>3

\* So does what the server has of the request it works at.
LEMMA RequestKept ==
  ASSUME CacheInv, TableStep({}), UNCHANGED req, now' = now \/ now' = now + 1
  PROVE  req'.had \cup req'.got \subseteq Covered' /\ ReqSound'
<1>1. req'.had \cup req'.got \subseteq Covered'
  BY DEF CacheInv, TableStep
<1>2. ASSUME req.on
      PROVE  /\ req.s <= req.e /\ req.due \subseteq Traded(req.s, req.e)' /\ LeavesNothingOut(req)
  <2>1. now \in Int /\ Key \subseteq Int
    BY CacheConstants DEF CacheInv, CacheTypeOK
  <2>2. Traded(req.s, req.e) \subseteq Traded(req.s, req.e)'
    BY <2>1 DEF Traded, Key
  <2>. QED
    BY <1>2, <2>2 DEF CacheInv, ReqSound
<1>3. ReqSound'
  BY <1>2 DEF ReqSound, LeavesNothingOut, FirstIsWhole, Traded, Key, Day, Month
<1>. QED
  BY <1>1, <1>3

\* A step of the server changes neither the clock nor the tool.
LEMMA BeginFetchStep ==
  ASSUME CacheInv, NEW kind \in {"1m", "intraday", "daily"}, NEW s \in Nat, NEW e \in Nat, s <= e,
         BeginFetch(kind, s, e), UNCHANGED <<now, table, tool, lost>>
  PROVE  /\ req' \in Fetch
         /\ req'.had \cup req'.got \subseteq Covered
         /\ req'.s <= req'.e /\ req'.due \subseteq Traded(req'.s, req'.e) /\ LeavesNothingOut(req')
<1>1. PICK read \in BOOLEAN :
        LET had == IF read THEN Between(Stored, s, e) ELSE {}
        IN req' = [NoFetch EXCEPT !.on = TRUE, !.kind = kind, !.s = s, !.e = e, !.had = had,
                                  !.due = Traded(s, e), !.sound = read,
                                  !.turns = Turns(MissingRanges(had, s, e), e)]
  BY DEF BeginFetch
<1>. DEFINE had == IF read THEN Between(Stored, s, e) ELSE {}
            T == Turns(MissingRanges(had, s, e), e)
<1>2. had \subseteq Key /\ had \subseteq Covered
  BY DEF Between, Stored, Covered
<1>3. T \subseteq [at : Nat, from : Nat, end : Nat]
  <2>1. \A r \in MissingRanges(had, s, e) : r.from \in Nat /\ r.to \in Nat
    BY RangesTimes
  <2>. QED
    BY <2>1, TurnsTimes
<1>4. Traded(s, e) \subseteq Key
  BY DEF Traded
<1>5. had = {} => T = Turns(MissingRanges({}, s, e), e)
  OBVIOUS
<1>6. req' = [NoFetch EXCEPT !.on = TRUE, !.kind = kind, !.s = s, !.e = e, !.had = had,
                             !.due = Traded(s, e), !.sound = read, !.turns = T]
  BY <1>1
<1>. HIDE DEF had, T
<1>7. req' \in Fetch
  BY <1>2, <1>3, <1>4, <1>6 DEF NoFetch, Fetch
<1>8. req'.s = s /\ req'.e = e /\ req'.had = had /\ req'.got = {} /\ req'.due = Traded(s, e) /\ req'.turns = T
  BY <1>6 DEF NoFetch
<1>9. LeavesNothingOut(req')
  <2>1. req'.had = {} => FirstIsWhole(req')
    BY <1>5, <1>8, EmptyBegins
  <2>. QED
    BY <2>1 DEF LeavesNothingOut
<1>. QED
  BY <1>2, <1>7, <1>8, <1>9

\* An answer that is in the table or in memory already.
LEMMA AnsweredStep ==
  ASSUME CacheInv, NEW s, NEW e, NEW A \in SUBSET Key, NEW how \in {"cache", "table"}, A \subseteq Covered,
         Answered(s, e, A, how, TRUE)
  PROVE  /\ last'.had \subseteq Key /\ last'.answer \subseteq Key /\ last'.answer \subseteq Covered
         /\ last'.how \in {"cache", "table"}
<1>1. last' = [s |-> s, e |-> e, had |-> Between(Stored, s, e), answer |-> A, due |-> Traded(s, e),
               how |-> how, sound |-> TRUE]
  BY DEF Answered
<1>. QED
  BY <1>1 DEF Between, Stored

\* A call is answered at once, or a fetch begins.
Answering ==
  /\ last'.had \subseteq Key /\ last'.answer \subseteq Key /\ last'.answer \subseteq Covered
  /\ last'.how \in {"cache", "table"} /\ UNCHANGED req

Beginning ==
  /\ UNCHANGED last
  /\ req' \in Fetch /\ req'.had \cup req'.got \subseteq Covered
  /\ req'.s <= req'.e /\ req'.due \subseteq Traded(req'.s, req'.e) /\ LeavesNothingOut(req')

LEMMA HistoryStep ==
  ASSUME CacheInv, NEW s \in Nat, NEW e \in Nat, s <= e, e <= LastMinute + 2,
         History1m(s, e) \/ HistoryIntraday(s, e) \/ HistoryDaily(s, e),
         UNCHANGED <<now, table, tool, lost>>
  PROVE  (Answering \/ Beginning) /\ calls' = calls + 1
<1>1. Between(Stored, s, e) \subseteq Key /\ Between(Stored, s, e) \subseteq Covered
  BY DEF Between, Stored, Covered
<1>2. Cached(s, e) \subseteq Key /\ Cached(s, e) \subseteq Covered
  <2>1. \A d \in ChunkDays(s, e) : d \in Days
    BY ChunkDaysKept
  <2>2. \A d \in Days : chunks[d] \subseteq Key /\ chunks[d] \subseteq Covered
    BY DEF CacheInv, CacheTypeOK, AnswersStored, Covered
  <2>. QED
    BY <2>1, <2>2 DEF Cached, Between
<1>3. \A h \in Hits(s, e) : h.keys \subseteq Key /\ h.keys \subseteq Covered
  BY DEF Hits, CacheInv, CacheTypeOK, AnswersStored, Covered
<1>4. ASSUME NEW A, A \subseteq Key, A \subseteq Covered, NEW how \in {"cache", "table"},
             Answered(s, e, A, how, TRUE), UNCHANGED req
      PROVE  Answering /\ calls' = calls + 1
  BY <1>4, AnsweredStep DEF Answering, Answered
<1>5. ASSUME NEW kind \in {"1m", "intraday", "daily"}, BeginFetch(kind, s, e)
      PROVE  Beginning /\ calls' = calls + 1
  BY <1>5, BeginFetchStep DEF Beginning, BeginFetch
<1>6. CASE History1m(s, e)
  BY <1>1, <1>2, <1>4, <1>5, <1>6 DEF History1m
<1>7. CASE HistoryIntraday(s, e)
  BY <1>1, <1>4, <1>5, <1>7 DEF HistoryIntraday
<1>8. CASE HistoryDaily(s, e)
  BY <1>3, <1>4, <1>5, <1>8 DEF HistoryDaily
<1>. QED
  BY <1>6, <1>7, <1>8

LEMMA GetHistoryStep ==
  ASSUME CacheInv, GetHistory
  PROVE  CacheInv' /\ RowStep
<1>1. PICK a \in Asked :
        \/ History1m(a[1] + 1, a[2] + 1)
        \/ HistoryIntraday(a[1] + 1, a[2] + 1)
        \/ HistoryDaily(a[1] + 1, a[2] + 1)
  BY DEF GetHistory
<1>2. UNCHANGED <<now, table, chunks, higher, tool, lost, lives>> /\ calls < MaxCalls
  BY DEF GetHistory
<1>. DEFINE s == a[1] + 1
            e == a[2] + 1
<1>3. s \in Nat /\ e \in Nat /\ s <= e /\ e <= LastMinute + 2
  BY AskedRange
<1>. HIDE DEF s, e
<1>4. (Answering \/ Beginning) /\ calls' = calls + 1
  <2>1. History1m(s, e) \/ HistoryIntraday(s, e) \/ HistoryDaily(s, e)
    BY <1>1 DEF s, e
  <2>. QED
    BY <1>2, <1>3, <2>1, HistoryStep
<1>5. Covered' = Covered /\ Held' = Held
  BY <1>2 DEF Covered, Stored, Held, Key
<1>6. TableStep({}) /\ RowStep
  BY <1>2, <1>5 DEF TableStep, RowStep, CacheInv, CacheTypeOK
<1>7. calls' \in 0..MaxCalls
  BY <1>2, <1>4, ShapeAssumption DEF CacheInv, CacheTypeOK
<1>8. IsInterval(tool'.part) /\ (tool'.on \/ (~tool'.hole /\ tool'.part = {}))
  BY <1>2 DEF CacheInv
<1>9. CASE Answering
  <2>1. CacheTypeOK'
    BY <1>2, <1>7, <1>9 DEF CacheInv, CacheTypeOK, Answering
  <2>2. AnswersStored'
    <3>1. /\ last'.answer \subseteq Covered'
          /\ \A d \in Days : chunks'[d] \subseteq Covered'
          /\ \A h \in higher' : h.keys \subseteq Covered'
      BY <1>2, <1>5, <1>9 DEF CacheInv, AnswersStored, Answering, Covered
    <3>. QED
      BY <3>1 DEF AnswersStored, Covered, Days, Day
  <2>3. EmptySpanFetched'
    BY <1>9 DEF Answering, EmptySpanFetched
  <2>4. req'.had \cup req'.got \subseteq Covered' /\ ReqSound'
    BY <1>2, <1>6, <1>9, RequestKept DEF Answering
  <2>. QED
    BY <1>6, <1>8, <2>1, <2>2, <2>3, <2>4 DEF CacheInv, IsInterval
<1>10. CASE Beginning
  <2>1. CacheTypeOK'
    BY <1>2, <1>7, <1>10 DEF CacheInv, CacheTypeOK, Beginning
  <2>2. AnswersStored' /\ EmptySpanFetched'
    BY <1>2, <1>6, <1>10, MemoryKept DEF Beginning
  <2>3. req'.had \cup req'.got \subseteq Covered'
    BY <1>5, <1>10 DEF Beginning
  <2>4. ReqSound'
    <3>1. req'.s <= req'.e /\ req'.due \subseteq Traded(req'.s, req'.e) /\ LeavesNothingOut(req')
      BY <1>10 DEF Beginning
    <3>. QED
      BY <1>2, <3>1 DEF ReqSound, Traded, Key, LeavesNothingOut, FirstIsWhole, Day, Month
  <2>. QED
    BY <1>6, <1>8, <2>1, <2>2, <2>3, <2>4 DEF CacheInv, IsInterval
<1>. QED
  BY <1>4, <1>9, <1>10

LEMMA ServerTurnStep ==
  ASSUME CacheInv, ServerTurn
  PROVE  CacheInv' /\ RowStep
<1>1. UNCHANGED <<now, chunks, higher, tool, last, calls, lives>> /\ Turn(req, req')
  BY DEF ServerTurn
<1>2. Held' = Held
  BY <1>1 DEF Held
<1>3. /\ TableStep({})
      /\ req.on /\ req.part = {}
      /\ req' \in Fetch
      /\ req'.s = req.s /\ req'.e = req.e /\ req'.had = req.had /\ req'.due = req.due /\ req'.got = req.got
      /\ (req.s <= req.e /\ req.due \subseteq Traded(req.s, req.e) /\ LeavesNothingOut(req)
           => LeavesNothingOut(req'))
  BY <1>1, <1>2, TurnStep DEF CacheInv, CacheTypeOK
<1>4. CacheTypeOK'
  BY <1>1, <1>3 DEF CacheInv, CacheTypeOK, TableStep
<1>5. AnswersStored' /\ EmptySpanFetched'
  BY <1>1, <1>3, MemoryKept
<1>6. req'.had \cup req'.got \subseteq Covered'
  BY <1>3 DEF CacheInv, TableStep
<1>7. req'.s <= req'.e /\ req'.due \subseteq Traded(req'.s, req'.e) /\ LeavesNothingOut(req')
  BY <1>3 DEF CacheInv, ReqSound
<1>8. ReqSound'
  BY <1>1, <1>7 DEF ReqSound, Traded, Key, LeavesNothingOut, FirstIsWhole, Day, Month
<1>. QED
  BY <1>1, <1>3, <1>4, <1>5, <1>6, <1>8 DEF CacheInv, IsInterval, TableStep

LEMMA ServerStoreStep ==
  ASSUME CacheInv, ServerStore
  PROVE  CacheInv' /\ RowStep
<1>1. UNCHANGED <<now, chunks, higher, tool, last, calls, lives>> /\ req' = Took
  BY DEF ServerStore
<1>2. req \in Fetch /\ req.part \in SUBSET Key
  BY DEF CacheInv, CacheTypeOK, Fetch
<1>3. Held' = Held
  BY <1>1 DEF Held
<1>4. TableStep(req.part)
  BY <1>2, <1>3, InsertKeeps DEF ServerStore, CacheInv
<1>5. TableStep({})
  BY <1>4 DEF TableStep
<1>6. /\ req' \in Fetch
      /\ req'.on = req.on /\ req'.s = req.s /\ req'.e = req.e /\ req'.had = req.had /\ req'.due = req.due
      /\ req'.sound = req.sound /\ req'.turns = req.turns
      /\ req'.part = {} /\ req'.got = req.got \cup req.part
  BY <1>1, <1>2 DEF Took, Fetch
<1>7. CacheTypeOK'
  BY <1>1, <1>4, <1>6 DEF CacheInv, CacheTypeOK, TableStep
<1>8. AnswersStored' /\ EmptySpanFetched'
  BY <1>1, <1>5, MemoryKept
<1>9. req'.had \cup req'.got \subseteq Covered'
  BY <1>4, <1>6 DEF CacheInv, TableStep
<1>10. LeavesNothingOut(req) => LeavesNothingOut(req')
  BY <1>6 DEF LeavesNothingOut, FirstIsWhole
<1>11. req'.on => req'.s <= req'.e /\ req'.due \subseteq Traded(req'.s, req'.e) /\ LeavesNothingOut(req')
  BY <1>6, <1>10 DEF CacheInv, ReqSound
<1>12. ReqSound'
  BY <1>1, <1>11 DEF ReqSound, Traded, Key, LeavesNothingOut, FirstIsWhole, Day, Month
<1>. QED
  BY <1>1, <1>4, <1>7, <1>8, <1>9, <1>12 DEF CacheInv, IsInterval, TableStep

LEMMA ServerAnswerStep ==
  ASSUME CacheInv, ServerAnswer
  PROVE  CacheInv' /\ RowStep
<1>. DEFINE A == Between(req.had \cup req.got, req.s, req.e)
<1>1. /\ UNCHANGED <<now, table, tool, lost, calls, lives>> /\ req' = NoFetch
      /\ req.on /\ req.turns = {} /\ req.part = {}
      /\ last' = [s |-> req.s, e |-> req.e, had |-> req.had, answer |-> A, due |-> req.due,
                  how |-> "fetch", sound |-> req.sound]
      /\ chunks' = chunks \/ chunks' = [chunks EXCEPT ![Day(req.s)] = A]
      /\ higher' = higher \/ higher' = SetHigherTfCache(req.s, req.e, A)
  BY DEF ServerAnswer
<1>2. req \in Fetch /\ req.had \subseteq Key /\ req.got \subseteq Key
  BY DEF CacheInv, CacheTypeOK, Fetch
<1>3. A \subseteq Key /\ A \subseteq Covered
  BY <1>2 DEF CacheInv, Between
<1>. HIDE DEF A
<1>4. Covered' = Covered
  BY <1>1 DEF Covered, Stored, Held, Key
<1>5. \A h \in higher' : h \in higher \/ (h.keys = A /\ A # {})
  BY <1>1 DEF SetHigherTfCache
<1>6. chunks' \in [Days -> SUBSET Key] /\ \A d \in Days : chunks'[d] = chunks[d] \/ chunks'[d] = A
  BY <1>1, <1>3 DEF CacheInv, CacheTypeOK
<1>7. last'.had \subseteq Key /\ last'.answer = A /\ last'.how = "fetch"
  BY <1>1, <1>2
<1>8. NoFetch \in Fetch
  BY DEF NoFetch, Fetch
<1>9. CacheTypeOK'
  BY <1>1, <1>3, <1>5, <1>6, <1>7, <1>8 DEF CacheInv, CacheTypeOK
<1>10. AnswersStored'
  <2>1. \A d \in Days : chunks[d] \subseteq Covered
    BY DEF CacheInv, AnswersStored, Covered
  <2>2. \A h \in higher : h.keys \subseteq Covered
    BY DEF CacheInv, AnswersStored, Covered
  <2>3. /\ last'.answer \subseteq Covered'
        /\ \A d \in Days : chunks'[d] \subseteq Covered'
        /\ \A h \in higher' : h.keys \subseteq Covered'
    BY <1>3, <1>4, <1>5, <1>6, <1>7, <2>1, <2>2
  <2>. QED
    BY <2>3 DEF AnswersStored, Covered, Days, Day
<1>11. EmptySpanFetched'
  <2>1. ASSUME req.sound, req.had = {}, req.s % DayLen # 0, Month(req.s) = Month(req.e)
        PROVE  req.due \subseteq A
    <3>1. req.due \subseteq req.got
      BY <1>1, <2>1 DEF CacheInv, ReqSound, LeavesNothingOut, FirstIsWhole
    <3>2. \A k \in req.due : req.s <= k /\ k < req.e
      BY <1>1 DEF CacheInv, ReqSound, Traded
    <3>. QED
      BY <3>1, <3>2 DEF A, Between
  <2>. QED
    BY <1>1, <2>1 DEF EmptySpanFetched, Month
<1>12. req'.had \cup req'.got \subseteq Covered' /\ ~req'.on
  BY <1>1 DEF NoFetch
<1>13. RowStep /\ IsInterval(tool'.part) /\ (tool'.on \/ (~tool'.hole /\ tool'.part = {}))
  BY <1>1 DEF RowStep, CacheInv
<1>14. ReqSound'
  BY <1>12 DEF ReqSound
<1>. QED
  BY <1>9, <1>10, <1>11, <1>12, <1>13, <1>14 DEF CacheInv, IsInterval

\* What a step of the overwriting process leaves to be shown.
LEMMA ToolKeeps ==
  ASSUME CacheInv, TableStep({}), UNCHANGED <<now, chunks, higher, req, last, lives>>,
         calls' \in 0..MaxCalls, tool' \in Fetch, IsInterval(tool'.part),
         tool'.on \/ (~tool'.hole /\ tool'.part = {})
  PROVE  CacheInv' /\ RowStep
<1>1. CacheTypeOK'
  BY DEF CacheInv, CacheTypeOK, TableStep
<1>2. AnswersStored' /\ EmptySpanFetched'
  BY MemoryKept
<1>3. req'.had \cup req'.got \subseteq Covered' /\ ReqSound'
  BY RequestKept
<1>. QED
  BY <1>1, <1>2, <1>3 DEF CacheInv, IsInterval, TableStep

LEMMA NoPart == IsInterval({})
<1>1. {} = 1..0
  OBVIOUS
<1>. QED
  BY <1>1 DEF IsInterval

LEMMA ToolBeginStep ==
  ASSUME CacheInv, ToolBegin
  PROVE  CacheInv' /\ RowStep
<1>1. PICK a \in Asked :
        tool' = [NoFetch EXCEPT !.on = TRUE, !.s = a[1] + 1, !.e = a[2] + 1,
                                !.turns = Turns({[from |-> a[1] + 1, to |-> a[2] + 1]}, a[2] + 1)]
  BY DEF ToolBegin
<1>. DEFINE s == a[1] + 1
            e == a[2] + 1
            T == Turns({[from |-> s, to |-> e]}, e)
<1>2. s \in Nat /\ e \in Nat
  BY AskedRange
<1>3. T \subseteq [at : Nat, from : Nat, end : Nat]
  <2>1. \A r \in {[from |-> s, to |-> e]} : r.from \in Nat /\ r.to \in Nat
    BY <1>2
  <2>. HIDE DEF s, e
  <2>. QED
    BY <1>2, <2>1, TurnsTimes
<1>4. tool' = [NoFetch EXCEPT !.on = TRUE, !.s = s, !.e = e, !.turns = T]
  BY <1>1
<1>. HIDE DEF s, e, T
<1>5. tool' \in Fetch /\ tool'.part = {} /\ ~tool'.hole /\ tool'.on
  BY <1>2, <1>3, <1>4 DEF NoFetch, Fetch
<1>6. UNCHANGED <<now, table, chunks, higher, req, last, lost, lives>> /\ calls' \in 0..MaxCalls
  BY ShapeAssumption DEF ToolBegin, CacheInv, CacheTypeOK
<1>7. Held = {}
  BY DEF ToolBegin, CacheInv, Held
<1>8. TableStep({})
  BY <1>6, <1>7 DEF TableStep, Covered, Stored, Key, RowStep, CacheInv, CacheTypeOK
<1>. QED
  BY <1>5, <1>6, <1>8, NoPart, ToolKeeps

LEMMA ToolTurnStep ==
  ASSUME CacheInv, ToolTurn
  PROVE  CacheInv' /\ RowStep
<1>1. UNCHANGED <<now, chunks, higher, req, last, calls, lives>> /\ Turn(tool, tool')
  BY DEF ToolTurn
<1>2. Held = {}
  BY <1>1 DEF Turn, Held
<1>3. TableStep({}) /\ tool.on /\ tool' \in Fetch /\ IsInterval(tool'.part) /\ tool'.on = tool.on
  BY <1>1, <1>2, TurnStep DEF CacheInv, CacheTypeOK
<1>4. calls' \in 0..MaxCalls
  BY <1>1 DEF CacheInv, CacheTypeOK
<1>. QED
  BY <1>1, <1>3, <1>4, ToolKeeps

\* The rows that are deleted are those of the part, which is an interval.
LEMMA ToolDeleteStep ==
  ASSUME CacheInv, ToolDelete
  PROVE  CacheInv' /\ RowStep
<1>1. UNCHANGED <<now, chunks, higher, req, last, calls, lives>> /\ tool' = [tool EXCEPT !.hole = TRUE]
  BY DEF ToolDelete
<1>2. tool \in Fetch /\ tool.part # {} /\ ~tool.hole /\ tool.on
  BY DEF ToolDelete, CacheInv, CacheTypeOK
<1>3. tool' \in Fetch /\ tool'.part = tool.part /\ tool'.hole /\ tool'.on
  BY <1>1, <1>2 DEF Fetch
<1>4. Held = {} /\ Held' = tool.part
  BY <1>2, <1>3 DEF Held
<1>5. Deleted(tool) = tool.part
  <2>1. PICK a, b \in Int : tool.part = a..b
    BY DEF CacheInv, IsInterval
  <2>2. a <= b
    BY <1>2, <2>1
  <2>3. Min(tool.part) = a /\ Max(tool.part) = b
    BY <2>1, <2>2, Ends
  <2>. QED
    BY <2>1, <2>3 DEF Deleted
<1>6. TableStep({})
  <2>1. CASE Commit([k \in Key |-> IF k \in Deleted(tool) THEN NoBar ELSE table[k]], {})
    <3>. DEFINE t == [k \in Key |-> IF k \in tool.part THEN NoBar ELSE table[k]]
    <3>1. t \in [Key -> {"final", "partial", NoBar}]
      BY DEF CacheInv, CacheTypeOK
    <3>2. \A k \in Key : table[k] # NoBar /\ t[k] # table[k] => t[k] = NoBar /\ k \in Held'
      BY <1>4
    <3>3. Commit(t, {})
      BY <1>5, <2>1
    <3>. HIDE DEF t
    <3>. QED
      BY <1>4, <3>1, <3>2, <3>3, CommitKeeps DEF CacheInv
  <2>2. CASE UNCHANGED <<table, lost>>
    BY <1>4, <2>2 DEF TableStep, Covered, Stored, Key, RowStep, CacheInv, CacheTypeOK
  <2>. QED
    BY <2>1, <2>2 DEF ToolDelete
<1>7. calls' \in 0..MaxCalls /\ IsInterval(tool'.part)
  BY <1>1, <1>3 DEF CacheInv, CacheTypeOK
<1>. QED
  BY <1>1, <1>3, <1>6, <1>7, ToolKeeps

LEMMA ToolInsertStep ==
  ASSUME CacheInv, ToolInsert
  PROVE  CacheInv' /\ RowStep
<1>1. /\ UNCHANGED <<now, chunks, higher, req, last, calls, lives>>
      /\ tool' = [tool EXCEPT !.part = {}, !.hole = FALSE]
  BY DEF ToolInsert
<1>2. tool \in Fetch /\ tool.part \in SUBSET Key
  BY DEF CacheInv, CacheTypeOK, Fetch
<1>3. tool' \in Fetch /\ tool'.part = {} /\ ~tool'.hole
  BY <1>1, <1>2 DEF Fetch
<1>4. Held \subseteq tool.part
  BY DEF Held
<1>5. TableStep(tool.part)
  BY <1>2, <1>4, InsertKeeps DEF ToolInsert, CacheInv
<1>6. TableStep({})
  BY <1>5 DEF TableStep
<1>7. calls' \in 0..MaxCalls
  BY <1>1 DEF CacheInv, CacheTypeOK
<1>. QED
  BY <1>1, <1>3, <1>6, <1>7, NoPart, ToolKeeps

LEMMA ToolEndStep ==
  ASSUME CacheInv, ToolEnd
  PROVE  CacheInv' /\ RowStep
<1>1. UNCHANGED <<now, chunks, higher, req, last, calls, lives>> /\ tool' = NoFetch /\ Commit(table, Held)
  BY DEF ToolEnd, Held
<1>2. tool' \in Fetch /\ tool'.part = {} /\ ~tool'.hole
  BY <1>1 DEF NoFetch, Fetch
<1>3. Held \in SUBSET Key /\ table \in [Key -> {"final", "partial", NoBar}]
  BY HeldKeys DEF CacheInv, CacheTypeOK
<1>4. TableStep(Held)
  BY <1>1, <1>3, CommitKeeps DEF CacheInv
<1>5. TableStep({})
  BY <1>4 DEF TableStep
<1>6. calls' \in 0..MaxCalls
  BY <1>1 DEF CacheInv, CacheTypeOK
<1>. QED
  BY <1>1, <1>2, <1>5, <1>6, NoPart, ToolKeeps

LEMMA LiveBarStep ==
  ASSUME CacheInv, LiveBar
  PROVE  CacheInv' /\ RowStep
<1>1. /\ UNCHANGED <<now, chunks, higher, req, tool, last, calls>> /\ now \in Key
      /\ lives' \in 0..MaxLive
  BY ShapeAssumption DEF LiveBar, CacheInv, CacheTypeOK
<1>2. PICK v \in {"final", "partial"} :
        Commit(IF table[now] = NoBar THEN [table EXCEPT ![now] = v] ELSE table, {})
  BY DEF LiveBar
<1>. DEFINE t == IF table[now] = NoBar THEN [table EXCEPT ![now] = v] ELSE table
<1>3. t \in [Key -> {"final", "partial", NoBar}]
  BY <1>1 DEF CacheInv, CacheTypeOK
<1>4. \A k \in Key : table[k] # NoBar => t[k] = table[k]
  BY <1>1 DEF CacheInv, CacheTypeOK
<1>5. Held' = Held
  BY <1>1 DEF Held
<1>6. Commit(t, {})
  BY <1>2
<1>. HIDE DEF t
<1>7. TableStep({})
  BY <1>3, <1>4, <1>5, <1>6, CommitKeeps DEF CacheInv
<1>8. CacheTypeOK'
  BY <1>1, <1>7 DEF CacheInv, CacheTypeOK, TableStep
<1>9. AnswersStored' /\ EmptySpanFetched'
  BY <1>1, <1>7, MemoryKept
<1>10. req'.had \cup req'.got \subseteq Covered' /\ ReqSound'
  BY <1>1, <1>7, RequestKept
<1>. QED
  BY <1>1, <1>7, <1>8, <1>9, <1>10 DEF CacheInv, IsInterval, TableStep

LEMMA TickStep ==
  ASSUME CacheInv, Tick
  PROVE  CacheInv' /\ RowStep
<1>1. UNCHANGED <<table, chunks, higher, req, tool, last, lost, calls, lives>>
  BY DEF Tick
<1>2. now' = now + 1 /\ now' \in FirstNow..LastMinute
  BY CacheConstants DEF Tick, CacheInv, CacheTypeOK
<1>3. TableStep({})
  BY <1>1 DEF TableStep, Covered, Stored, Held, Key, RowStep, CacheInv, CacheTypeOK
<1>4. CacheTypeOK'
  BY <1>1, <1>2 DEF CacheInv, CacheTypeOK
<1>5. AnswersStored' /\ EmptySpanFetched'
  BY <1>1, <1>3, MemoryKept
<1>6. req'.had \cup req'.got \subseteq Covered' /\ ReqSound'
  BY <1>1, <1>2, <1>3, RequestKept
<1>. QED
  BY <1>1, <1>3, <1>4, <1>5, <1>6 DEF CacheInv, IsInterval, TableStep

LEMMA CacheStep ==
  ASSUME CacheInv, [CacheNext]_cacheVars
  PROVE  CacheInv' /\ RowStep
<1>1. CASE UNCHANGED cacheVars
  <2>1. UNCHANGED <<now, table, chunks, higher, req, tool, last, lost, calls, lives>>
    BY <1>1 DEF cacheVars
  <2>2. TableStep({})
    BY <2>1 DEF TableStep, Covered, Stored, Held, Key, RowStep, CacheInv, CacheTypeOK
  <2>3. calls' \in 0..MaxCalls /\ tool' \in Fetch /\ IsInterval(tool'.part)
        /\ (tool'.on \/ (~tool'.hole /\ tool'.part = {}))
    BY <2>1 DEF CacheInv, CacheTypeOK
  <2>. QED
    BY <2>1, <2>2, <2>3, ToolKeeps
<1>2. CASE Server
  BY <1>2, GetHistoryStep, ServerTurnStep, ServerStoreStep, ServerAnswerStep DEF Server
<1>3. CASE Tool
  BY <1>3, ToolBeginStep, ToolTurnStep, ToolDeleteStep, ToolInsertStep, ToolEndStep DEF Tool
<1>. QED
  BY <1>1, <1>2, <1>3, LiveBarStep, TickStep DEF CacheNext

LEMMA CacheInvInit == CacheInit => CacheInv
<1>1. SUFFICES ASSUME CacheInit
               PROVE  CacheInv
  OBVIOUS
<1>2. last.had = {} /\ last.answer = {} /\ last.how = "none"
  BY <1>1 DEF CacheInit, NoCall
<1>3. NoFetch \in Fetch /\ req = NoFetch /\ tool = NoFetch
  BY <1>1 DEF CacheInit, NoFetch, Fetch
<1>4. CacheTypeOK
  <2>1. now \in FirstNow..LastMinute /\ calls \in 0..MaxCalls /\ lives \in 0..MaxLive
    BY <1>1, CacheConstants, ShapeAssumption DEF CacheInit
  <2>2. table \in [Key -> {"final", "partial", NoBar}] /\ chunks \in [Days -> SUBSET Key]
    BY <1>1 DEF CacheInit
  <2>. QED
    BY <1>1, <1>2, <1>3, <2>1, <2>2 DEF CacheInit, CacheTypeOK
<1>5. AnswersStored /\ EmptySpanFetched
  BY <1>1, <1>2 DEF CacheInit, AnswersStored, EmptySpanFetched
<1>6. req.had \cup req.got \subseteq Covered /\ ~req.on
  BY <1>3 DEF NoFetch
<1>7. IsInterval(tool.part) /\ ~tool.hole /\ tool.part = {}
  BY <1>3, NoPart DEF NoFetch
<1>8. ReqSound
  BY <1>6 DEF ReqSound
<1>. QED
  BY <1>4, <1>5, <1>6, <1>7, <1>8 DEF CacheInv

-----------------------------------------------------------------------------
(* Theorems *)

LEMMA CacheInvariant == CacheSpec => []CacheInv
<1>1. CacheInv /\ [CacheNext]_cacheVars => CacheInv'
  BY CacheStep
<1>. QED
  BY <1>1, CacheInvInit, PTL DEF CacheSpec

\* The kinds of the rows, the days and keys of what is cached, of what is
\* being fetched and of what was answered.
THEOREM CacheTypes == CacheSpec => []CacheTypeOK
<1>1. CacheInv => CacheTypeOK
  BY DEF CacheInv
<1>. QED
  BY <1>1, CacheInvariant, PTL

\* Whatever GetHistory answered, and whatever its caches keep, has a row,
\* or the overwriting process is about to insert it, or its insert failed,
\* whatever that process and the live stream do between the server's steps.
THEOREM AnswersTheorem == CacheSpec => []AnswersStored
<1>1. CacheInv => AnswersStored
  BY DEF CacheInv
<1>. QED
  BY <1>1, CacheInvariant, PTL

\* fetch1mData on an empty span inside a month leaves out no minute that was
\* traded.
THEOREM EmptySpanTheorem == CacheSpec => []EmptySpanFetched
<1>1. CacheInv => EmptySpanFetched
  BY DEF CacheInv
<1>. QED
  BY <1>1, CacheInvariant, PTL

\* A row changes only by being deleted with the minutes the overwriting
\* process has fetched and inserts next.
THEOREM RowsTheorem == CacheSpec => RowsKept
<1>1. CacheInv /\ [CacheNext]_cacheVars
        => [\A k \in Key : table[k] # NoBar /\ table'[k] # table[k] =>
                             table'[k] = NoBar /\ k \in Held']_cacheVars
  BY CacheStep DEF RowStep
<1>. QED
  BY <1>1, CacheInvariant, PTL DEF CacheSpec, RowsKept
=============================================================================
