--------------------------- MODULE StreamerProofs ---------------------------
(***************************************************************************)
(* Proofs about the streamer: its price bars (PriceStream) and its         *)
(* background jobs (StreamerJobs), for every set of trades and symbols and *)
(* every cadence.                                                          *)
(***************************************************************************)
EXTENDS PriceStream, StreamerJobs, FiniteSetTheorems, TLAPS

-----------------------------------------------------------------------------
(* Price bars: the inductive invariant *)

\* A bar is filed under its symbol; what is published is the open bar of a
\* symbol, ended by a later trade of the same symbol; only a flush in
\* progress has bars in hand.
Shapes ==
  /\ \A s \in Symbol : tradeBars[s] # None => tradeBars[s].symbol = s
  /\ pub # None => /\ tradeBars[pub.bar.symbol] = pub.bar
                   /\ SymbolOf[pub.trade] = pub.bar.symbol
                   /\ pub.bar.time < MinuteOf[pub.trade]
  /\ flusher # "inserting" => hand = <<>> /\ todo = {}
  /\ \A s \in Symbol, m \in Minute : rows[s][m] <= run

\* EveryTradeInOneBar without counting.
Placed ==
  \A t \in Trade : /\ Places(t) # {} <=> fate[t] = "delivered"
                   /\ \A x, y \in Places(t) : x = y

\* The open bar of the symbol is of a later minute, or it is being published.
Passed(s, m) ==
  /\ tradeBars[s] # None
  /\ \/ m < tradeBars[s].time
     \/ pub # None /\ pub.bar.symbol = s /\ m = tradeBars[s].time

\* Whatever left the open bars is behind them.
Ahead ==
  /\ \A i \in DOMAIN hand : Passed(hand[i].symbol, hand[i].time)
  /\ \A i \in DOMAIN completedBars : Passed(completedBars[i].symbol, completedBars[i].time)
  /\ \A s \in Symbol : \A i \in DOMAIN published[s] :
       tradeBars[s] # None /\ published[s][i] < tradeBars[s].time
  /\ \A s \in Symbol, m \in Minute : rows[s][m] = run => Passed(s, m)

PriceInv == TypeOK /\ Shapes /\ Placed /\ Ahead /\ MinutesBuiltOnce

-----------------------------------------------------------------------------
(* Types *)

\* Trades belong to symbols and minutes; a trade opens a bar of its own.
LEMMA OpenedBar ==
  ASSUME NEW t \in Trade
  PROVE  /\ SymbolOf[t] \in Symbol /\ MinuteOf[t] \in Minute /\ Opened(t) \in Bar
         /\ Opened(t).symbol = SymbolOf[t] /\ Opened(t).time = MinuteOf[t]
         /\ Opened(t).trades = {t} /\ Opened(t) # None
BY TradeAssumption, NoneAssumption DEF Opened, Bar, Minute

LEMMA NoneQueued == <<>> \in Seq(Bar) /\ <<>> \in Seq(Minute)
OBVIOUS

LEMMA Element ==
  ASSUME NEW S, NEW q \in Seq(S), NEW i \in DOMAIN q
  PROVE  q[i] \in S
OBVIOUS

LEMMA MinutesAreNat == Minute \subseteq Nat
BY TradeAssumption DEF Minute

\* A bar has the parts of a bar.
LEMMA BarParts ==
  ASSUME NEW b \in Bar
  PROVE  b.symbol \in Symbol /\ b.time \in Minute /\ b.time \in Nat /\ b.trades \in SUBSET Trade
BY MinutesAreNat DEF Bar

\* The bar that is published is a bar.
LEMMA PubParts ==
  ASSUME TypeOK, pub # None
  PROVE  pub.bar \in Bar /\ pub.trade \in Trade /\ pub.bar.symbol \in Symbol
         /\ pub.bar.time \in Minute /\ pub.bar # None
BY NoneAssumption DEF TypeOK, Publication, Bar

\* A merged trade leaves symbol and minute of a bar.
LEMMA Merged ==
  ASSUME NEW b \in Bar, NEW t \in Trade
  PROVE  LET c == [b EXCEPT !.trades = @ \cup {t}] IN
         /\ c \in Bar /\ c.symbol = b.symbol /\ c.time = b.time
         /\ c.trades = b.trades \cup {t} /\ c # None
BY NoneAssumption DEF Bar

LEMMA PriceTypeStep ==
  ASSUME TypeOK, [Next]_vars
  PROVE  TypeOK'
<1>1. ASSUME NEW t \in Trade, OpenFirst(t) PROVE TypeOK'
  BY <1>1, OpenedBar DEF OpenFirst, Delivery, taken, TypeOK, Fates
<1>2. ASSUME NEW t \in Trade, MergeTrade(t) PROVE TypeOK'
  <2>1. SymbolOf[t] \in Symbol /\ tradeBars[SymbolOf[t]] \in Bar
    BY <1>2, OpenedBar DEF MergeTrade, Starts, TypeOK
  <2>2. tradeBars' \in [Symbol -> Bar \cup {None}]
    BY <1>2, <2>1, Merged DEF MergeTrade, TypeOK
  <2>. QED
    BY <1>2, <2>2 DEF MergeTrade, Delivery, taken, TypeOK, Fates
<1>3. ASSUME NEW t \in Trade, Complete(t) PROVE TypeOK'
  <2>1. SymbolOf[t] \in Symbol /\ tradeBars[SymbolOf[t]] \in Bar
    BY <1>3, OpenedBar DEF Complete, TypeOK
  <2>2. pub' \in Publication
    BY <1>3, <2>1 DEF Complete, Publication
  <2>3. completedBars' \in Seq(Bar)
    BY <1>3, <2>1 DEF Complete, TypeOK
  <2>. QED
    BY <1>3, <2>2, <2>3 DEF Complete, Delivery, taken, TypeOK, Fates
<1>4. CASE PublishAndOpen
  <2>1. pub.bar.symbol \in Symbol /\ pub.bar.time \in Minute /\ Opened(pub.trade) \in Bar
    BY <1>4, PubParts, OpenedBar DEF PublishAndOpen
  <2>2. published' \in [Symbol -> Seq(Minute)]
    <3>1. CASE UNCHANGED published
      BY <3>1 DEF TypeOK
    <3>2. CASE published' = [published EXCEPT ![pub.bar.symbol] = Append(@, pub.bar.time)]
      <4>1. Append(published[pub.bar.symbol], pub.bar.time) \in Seq(Minute)
        BY <2>1 DEF TypeOK
      <4>. QED
        BY <3>2, <4>1, <2>1 DEF TypeOK
    <3>. QED
      BY <1>4, <3>1, <3>2 DEF PublishAndOpen
  <2>. QED
    BY <1>4, <2>1, <2>2 DEF PublishAndOpen, taken, TypeOK
<1>5. CASE SetNATS \/ Shutdown
  BY <1>5 DEF SetNATS, Shutdown, bars, taken, TypeOK
<1>6. CASE FlushTake
  <2>1. todo' \subseteq Symbol /\ hand' \in Seq(Bar) /\ completedBars' \in Seq(Bar)
    BY <1>6, BarParts DEF FlushTake, Taken, TypeOK
  <2>. QED
    BY <1>6, <2>1 DEF FlushTake, Kept, TypeOK
<1>7. ASSUME NEW s \in Symbol, FlushInsert(s) PROVE TypeOK'
  <2>1. rows' \in [Symbol -> [Minute -> -1..MaxRuns]]
    <3>1. CASE InsertPriceBars(s)
      <4>1. run \in -1..MaxRuns
        BY TradeAssumption DEF TypeOK
      <4>2. PICK I : rows' = [rows EXCEPT ![s] = [m \in Minute |->
                                IF \E i \in I : hand[i].time = m THEN run ELSE @[m]]]
        BY <3>1 DEF InsertPriceBars
      <4>3. [m \in Minute |-> IF \E i \in I : hand[i].time = m THEN run ELSE rows[s][m]]
              \in [Minute -> -1..MaxRuns]
        BY <4>1 DEF TypeOK
      <4>. QED
        BY <4>2, <4>3 DEF TypeOK
    <3>. QED
      BY <1>7, <3>1 DEF FlushInsert, TypeOK
  <2>2. fate' \in [Trade -> Fates]
    BY <1>7 DEF FlushInsert, InsertPriceBars, TypeOK, Fates
  <2>. QED
    BY <1>7, <2>1, <2>2 DEF FlushInsert, Kept, TypeOK
<1>8. CASE FlushEnd \/ FlushExit
  BY <1>8, NoneQueued DEF FlushEnd, FlushExit, Kept, taken, TypeOK
<1>9. CASE Restart
  <2>1. run' \in 1..MaxRuns
    BY <1>9, TradeAssumption DEF Restart, TypeOK
  <2>2. fate' \in [Trade -> Fates]
    BY <1>9 DEF Restart, TypeOK, Fates
  <2>. QED
    BY <1>9, <2>1, <2>2, NoneQueued DEF Restart, TypeOK, NoBars, Nothing
<1>10. ASSUME NEW s \in Symbol, NEW m \in Minute, OtherInsert(s, m) PROVE TypeOK'
  BY <1>10, TradeAssumption DEF OtherInsert, Cache, bars, taken, TypeOK
<1>11. CASE UNCHANGED vars
  BY <1>11 DEF vars, bars, taken, TypeOK
<1>. QED
  BY <1>1, <1>2, <1>3, <1>4, <1>5, <1>6, <1>7, <1>8, <1>9, <1>10, <1>11 DEF Next, Handle, Insert

-----------------------------------------------------------------------------
(* Where a trade is *)

\* Places as a function of the four sets it is made of.
Tagged(O, Q, K, A) ==
  ({"open"} \X O) \cup ({"queued"} \X Q) \cup ({"taken"} \X K) \cup ({"arriving"} \X A)

Alone(S) == \A x, y \in S : x = y

LEMMA TaggedEmpty ==
  ASSUME NEW O, NEW Q, NEW K, NEW A
  PROVE  Tagged(O, Q, K, A) = {} <=> O = {} /\ Q = {} /\ K = {} /\ A = {}
<1>1. \A o \in O : <<"open", o>> \in Tagged(O, Q, K, A)
  BY DEF Tagged
<1>2. \A q \in Q : <<"queued", q>> \in Tagged(O, Q, K, A)
  BY DEF Tagged
<1>3. \A k \in K : <<"taken", k>> \in Tagged(O, Q, K, A)
  BY DEF Tagged
<1>4. \A a \in A : <<"arriving", a>> \in Tagged(O, Q, K, A)
  BY DEF Tagged
<1>5. O = {} /\ Q = {} /\ K = {} /\ A = {} => Tagged(O, Q, K, A) = {}
  BY DEF Tagged
<1>. QED
  BY <1>1, <1>2, <1>3, <1>4, <1>5

\* One place is one element of one of the four.
LEMMA TaggedAlone ==
  ASSUME NEW O, NEW Q, NEW K, NEW A
  PROVE  Alone(Tagged(O, Q, K, A)) <=>
           /\ Alone(O) /\ Alone(Q) /\ Alone(K) /\ Alone(A)
           /\ O = {} \/ (Q = {} /\ K = {} /\ A = {})
           /\ Q = {} \/ (K = {} /\ A = {})
           /\ K = {} \/ A = {}
<1>1. \A o \in O : <<"open", o>> \in Tagged(O, Q, K, A)
  BY DEF Tagged
<1>2. \A q \in Q : <<"queued", q>> \in Tagged(O, Q, K, A)
  BY DEF Tagged
<1>3. \A k \in K : <<"taken", k>> \in Tagged(O, Q, K, A)
  BY DEF Tagged
<1>4. \A a \in A : <<"arriving", a>> \in Tagged(O, Q, K, A)
  BY DEF Tagged
<1>5. \A x \in Tagged(O, Q, K, A) : \/ \E o \in O : x = <<"open", o>>
                                    \/ \E q \in Q : x = <<"queued", q>>
                                    \/ \E k \in K : x = <<"taken", k>>
                                    \/ \E a \in A : x = <<"arriving", a>>
  BY DEF Tagged
<1>6. \A d, e : <<"open", d>> # <<"queued", e>> /\ <<"open", d>> # <<"taken", e>>
                /\ <<"open", d>> # <<"arriving", e>> /\ <<"queued", d>> # <<"taken", e>>
                /\ <<"queued", d>> # <<"arriving", e>> /\ <<"taken", d>> # <<"arriving", e>>
  OBVIOUS
<1>7. \A k, d, e : <<k, d>> = <<k, e>> => d = e
  OBVIOUS
<1>8. ASSUME Alone(Tagged(O, Q, K, A))
      PROVE  /\ Alone(O) /\ Alone(Q) /\ Alone(K) /\ Alone(A)
             /\ O = {} \/ (Q = {} /\ K = {} /\ A = {})
             /\ Q = {} \/ (K = {} /\ A = {})
             /\ K = {} \/ A = {}
  <2>1. \A x, y \in Tagged(O, Q, K, A) : x = y
    BY <1>8 DEF Alone
  <2>2. Alone(O) /\ Alone(Q) /\ Alone(K) /\ Alone(A)
    BY <1>1, <1>2, <1>3, <1>4, <1>7, <2>1 DEF Alone
  <2>3. O = {} \/ (Q = {} /\ K = {} /\ A = {})
    BY <1>1, <1>2, <1>3, <1>4, <1>6, <2>1
  <2>4. Q = {} \/ (K = {} /\ A = {})
    BY <1>2, <1>3, <1>4, <1>6, <2>1
  <2>5. K = {} \/ A = {}
    BY <1>3, <1>4, <1>6, <2>1
  <2>. QED
    BY <2>2, <2>3, <2>4, <2>5
<1>9. ASSUME /\ Alone(O) /\ Alone(Q) /\ Alone(K) /\ Alone(A)
             /\ O = {} \/ (Q = {} /\ K = {} /\ A = {})
             /\ Q = {} \/ (K = {} /\ A = {})
             /\ K = {} \/ A = {}
      PROVE  Alone(Tagged(O, Q, K, A))
  BY <1>5, <1>9 DEF Alone
<1>. QED
  BY <1>8, <1>9

\* What is true of the four sets of a trade and its fate.
InOne(O, Q, K, A, f) ==
  /\ Alone(O) /\ Alone(Q) /\ Alone(K) /\ Alone(A)
  /\ O = {} \/ (Q = {} /\ K = {} /\ A = {})
  /\ Q = {} \/ (K = {} /\ A = {})
  /\ K = {} \/ A = {}
  /\ f = "delivered" <=> ~ (O = {} /\ Q = {} /\ K = {} /\ A = {})

\* What Placed says of a trade, by the four sets.
LEMMA PlacedBy ==
  ASSUME Placed, NEW t \in Trade
  PROVE  InOne(OpenWith(t), QueuedWith(t), TakenWith(t), ArrivingAs(t), fate[t])
<1>. DEFINE P == Tagged(OpenWith(t), QueuedWith(t), TakenWith(t), ArrivingAs(t))
<1>1. Places(t) = P
  BY DEF Places, Tagged
<1>2. Alone(P) /\ (P # {} <=> fate[t] = "delivered")
  BY <1>1 DEF Placed, Alone
<1>. QED
  BY <1>2, TaggedEmpty, TaggedAlone DEF InOne

\* ... and the other way round, in the next state.
LEMMA PlacedNext ==
  ASSUME \A t \in Trade :
           InOne(OpenWith(t)', QueuedWith(t)', TakenWith(t)', ArrivingAs(t)', fate'[t])
  PROVE  Placed'
<1>. SUFFICES ASSUME NEW t \in Trade
              PROVE  /\ Places(t)' # {} <=> fate'[t] = "delivered"
                     /\ Alone(Places(t)')
  BY DEF Placed, Alone
<1>. DEFINE O == OpenWith(t)' Q == QueuedWith(t)' K == TakenWith(t)' A == ArrivingAs(t)'
<1>1. Places(t)' = Tagged(O, Q, K, A)
  BY DEF Places, Tagged
<1>2. Tagged(O, Q, K, A) # {} <=> fate'[t] = "delivered"
  BY TaggedEmpty DEF InOne
<1>3. Alone(Tagged(O, Q, K, A))
  BY TaggedAlone DEF InOne
<1>. QED
  BY <1>1, <1>2, <1>3

\* A trade that nobody moved is where it was.
LEMMA Unmoved ==
  ASSUME Placed, UNCHANGED fate,
         \A t \in Trade : /\ OpenWith(t)' = OpenWith(t) /\ QueuedWith(t)' = QueuedWith(t)
                          /\ TakenWith(t)' = TakenWith(t) /\ ArrivingAs(t)' = ArrivingAs(t)
  PROVE  Placed'
<1>1. \A t \in Trade :
         InOne(OpenWith(t), QueuedWith(t), TakenWith(t), ArrivingAs(t), fate[t])
  BY PlacedBy DEF InOne
<1>. QED
  BY <1>1, PlacedNext

\* A handler puts the trade into the open bar of its symbol, and into nothing
\* else.
LEMMA JoinsOpen ==
  ASSUME Placed, TypeOK, NEW t \in Trade, Delivery(t), UNCHANGED <<completedBars, pub>>,
         \A u \in Trade : OpenWith(u)' = IF u = t THEN OpenWith(u) \cup {SymbolOf[t]} ELSE OpenWith(u)
  PROVE  Placed'
<1>1. \A u \in Trade : /\ QueuedWith(u)' = QueuedWith(u) /\ TakenWith(u)' = TakenWith(u)
                       /\ ArrivingAs(u)' = ArrivingAs(u)
  BY DEF Delivery, taken, QueuedWith, TakenWith, ArrivingAs
<1>2. fate[t] = "none" /\ fate' = [fate EXCEPT ![t] = "delivered"] /\ fate \in [Trade -> Fates]
  BY DEF Delivery, TypeOK
<1>3. OpenWith(t) = {} /\ QueuedWith(t) = {} /\ TakenWith(t) = {} /\ ArrivingAs(t) = {}
  BY <1>2, PlacedBy DEF InOne
<1>4. OpenWith(t)' = {SymbolOf[t]} /\ Alone({SymbolOf[t]})
  BY <1>3 DEF Alone
<1>. SUFFICES ASSUME NEW u \in Trade
     PROVE  InOne(OpenWith(u)', QueuedWith(u)', TakenWith(u)', ArrivingAs(u)', fate'[u])
  BY PlacedNext
<1>5. CASE u = t
  BY <1>1, <1>2, <1>3, <1>4, <1>5, PlacedBy DEF InOne
<1>6. CASE u # t
  <2>1. fate'[u] = fate[u]
    BY <1>2, <1>6
  <2>. QED
    BY <1>1, <1>6, <2>1, PlacedBy DEF InOne
<1>. QED
  BY <1>5, <1>6

LEMMA OpenFirstPlaces ==
  ASSUME Placed, TypeOK, Shapes, NEW t \in Trade, OpenFirst(t)
  PROVE  Placed'
<1>. DEFINE s == SymbolOf[t]
<1>1. /\ pub = None /\ UNCHANGED <<completedBars, pub>> /\ tradeBars[s] = None /\ s \in Symbol
      /\ Opened(t).trades = {t} /\ Opened(t) # None
      /\ tradeBars' = [tradeBars EXCEPT ![s] = Opened(t)] /\ Delivery(t)
  BY OpenedBar DEF OpenFirst, Delivery
<1>2. tradeBars'[s] = Opened(t) /\ \A r \in Symbol \ {s} : tradeBars'[r] = tradeBars[r]
  BY <1>1 DEF TypeOK
<1>3. \A u \in Trade : OpenWith(u)' = IF u = t THEN OpenWith(u) \cup {s} ELSE OpenWith(u)
  BY <1>1, <1>2 DEF OpenWith
<1>. QED
  BY <1>1, <1>3, JoinsOpen

LEMMA MergeTradePlaces ==
  ASSUME Placed, TypeOK, Shapes, NEW t \in Trade, MergeTrade(t)
  PROVE  Placed'
<1>. DEFINE s == SymbolOf[t]
<1>1. /\ pub = None /\ UNCHANGED <<completedBars, pub>> /\ tradeBars[s] # None /\ s \in Symbol
      /\ tradeBars' = [tradeBars EXCEPT ![s].trades = @ \cup {t}] /\ Delivery(t)
  BY OpenedBar DEF MergeTrade, Delivery, Starts
<1>2. tradeBars[s] \in Bar
  BY <1>1 DEF TypeOK
<1>3. /\ tradeBars'[s] # None /\ tradeBars'[s].trades = tradeBars[s].trades \cup {t}
      /\ \A r \in Symbol \ {s} : tradeBars'[r] = tradeBars[r]
  BY <1>1, <1>2, Merged DEF TypeOK
<1>4. \A u \in Trade : OpenWith(u)' = IF u = t THEN OpenWith(u) \cup {s} ELSE OpenWith(u)
  BY <1>1, <1>3 DEF OpenWith
<1>. QED
  BY <1>1, <1>4, JoinsOpen

\* The open bar moves to the end of the queue, the trade waits for its bar.
LEMMA CompletePlaces ==
  ASSUME Placed, TypeOK, Shapes, NEW t \in Trade, Complete(t)
  PROVE  Placed'
<1>. DEFINE s == SymbolOf[t]  bar == tradeBars[s]  n == Len(completedBars) + 1
<1>1. /\ pub = None /\ bar # None /\ s \in Symbol /\ bar \in Bar /\ bar.symbol = s
      /\ completedBars' = Append(completedBars, bar) /\ completedBars \in Seq(Bar)
      /\ pub' = [bar |-> bar, trade |-> t] /\ tradeBars' = tradeBars
      /\ fate[t] = "none" /\ fate' = [fate EXCEPT ![t] = "delivered"] /\ fate \in [Trade -> Fates]
      /\ UNCHANGED taken
  BY OpenedBar DEF Complete, Delivery, TypeOK, Shapes
<1>2. pub' # None /\ pub'.bar.symbol = s /\ pub'.trade = t
  BY <1>1, NoneAssumption DEF Publication
<1>3. \A u \in Trade : OpenWith(u)' = OpenWith(u) \ {s} /\ (s \in OpenWith(u) <=> u \in bar.trades)
  BY <1>1, <1>2 DEF OpenWith
<1>4. \A u \in Trade : QueuedWith(u)' = IF u \in bar.trades THEN QueuedWith(u) \cup {n} ELSE QueuedWith(u)
  BY <1>1 DEF QueuedWith
<1>5. \A u \in Trade : /\ TakenWith(u)' = TakenWith(u) /\ ArrivingAs(u) = {}
                       /\ ArrivingAs(u)' = IF u = t THEN {pub'} ELSE {}
  BY <1>1, <1>2 DEF taken, TakenWith, ArrivingAs
<1>6. OpenWith(t) = {} /\ QueuedWith(t) = {} /\ TakenWith(t) = {}
  BY <1>1, PlacedBy DEF InOne
<1>. SUFFICES ASSUME NEW u \in Trade
     PROVE  InOne(OpenWith(u)', QueuedWith(u)', TakenWith(u)', ArrivingAs(u)', fate'[u])
  BY PlacedNext
<1>7. CASE u = t
  <2>1. t \notin bar.trades
    BY <1>3, <1>6
  <2>2. /\ OpenWith(t)' = {} /\ QueuedWith(t)' = {} /\ TakenWith(t)' = {}
        /\ ArrivingAs(t)' = {pub'} /\ fate'[t] = "delivered"
    BY <1>1, <1>3, <1>4, <1>5, <1>6, <2>1
  <2>. HIDE DEF s, bar, n
  <2>. QED
    BY <1>7, <2>2 DEF InOne, Alone
<1>8. CASE u # t /\ u \in bar.trades
  <2>1. s \in OpenWith(u) /\ Alone(OpenWith(u))
    BY <1>3, <1>8, PlacedBy DEF InOne
  <2>2. OpenWith(u)' = {} /\ QueuedWith(u) = {} /\ TakenWith(u) = {} /\ fate[u] = "delivered"
    BY <1>3, <2>1, PlacedBy DEF InOne, Alone
  <2>3. /\ QueuedWith(u)' = {n} /\ TakenWith(u)' = {} /\ ArrivingAs(u)' = {}
        /\ fate'[u] = "delivered"
    BY <1>1, <1>4, <1>5, <1>8, <2>2
  <2>. HIDE DEF s, bar, n
  <2>. QED
    BY <2>2, <2>3 DEF InOne, Alone
<1>9. CASE u # t /\ u \notin bar.trades
  <2>1. /\ OpenWith(u)' = OpenWith(u) /\ QueuedWith(u)' = QueuedWith(u)
        /\ TakenWith(u)' = TakenWith(u) /\ ArrivingAs(u)' = ArrivingAs(u)
        /\ fate'[u] = fate[u]
    BY <1>1, <1>3, <1>4, <1>5, <1>9
  <2>. QED
    BY <2>1, PlacedBy DEF InOne
<1>. QED
  BY <1>7, <1>8, <1>9

\* The trade gets into the bar it opens.
LEMMA PublishPlaces ==
  ASSUME Placed, TypeOK, Shapes, PublishAndOpen
  PROVE  Placed'
<1>. DEFINE s == pub.bar.symbol  t == pub.trade
<1>1. /\ pub # None /\ pub' = None /\ s \in Symbol /\ t \in Trade
      /\ tradeBars' = [tradeBars EXCEPT ![s] = Opened(t)]
      /\ UNCHANGED <<completedBars, taken, fate>>
      /\ Opened(t) # None /\ Opened(t).trades = {t}
  BY PubParts, OpenedBar DEF PublishAndOpen
<1>2. tradeBars'[s] = Opened(t) /\ \A r \in Symbol \ {s} : tradeBars'[r] = tradeBars[r]
  BY <1>1 DEF TypeOK
<1>3. \A u \in Trade : /\ s \notin OpenWith(u)
                       /\ OpenWith(u)' = IF u = t THEN OpenWith(u) \cup {s} ELSE OpenWith(u)
  BY <1>1, <1>2 DEF OpenWith
<1>4. \A u \in Trade : QueuedWith(u)' = QueuedWith(u) /\ TakenWith(u)' = TakenWith(u)
  BY <1>1 DEF taken, QueuedWith, TakenWith
<1>5. \A u \in Trade : /\ ArrivingAs(u)' = {}
                       /\ ArrivingAs(u) = IF u = t THEN {pub} ELSE {}
  BY <1>1 DEF ArrivingAs
<1>. SUFFICES ASSUME NEW u \in Trade
     PROVE  InOne(OpenWith(u)', QueuedWith(u)', TakenWith(u)', ArrivingAs(u)', fate'[u])
  BY PlacedNext
<1>6. CASE u = t
  <2>1. pub \in ArrivingAs(u)
    BY <1>5, <1>6
  <2>2. OpenWith(u) = {} /\ QueuedWith(u) = {} /\ TakenWith(u) = {} /\ fate[u] = "delivered"
    BY <2>1, PlacedBy DEF InOne
  <2>3. OpenWith(u)' = {s} /\ QueuedWith(u)' = {} /\ TakenWith(u)' = {} /\ ArrivingAs(u)' = {}
    BY <1>3, <1>4, <1>5, <1>6, <2>2
  <2>4. fate'[u] = "delivered"
    BY <1>1, <2>2
  <2>. HIDE DEF s, t
  <2>. QED
    BY <2>3, <2>4 DEF InOne, Alone
<1>7. CASE u # t
  <2>1. /\ OpenWith(u)' = OpenWith(u) /\ QueuedWith(u)' = QueuedWith(u)
        /\ TakenWith(u)' = TakenWith(u) /\ ArrivingAs(u)' = ArrivingAs(u)
        /\ fate'[u] = fate[u]
    BY <1>1, <1>3, <1>4, <1>5, <1>7
  <2>. QED
    BY <2>1, PlacedBy DEF InOne
<1>. QED
  BY <1>6, <1>7

\* The flusher has the whole queue in hand, and nothing else.
LEMMA FlushTakePlaces ==
  ASSUME Placed, TypeOK, Shapes, FlushTake
  PROVE  Placed'
<1>1. /\ hand = <<>> /\ todo = {} /\ completedBars' = <<>> /\ hand' = completedBars
      /\ todo' = {completedBars[i].symbol : i \in DOMAIN completedBars}
      /\ UNCHANGED <<tradeBars, pub, fate>>
  BY DEF FlushTake, Taken, Kept, Shapes
<1>2. \A u \in Trade : /\ OpenWith(u)' = OpenWith(u) /\ ArrivingAs(u)' = ArrivingAs(u)
                       /\ QueuedWith(u)' = {} /\ TakenWith(u) = {}
  BY <1>1 DEF OpenWith, ArrivingAs, QueuedWith, TakenWith
<1>3. \A u \in Trade : TakenWith(u)' = QueuedWith(u)
  BY <1>1 DEF QueuedWith, TakenWith
<1>4. ASSUME NEW u \in Trade
      PROVE  InOne(OpenWith(u)', QueuedWith(u)', TakenWith(u)', ArrivingAs(u)', fate'[u])
  <2>1. fate'[u] = fate[u]
    BY <1>1
  <2>2. InOne(OpenWith(u), QueuedWith(u), {}, ArrivingAs(u), fate[u])
    BY <1>2, PlacedBy
  <2>3. InOne(OpenWith(u), {}, QueuedWith(u), ArrivingAs(u), fate[u])
    BY <2>2 DEF InOne, Alone
  <2>. QED
    BY <1>2, <1>3, <2>1, <2>3
<1>. QED
  BY <1>4, PlacedNext

\* The trades of the inserted symbol are in no bar any more.
LEMMA FlushInsertPlaces ==
  ASSUME Placed, TypeOK, Shapes, NEW s \in Symbol, FlushInsert(s)
  PROVE  Placed'
<1>1. /\ s \in todo /\ todo' = todo \ {s}
      /\ UNCHANGED <<hand, completedBars, tradeBars, pub>>
  BY DEF FlushInsert, Kept
<1>2. \A u \in Trade : /\ OpenWith(u)' = OpenWith(u) /\ ArrivingAs(u)' = ArrivingAs(u)
                       /\ QueuedWith(u)' = QueuedWith(u)
                       /\ TakenWith(u)' = {i \in TakenWith(u) : hand[i].symbol # s}
  BY <1>1 DEF OpenWith, ArrivingAs, QueuedWith, TakenWith
<1>3. \A u \in Trade : u \in TradesOf(Group(s)) <=> \E i \in TakenWith(u) : hand[i].symbol = s
  BY <1>1 DEF TradesOf, Group, TakenWith
<1>4. \A u \in Trade : IF u \in TradesOf(Group(s)) THEN fate'[u] # "delivered" ELSE fate'[u] = fate[u]
  <2>1. CASE InsertPriceBars(s)
    <3>1. PICK I : /\ I \subseteq Group(s)
                   /\ fate' = [t \in Trade |-> CASE t \in TradesOf(I) -> "stored"
                                                 [] t \in TradesOf(Group(s)) \ TradesOf(I) -> "kept out"
                                                 [] OTHER -> fate[t]]
      BY <2>1 DEF InsertPriceBars
    <3>2. TradesOf(I) \subseteq TradesOf(Group(s))
      BY <3>1 DEF TradesOf
    <3>. HIDE DEF TradesOf
    <3>. QED
      BY <3>1, <3>2
  <2>2. CASE fate' = [t \in Trade |-> IF t \in TradesOf(Group(s)) THEN "failed" ELSE fate[t]]
    BY <2>2
  <2>. QED
    BY <2>1, <2>2 DEF FlushInsert
<1>5. ASSUME NEW u \in Trade
      PROVE  InOne(OpenWith(u)', QueuedWith(u)', TakenWith(u)', ArrivingAs(u)', fate'[u])
  <2>1. CASE u \in TradesOf(Group(s))
    <3>1. PICK i \in TakenWith(u) : hand[i].symbol = s
      BY <1>3, <2>1
    <3>2. OpenWith(u) = {} /\ QueuedWith(u) = {} /\ ArrivingAs(u) = {} /\ Alone(TakenWith(u))
      BY PlacedBy, <3>1 DEF InOne
    <3>3. TakenWith(u)' = {}
      BY <1>2, <3>1, <3>2 DEF Alone
    <3>. QED
      BY <1>2, <1>4, <2>1, <3>2, <3>3 DEF InOne, Alone
  <2>2. CASE u \notin TradesOf(Group(s))
    <3>1. TakenWith(u)' = TakenWith(u)
      BY <1>2, <1>3, <2>2
    <3>. QED
      BY <1>2, <1>4, <2>2, <3>1, PlacedBy DEF InOne
  <2>. QED
    BY <2>1, <2>2
<1>. QED
  BY <1>5, PlacedNext

LEMMA RestartPlaces ==
  ASSUME Placed, TypeOK, Shapes, Restart
  PROVE  Placed'
<1>1. /\ tradeBars' = NoBars /\ completedBars' = <<>> /\ pub' = None /\ hand' = <<>> /\ todo' = {}
      /\ fate' = [t \in Trade |-> IF fate[t] = "delivered" THEN "ended" ELSE fate[t]]
  BY DEF Restart
<1>2. \A u \in Trade : /\ OpenWith(u)' = {} /\ ArrivingAs(u)' = {} /\ QueuedWith(u)' = {}
                       /\ TakenWith(u)' = {} /\ fate'[u] # "delivered"
  BY <1>1 DEF OpenWith, ArrivingAs, QueuedWith, TakenWith, NoBars
<1>3. InOne({}, {}, {}, {}, "none") /\ \A f : f # "delivered" => InOne({}, {}, {}, {}, f)
  BY DEF InOne, Alone
<1>. QED
  BY <1>2, <1>3, PlacedNext

LEMMA PlacedStep ==
  ASSUME Placed, TypeOK, Shapes, [Next]_vars
  PROVE  Placed'
<1>1. CASE Handle
  BY <1>1, OpenFirstPlaces, MergeTradePlaces, CompletePlaces DEF Handle
<1>2. CASE PublishAndOpen
  BY <1>2, PublishPlaces
<1>3. CASE FlushTake
  BY <1>3, FlushTakePlaces
<1>4. CASE Insert
  BY <1>4, FlushInsertPlaces DEF Insert
<1>5. CASE Restart
  BY <1>5, RestartPlaces
<1>6. CASE SetNATS \/ Shutdown \/ FlushExit \/ UNCHANGED vars
           \/ \E s \in Symbol, m \in Minute : OtherInsert(s, m)
  <2>1. UNCHANGED <<bars, taken, fate>>
    BY <1>6 DEF SetNATS, Shutdown, FlushExit, OtherInsert, Kept, vars, bars
  <2>. QED
    BY <2>1, Unmoved DEF bars, taken, OpenWith, QueuedWith, TakenWith, ArrivingAs
<1>7. CASE FlushEnd
  <2>1. todo = {} /\ todo' = {} /\ UNCHANGED <<tradeBars, pub, completedBars, fate>>
    BY <1>7 DEF FlushEnd, Kept
  <2>. QED
    BY <2>1, Unmoved DEF OpenWith, QueuedWith, TakenWith, ArrivingAs
<1>. QED
  BY <1>1, <1>2, <1>3, <1>4, <1>5, <1>6, <1>7 DEF Next

-----------------------------------------------------------------------------
(* The order of the minutes *)

\* An insert gives minutes of its bars to the process and leaves the others.
LEMMA InsertedRows ==
  ASSUME TypeOK, NEW s \in Symbol, FlushInsert(s)
  PROVE  \A r \in Symbol, m \in Minute :
           \/ rows'[r][m] = rows[r][m]
           \/ r = s /\ rows'[r][m] = run /\ \E i \in Group(s) : hand[i].time = m
<1>1. CASE InsertPriceBars(s)
  <2>1. PICK I : /\ I \subseteq Group(s)
                 /\ rows' = [rows EXCEPT ![s] = [m \in Minute |->
                              IF \E i \in I : hand[i].time = m THEN run ELSE @[m]]]
    BY <1>1 DEF InsertPriceBars
  <2>2. /\ rows'[s] = [m \in Minute |-> IF \E i \in I : hand[i].time = m THEN run ELSE rows[s][m]]
        /\ \A r \in Symbol \ {s} : rows'[r] = rows[r]
    BY <2>1 DEF TypeOK
  <2>. QED
    BY <2>1, <2>2
<1>. QED
  BY <1>1 DEF FlushInsert

LEMMA ShapesStep ==
  ASSUME TypeOK, Shapes, [Next]_vars
  PROVE  Shapes'
<1>1. ASSUME NEW t \in Trade, OpenFirst(t) PROVE Shapes'
  BY <1>1, OpenedBar DEF OpenFirst, Delivery, taken, TypeOK, Shapes
<1>2. ASSUME NEW t \in Trade, MergeTrade(t) PROVE Shapes'
  <2>1. SymbolOf[t] \in Symbol /\ tradeBars[SymbolOf[t]] \in Bar
    BY <1>2, OpenedBar DEF MergeTrade, Starts, TypeOK
  <2>2. \A s \in Symbol : tradeBars'[s] # None => tradeBars[s] # None /\ tradeBars'[s].symbol = tradeBars[s].symbol
    BY <1>2, <2>1, Merged, NoneAssumption DEF MergeTrade, TypeOK
  <2>. QED
    BY <1>2, <2>2 DEF MergeTrade, Delivery, taken, Shapes
<1>3. ASSUME NEW t \in Trade, Complete(t) PROVE Shapes'
  <2>1. /\ SymbolOf[t] \in Symbol /\ tradeBars[SymbolOf[t]] # None
        /\ tradeBars[SymbolOf[t]].symbol = SymbolOf[t]
        /\ tradeBars[SymbolOf[t]].time < MinuteOf[t]
        /\ pub'.bar = tradeBars[SymbolOf[t]] /\ pub'.trade = t
    BY <1>3, OpenedBar DEF Complete, Starts, Shapes
  <2>. QED
    BY <1>3, <2>1 DEF Complete, Delivery, taken, Shapes
<1>4. CASE PublishAndOpen
  <2>1. /\ pub.bar.symbol \in Symbol /\ pub.trade \in Trade
        /\ Opened(pub.trade).symbol = pub.bar.symbol
    BY <1>4, PubParts, OpenedBar DEF PublishAndOpen, Shapes
  <2>. QED
    BY <1>4, <2>1 DEF PublishAndOpen, taken, TypeOK, Shapes
<1>5. CASE SetNATS \/ Shutdown \/ FlushTake \/ FlushEnd \/ FlushExit \/ UNCHANGED vars
  BY <1>5 DEF SetNATS, Shutdown, FlushTake, FlushEnd, FlushExit, Kept, vars, bars, taken, Shapes
<1>6. ASSUME NEW s \in Symbol, FlushInsert(s) PROVE Shapes'
  <2>1. \A r \in Symbol, m \in Minute : rows'[r][m] = rows[r][m] \/ rows'[r][m] = run
    BY <1>6, InsertedRows
  <2>2. run' = run /\ run \in 1..MaxRuns
    BY <1>6 DEF FlushInsert, Kept, TypeOK
  <2>3. \A r \in Symbol, m \in Minute : rows'[r][m] <= run'
    BY <2>1, <2>2, TradeAssumption DEF Shapes
  <2>. QED
    BY <1>6, <2>3 DEF FlushInsert, Kept, Shapes
<1>7. CASE Restart
  <2>1. \A r \in Symbol, m \in Minute : rows'[r][m] <= run'
    BY <1>7, TradeAssumption DEF Restart, TypeOK, Shapes
  <2>. QED
    BY <1>7, <2>1 DEF Restart, NoBars, Shapes
<1>8. ASSUME NEW s \in Symbol, NEW m \in Minute, OtherInsert(s, m) PROVE Shapes'
  <2>1. \A r \in Symbol, n \in Minute : rows'[r][n] <= run
    BY <1>8, TradeAssumption DEF OtherInsert, Cache, TypeOK, Shapes
  <2>. QED
    BY <1>8, <2>1 DEF OtherInsert, bars, taken, Shapes
<1>. QED
  BY <1>1, <1>2, <1>3, <1>4, <1>5, <1>6, <1>7, <1>8 DEF Next, Handle, Insert

\* What a step of a handler does to the open bars: none is put back.
Forward ==
  /\ \A s \in Symbol, m \in Minute : Passed(s, m) => Passed(s, m)'
  /\ \A s \in Symbol : tradeBars[s] # None =>
       tradeBars'[s] # None /\ tradeBars[s].time <= tradeBars'[s].time

\* A handler that completes no bar.
LEMMA OpenBarOnly ==
  ASSUME TypeOK, TypeOK', Ahead, MinutesBuiltOnce, Forward,
         UNCHANGED <<completedBars, published, taken, rows, run>>
  PROVE  Ahead' /\ MinutesBuiltOnce'
<1>1. \A i \in DOMAIN hand : hand[i].symbol \in Symbol /\ hand[i].time \in Minute
  BY BarParts DEF TypeOK
<1>2. \A i \in DOMAIN completedBars : completedBars[i].symbol \in Symbol /\ completedBars[i].time \in Minute
  BY BarParts DEF TypeOK
<1>3. \A s \in Symbol : \A i \in DOMAIN published[s] :
        tradeBars'[s] # None /\ published[s][i] < tradeBars'[s].time
  <2>1. TAKE s \in Symbol
  <2>2. TAKE i \in DOMAIN published[s]
  <2>3. published[s][i] \in Nat
    <3>1. published[s] \in Seq(Minute)
      BY DEF TypeOK
    <3>. QED
      BY <3>1, Element, MinutesAreNat
  <2>4. /\ tradeBars[s] # None /\ published[s][i] < tradeBars[s].time
        /\ tradeBars'[s] # None /\ tradeBars[s].time <= tradeBars'[s].time
    BY DEF Ahead, Forward
  <2>5. tradeBars[s] \in Bar /\ tradeBars'[s] \in Bar
    BY <2>4 DEF TypeOK
  <2>6. tradeBars[s].time \in Nat /\ tradeBars'[s].time \in Nat
    BY <2>5, BarParts
  <2>. QED
    BY <2>3, <2>4, <2>6
<1>4. Ahead'
  BY <1>1, <1>2, <1>3 DEF Ahead, Forward, taken
<1>5. MinutesBuiltOnce'
  BY DEF MinutesBuiltOnce, taken, BuiltBy, InOrder, Before, Increasing
<1>. QED
  BY <1>4, <1>5

LEMMA OpenFirstMinutes ==
  ASSUME TypeOK, TypeOK', Shapes, Ahead, MinutesBuiltOnce, NEW t \in Trade, OpenFirst(t)
  PROVE  Ahead' /\ MinutesBuiltOnce'
<1>1. \A s \in Symbol : tradeBars[s] # None => tradeBars'[s] = tradeBars[s]
  BY DEF OpenFirst, TypeOK
<1>2. pub = None /\ pub' = None
  BY DEF OpenFirst, Delivery
<1>3. \A s \in Symbol : tradeBars[s] # None => tradeBars[s].time \in Nat
  BY BarParts DEF TypeOK
<1>4. Forward
  BY <1>1, <1>2, <1>3 DEF Forward, Passed
<1>. QED
  BY <1>4, OpenBarOnly DEF OpenFirst, Delivery

LEMMA MergeTradeMinutes ==
  ASSUME TypeOK, TypeOK', Shapes, Ahead, MinutesBuiltOnce, NEW t \in Trade, MergeTrade(t)
  PROVE  Ahead' /\ MinutesBuiltOnce'
<1>1. SymbolOf[t] \in Symbol /\ tradeBars[SymbolOf[t]] \in Bar
  BY OpenedBar DEF MergeTrade, Starts, TypeOK
<1>2. \A s \in Symbol : tradeBars[s] # None =>
         tradeBars'[s] # None /\ tradeBars'[s].time = tradeBars[s].time
  <2>1. /\ tradeBars'[SymbolOf[t]] # None /\ tradeBars'[SymbolOf[t]].time = tradeBars[SymbolOf[t]].time
        /\ \A s \in Symbol \ {SymbolOf[t]} : tradeBars'[s] = tradeBars[s]
    BY <1>1, Merged DEF MergeTrade, TypeOK
  <2>. QED
    BY <1>1, <2>1
<1>3. \A s \in Symbol : tradeBars[s] # None => tradeBars[s].time \in Nat
  BY BarParts DEF TypeOK
<1>4. pub = None /\ pub' = None
  BY DEF MergeTrade, Delivery
<1>5. Forward
  BY <1>2, <1>3, <1>4 DEF Forward, Passed
<1>. QED
  BY <1>5, OpenBarOnly DEF MergeTrade, Delivery

\* The bar that is queued is later than all that left before it.
LEMMA CompleteMinutes ==
  ASSUME TypeOK, TypeOK', Shapes, Ahead, MinutesBuiltOnce, NEW t \in Trade, Complete(t)
  PROVE  Ahead' /\ MinutesBuiltOnce'
<1>. DEFINE s == SymbolOf[t]  bar == tradeBars[s]  n == Len(completedBars) + 1
<1>1. /\ pub = None /\ bar # None /\ s \in Symbol /\ bar \in Bar /\ bar.symbol = s
      /\ completedBars' = Append(completedBars, bar) /\ completedBars \in Seq(Bar)
      /\ pub' # None /\ pub'.bar = bar /\ tradeBars' = tradeBars
      /\ UNCHANGED <<hand, todo, published, rows, run>>
  BY OpenedBar, NoneAssumption DEF Complete, Delivery, TypeOK, Shapes, taken, Publication
<1>2. /\ bar.time \in Minute /\ bar.time \in Nat
  BY <1>1, BarParts
<1>4. tradeBars'[s] # None /\ pub' # None /\ pub'.bar.symbol = s /\ tradeBars'[s].time = bar.time
  BY <1>1
<1>5. \A m : Passed(s, m) => m < bar.time
  BY <1>1 DEF Passed
<1>6. /\ DOMAIN completedBars' = DOMAIN completedBars \cup {n} /\ n \notin DOMAIN completedBars
      /\ \A i \in DOMAIN completedBars : i < n /\ i \in Nat /\ completedBars'[i] = completedBars[i]
      /\ completedBars'[n] = bar
  BY <1>1
<1>. HIDE DEF s, bar, n
<1>7. Ahead'
  <2>1. \A i \in DOMAIN completedBars' : Passed(completedBars[i].symbol, completedBars[i].time)'
    <3>1. TAKE i \in DOMAIN completedBars'
    <3>2. CASE i = n
      <4>1. completedBars'[i].symbol = s /\ completedBars'[i].time = bar.time
        BY <1>1, <1>6, <3>2
      <4>. QED
        BY <1>4, <4>1 DEF Passed
    <3>3. CASE i # n
      <4>1. Passed(completedBars[i].symbol, completedBars[i].time) /\ completedBars'[i] = completedBars[i]
        BY <1>6, <3>1, <3>3 DEF Ahead
      <4>. QED
        BY <1>1, <4>1 DEF Passed
    <3>. QED
      BY <3>2, <3>3
  <2>. QED
    BY <1>1, <2>1 DEF Ahead, Passed
<1>8. \A i \in DOMAIN completedBars : Before(completedBars[i], bar)
  BY <1>1, <1>5 DEF Ahead, Before
<1>9. \A i \in DOMAIN hand : Before(hand[i], bar)
  BY <1>1, <1>5 DEF Ahead, Before
<1>10. ~ BuiltBy(run, bar)
  <2>1. \A m \in Minute : rows[s][m] = run => m < bar.time
    BY <1>1, <1>5 DEF Ahead
  <2>. QED
    BY <1>1, <1>2, <2>1 DEF BuiltBy
<1>11. n \in Nat
  BY <1>1 DEF n
<1>12. InOrder(completedBars')
  BY <1>6, <1>8, <1>11 DEF InOrder, MinutesBuiltOnce
<1>13. \A i \in DOMAIN hand, j \in DOMAIN completedBars' : Before(hand[i], completedBars'[j])
  BY <1>6, <1>9 DEF MinutesBuiltOnce
<1>14. \A i \in DOMAIN completedBars' : ~ BuiltBy(run, completedBars'[i])
  BY <1>6, <1>10 DEF MinutesBuiltOnce
<1>15. MinutesBuiltOnce'
  BY <1>1, <1>12, <1>13, <1>14 DEF MinutesBuiltOnce, BuiltBy, InOrder, Increasing
<1>. QED
  BY <1>7, <1>15

\* An appended sequence, by its places.
LEMMA AppendParts ==
  ASSUME NEW S, NEW q \in Seq(S), NEW x \in S
  PROVE  /\ DOMAIN Append(q, x) = DOMAIN q \cup {Len(q) + 1} /\ Append(q, x)[Len(q) + 1] = x
         /\ Len(q) + 1 \in Nat
         /\ \A i \in DOMAIN q : i < Len(q) + 1 /\ i \in Nat /\ Append(q, x)[i] = q[i]
OBVIOUS

\* The minute is published after all that were published before it.
LEMMA PublishMinutes ==
  ASSUME TypeOK, TypeOK', Shapes, Ahead, MinutesBuiltOnce, PublishAndOpen
  PROVE  Ahead' /\ MinutesBuiltOnce'
<1>. DEFINE s == pub.bar.symbol
<1>1. /\ pub # None /\ pub' = None /\ s \in Symbol /\ tradeBars[s] = pub.bar /\ pub.bar # None
      /\ pub.bar.time < MinuteOf[pub.trade] /\ pub.bar.time \in Minute
      /\ UNCHANGED <<completedBars, hand, todo, rows, run>>
      /\ Opened(pub.trade) # None /\ Opened(pub.trade).time = MinuteOf[pub.trade]
  BY PubParts, OpenedBar DEF PublishAndOpen, Shapes, taken
<1>2. /\ tradeBars'[s] = Opened(pub.trade) /\ \A r \in Symbol \ {s} : tradeBars'[r] = tradeBars[r]
  BY <1>1 DEF PublishAndOpen, TypeOK
<1>3. Minute \subseteq Nat /\ pub.bar.time \in Nat /\ MinuteOf[pub.trade] \in Nat
  BY <1>1, MinutesAreNat, OpenedBar, PubParts
<1>4. \A r \in Symbol, m \in Minute : Passed(r, m) => Passed(r, m)'
  <2>1. ASSUME NEW r \in Symbol, NEW m \in Minute, Passed(r, m) PROVE Passed(r, m)'
    <3>1. CASE r = s
      BY <1>1, <1>2, <1>3, <2>1, <3>1 DEF Passed
    <3>2. CASE r # s
      BY <1>1, <1>2, <2>1, <3>2 DEF Passed
    <3>. QED
      BY <3>1, <3>2
  <2>. QED
    BY <2>1
<1>5. \A r \in Symbol : published[r] \in Seq(Minute) /\ \A i \in DOMAIN published[r] : published[r][i] \in Nat
  <2>1. TAKE r \in Symbol
  <2>2. published[r] \in Seq(Minute)
    BY DEF TypeOK
  <2>. QED
    BY <2>2, <1>3, Element
<1>6. \A r \in Symbol : /\ \A i \in DOMAIN published'[r] : tradeBars'[r] # None /\ published'[r][i] < tradeBars'[r].time
                        /\ Increasing(published'[r])
  <2>1. TAKE r \in Symbol
  <2>2. /\ \A i \in DOMAIN published[r] : tradeBars[r] # None /\ published[r][i] < tradeBars[r].time
        /\ Increasing(published[r])
    BY DEF Ahead, MinutesBuiltOnce
  <2>3. CASE r # s
    <3>1. published'[r] = published[r]
      BY <1>1, <2>3 DEF PublishAndOpen, TypeOK
    <3>. QED
      BY <1>2, <2>2, <2>3, <3>1
  <2>4. CASE r = s /\ published' = published
    BY <1>1, <1>2, <1>3, <1>5, <2>2, <2>4
  <2>5. CASE r = s /\ published' = [published EXCEPT ![s] = Append(@, pub.bar.time)]
    <3>. DEFINE q == published[s]  n == Len(q) + 1
    <3>1. published'[s] = Append(q, pub.bar.time) /\ q \in Seq(Minute)
      BY <1>1, <1>5, <2>5 DEF TypeOK
    <3>2. /\ DOMAIN published'[s] = DOMAIN q \cup {n} /\ published'[s][n] = pub.bar.time /\ n \in Nat
          /\ \A i \in DOMAIN q : i < n /\ i \in Nat /\ published'[s][i] = q[i]
      <4>. HIDE DEF q, s
      <4>. QED
        BY <1>1, <3>1, AppendParts
    <3>3. /\ \A i \in DOMAIN q : q[i] < pub.bar.time /\ q[i] \in Nat
          /\ Increasing(q)
      BY <1>1, <1>5, <2>2, <2>5
    <3>. HIDE DEF q, n, s
    <3>4. Increasing(published'[s])
      BY <3>2, <3>3 DEF Increasing
    <3>5. \A i \in DOMAIN published'[s] : published'[s][i] < MinuteOf[pub.trade]
      BY <1>1, <1>3, <3>2, <3>3
    <3>. QED
      BY <1>1, <1>2, <2>5, <3>4, <3>5
  <2>. QED
    BY <2>3, <2>4, <2>5 DEF PublishAndOpen
<1>7. \A i \in DOMAIN hand : hand[i].symbol \in Symbol /\ hand[i].time \in Minute
  BY BarParts, Element DEF TypeOK
<1>8. \A i \in DOMAIN completedBars : completedBars[i].symbol \in Symbol /\ completedBars[i].time \in Minute
  BY BarParts, Element DEF TypeOK
<1>. HIDE DEF s
<1>9. Ahead'
  BY <1>1, <1>4, <1>6, <1>7, <1>8 DEF Ahead
<1>10. MinutesBuiltOnce'
  BY <1>1, <1>6 DEF MinutesBuiltOnce, BuiltBy, InOrder
<1>. QED
  BY <1>9, <1>10

\* The queue is taken as it is; what was in hand is gone.
LEMMA FlushTakeMinutes ==
  ASSUME TypeOK, Shapes, Ahead, MinutesBuiltOnce, FlushTake
  PROVE  Ahead' /\ MinutesBuiltOnce'
<1>1. /\ completedBars' = <<>> /\ hand' = completedBars
      /\ UNCHANGED <<tradeBars, pub, published, rows, run>>
  BY DEF FlushTake, Taken, Kept
<1>2. Ahead'
  BY <1>1 DEF Ahead, Passed
<1>3. MinutesBuiltOnce'
  BY <1>1 DEF MinutesBuiltOnce, InOrder, BuiltBy
<1>. QED
  BY <1>2, <1>3

\* The rows of the inserted symbol are those of bars that are no longer to be
\* inserted, and earlier than those of the queue.
LEMMA FlushInsertMinutes ==
  ASSUME TypeOK, Shapes, Ahead, MinutesBuiltOnce, NEW s \in Symbol, FlushInsert(s)
  PROVE  Ahead' /\ MinutesBuiltOnce'
<1>1. /\ s \in todo /\ todo' = todo \ {s}
      /\ UNCHANGED <<hand, completedBars, tradeBars, pub, published, run>>
  BY DEF FlushInsert, Kept
<1>2. \A r \in Symbol, m \in Minute :
         rows'[r][m] = rows[r][m] \/ (r = s /\ \E i \in Group(s) : hand[i].time = m)
  BY InsertedRows
<1>3. \A i \in Group(s) : i \in DOMAIN hand /\ hand[i].symbol = s
  BY DEF Group
<1>4. \A i \in DOMAIN hand : hand[i].symbol \in Symbol /\ hand[i].time \in Minute /\ hand[i].time \in Nat
  BY BarParts, Element DEF TypeOK
<1>5. \A i \in DOMAIN completedBars :
         completedBars[i].symbol \in Symbol /\ completedBars[i].time \in Minute
         /\ completedBars[i].time \in Nat
  BY BarParts, Element DEF TypeOK
<1>6. \A r \in Symbol, m \in Minute : rows'[r][m] = run => Passed(r, m)
  BY <1>2, <1>3 DEF Ahead
<1>7. Ahead'
  BY <1>1, <1>6 DEF Ahead, Passed
<1>8. \A i \in DOMAIN hand : hand[i].symbol \in todo' =>
         rows'[hand[i].symbol][hand[i].time] = rows[hand[i].symbol][hand[i].time]
  BY <1>1, <1>2, <1>4
<1>9. \A i \in DOMAIN completedBars :
         rows'[completedBars[i].symbol][completedBars[i].time]
           = rows[completedBars[i].symbol][completedBars[i].time]
  <2>1. TAKE i \in DOMAIN completedBars
  <2>2. ASSUME completedBars[i].symbol = s, NEW j \in Group(s), hand[j].time = completedBars[i].time
        PROVE  FALSE
    <3>1. Before(hand[j], completedBars[i])
      BY <1>3 DEF MinutesBuiltOnce
    <3>. QED
      BY <1>3, <1>4, <1>5, <2>2, <3>1 DEF Before
  <2>. QED
    BY <1>2, <1>5, <2>2
<1>10. MinutesBuiltOnce'
  BY <1>1, <1>8, <1>9 DEF MinutesBuiltOnce, BuiltBy, InOrder, Increasing
<1>. QED
  BY <1>7, <1>10

\* Nothing is left of a process; its rows have a number of their own.
LEMMA RestartMinutes ==
  ASSUME TypeOK, Shapes, Ahead, MinutesBuiltOnce, Restart
  PROVE  Ahead' /\ MinutesBuiltOnce'
<1>1. /\ hand' = <<>> /\ completedBars' = <<>> /\ published' = [s \in Symbol |-> <<>>]
      /\ rows' = rows /\ run' = run + 1 /\ run \in Nat
  BY TradeAssumption DEF Restart, Nothing, TypeOK
<1>2. \A s \in Symbol, m \in Minute : rows'[s][m] # run'
  BY <1>1 DEF Shapes, TypeOK
<1>3. \A s \in Symbol : DOMAIN published'[s] = {}
  BY <1>1
<1>4. DOMAIN hand' = {} /\ DOMAIN completedBars' = {}
  BY <1>1
<1>5. Ahead'
  BY <1>2, <1>3, <1>4 DEF Ahead
<1>6. MinutesBuiltOnce'
  BY <1>3, <1>4 DEF MinutesBuiltOnce, InOrder, Increasing
<1>. QED
  BY <1>5, <1>6

LEMMA MinutesStep ==
  ASSUME TypeOK, TypeOK', Shapes, Ahead, MinutesBuiltOnce, [Next]_vars
  PROVE  Ahead' /\ MinutesBuiltOnce'
<1>1. CASE Handle
  BY <1>1, OpenFirstMinutes, MergeTradeMinutes, CompleteMinutes DEF Handle
<1>2. CASE PublishAndOpen
  BY <1>2, PublishMinutes
<1>3. CASE FlushTake
  BY <1>3, FlushTakeMinutes
<1>4. CASE Insert
  BY <1>4, FlushInsertMinutes DEF Insert
<1>5. CASE Restart
  BY <1>5, RestartMinutes
<1>6. CASE SetNATS \/ Shutdown \/ FlushExit \/ UNCHANGED vars
  <2>1. UNCHANGED <<bars, taken, published, rows, run>>
    BY <1>6 DEF SetNATS, Shutdown, FlushExit, Kept, vars, bars
  <2>. QED
    BY <2>1 DEF bars, taken, Ahead, Passed, MinutesBuiltOnce, BuiltBy, InOrder, Increasing
<1>7. CASE FlushEnd
  <2>1. hand' = <<>> /\ UNCHANGED <<bars, todo, published, rows, run>>
    BY <1>7 DEF FlushEnd, Kept, bars
  <2>2. DOMAIN hand' = {}
    BY <2>1
  <2>3. Ahead'
    BY <2>1, <2>2 DEF bars, Ahead, Passed
  <2>4. MinutesBuiltOnce'
    BY <2>1, <2>2 DEF bars, MinutesBuiltOnce, BuiltBy, InOrder, Increasing
  <2>. QED
    BY <2>3, <2>4
<1>8. ASSUME NEW s \in Symbol, NEW m \in Minute, OtherInsert(s, m)
      PROVE  Ahead' /\ MinutesBuiltOnce'
  <2>1. UNCHANGED <<bars, taken, published, run>> /\ run \in 1..MaxRuns
    BY <1>8 DEF OtherInsert, TypeOK
  <2>2. \A r \in Symbol, n \in Minute : rows'[r][n] = run => rows[r][n] = run
    BY <1>8, <2>1, TradeAssumption DEF OtherInsert, Cache, TypeOK
  <2>3. \A i \in DOMAIN hand : hand[i].symbol \in Symbol /\ hand[i].time \in Minute
    BY BarParts, Element DEF TypeOK
  <2>4. \A i \in DOMAIN completedBars :
           completedBars[i].symbol \in Symbol /\ completedBars[i].time \in Minute
    BY BarParts, Element DEF TypeOK
  <2>5. Ahead'
    BY <2>1, <2>2 DEF bars, taken, Ahead, Passed
  <2>6. MinutesBuiltOnce'
    BY <2>1, <2>2, <2>3, <2>4 DEF bars, taken, MinutesBuiltOnce, BuiltBy, InOrder, Increasing
  <2>. QED
    BY <2>5, <2>6
<1>. QED
  BY <1>1, <1>2, <1>3, <1>4, <1>5, <1>6, <1>7, <1>8 DEF Next

-----------------------------------------------------------------------------
LEMMA PriceInit == Init => PriceInv
<1>. SUFFICES ASSUME Init PROVE PriceInv
  OBVIOUS
<1>1. TypeOK
  <2>1. MaxRuns \in Nat /\ 1 \in 1..MaxRuns /\ 0 \in -1..MaxRuns
    BY TradeAssumption
  <2>2. rows \in [Symbol -> [Minute -> -1..MaxRuns]] /\ run \in 1..MaxRuns
    BY <2>1 DEF Init, NoRow
  <2>. QED
    BY <2>2, NoneQueued DEF Init, TypeOK, NoBars, Nothing, Fates
<1>2. Shapes
  BY DEF Init, Shapes, NoBars, NoRow
<1>3. Placed
  <2>. SUFFICES ASSUME NEW t \in Trade
                PROVE  /\ Places(t) # {} <=> fate[t] = "delivered"
                       /\ \A x, y \in Places(t) : x = y
    BY DEF Placed
  <2>2. OpenWith(t) = {} /\ QueuedWith(t) = {} /\ TakenWith(t) = {} /\ ArrivingAs(t) = {}
    BY DEF Init, NoBars, OpenWith, QueuedWith, TakenWith, ArrivingAs
  <2>3. Places(t) = {} /\ fate[t] = "none"
    BY <2>2 DEF Init, Places
  <2>. QED
    BY <2>3
<1>4. DOMAIN hand = {} /\ DOMAIN completedBars = {} /\ \A s \in Symbol : DOMAIN published[s] = {}
  BY DEF Init, Nothing
<1>5. Ahead
  BY <1>4 DEF Init, Ahead, NoRow
<1>6. MinutesBuiltOnce
  BY <1>4 DEF MinutesBuiltOnce, InOrder, Increasing
<1>. QED
  BY <1>1, <1>2, <1>3, <1>5, <1>6 DEF PriceInv

LEMMA PriceStep == PriceInv /\ [Next]_vars => PriceInv'
BY PriceTypeStep, ShapesStep, PlacedStep, MinutesStep DEF PriceInv

\* The bars of the live stream keep their types (tradeBar, streamer.go).
THEOREM PriceTypes == Spec => []TypeOK
<1>1. PriceInv => TypeOK
  BY DEF PriceInv
<1>. QED
  BY PriceInit, PriceStep, <1>1, PTL DEF Spec

\* A delivered trade is in exactly one bar until that bar is stored, refused or
\* lost (makeEventHandler and startPriceBarFlusher): no interleaving of
\* handlers, flusher and shutdown drops a trade or counts it twice.
THEOREM TradesTheorem == Spec => []EveryTradeInOneBar
<1>1. PriceInv => EveryTradeInOneBar
  <2>. SUFFICES ASSUME PriceInv, NEW t \in Trade
                PROVE  Cardinality(Places(t)) = IF fate[t] = "delivered" THEN 1 ELSE 0
    BY DEF EveryTradeInOneBar
  <2>1. /\ Places(t) # {} <=> fate[t] = "delivered"
        /\ \A x, y \in Places(t) : x = y
    BY DEF PriceInv, Placed
  <2>2. CASE fate[t] = "delivered"
    <3>1. PICK x \in Places(t) : TRUE
      BY <2>1, <2>2
    <3>2. Places(t) = {x}
      BY <2>1
    <3>. QED
      BY <2>2, <3>2, FS_Singleton
  <2>3. CASE fate[t] # "delivered"
    BY <2>1, <2>3, FS_EmptySet
  <2>. QED
    BY <2>2, <2>3
<1>. QED
  BY PriceInit, PriceStep, <1>1, PTL DEF Spec

\* A process builds a minute of a symbol once (makeEventHandler): subscribers
\* get the minutes in order and once each, and InsertPriceBars refuses no bar
\* because of another bar of the same process.
THEOREM MinutesTheorem == Spec => []MinutesBuiltOnce
<1>1. PriceInv => MinutesBuiltOnce
  BY DEF PriceInv
<1>. QED
  BY PriceInit, PriceStep, <1>1, PTL DEF Spec

-----------------------------------------------------------------------------
(* Background jobs: the inductive invariant *)

\* IsSlot by the number of the slot.
AtSlot(j, t) == \E k \in Nat : t = k * Interval[j] + Offset[j]

\* A job waits for the first slot after its last run was over, or after the
\* startup run began; a run begins at its slot, or at once after a startup run
\* that went on over it, or is the startup run.
Timed(j) ==
  /\ pc[j] = "waiting" =>
       /\ AtSlot(j, next[j]) /\ since[j] <= ended[j] /\ ended[j] <= now
       /\ now <= next[j] \/ now = ended[j]
       /\ next[j] = NextSlot(j, ended[j]) \/ (j # "ob" /\ next[j] = NextSlot(j, since[j]))
  /\ pc[j] = "running" =>
       /\ since[j] <= now
       /\ \/ since[j] = next[j]
          \/ j # "ob" /\ since[j] = ended[j] /\ next[j] < ended[j]
          \/ j # "ob" /\ next[j] = NextSlot(j, since[j])

\* An hour that was there at its second slot is rebuilt, failed or cut, or the
\* run of that slot is about to begin or has not come past it.
Awaited(h) ==
  \/ h \in captured \cup failed \cup cut
  \/ pc["ob"] = "stopped"
  \/ pc["ob"] = "waiting" /\ now = next["ob"] /\ now = SecondSlot(h)
  \/ pc["ob"] = "running" /\ since["ob"] = SecondSlot(h) /\ Current(h)

JobsInv ==
  /\ JobsTypeOK
  /\ \A j \in Job : Timed(j)
  /\ due \subseteq files
  /\ \A h \in due : Awaited(h)

-----------------------------------------------------------------------------
(* Slots and hours *)

LEMMA JobConstants ==
  ASSUME NEW j \in Job
  PROVE  /\ Interval[j] \in Nat \ {0} /\ Offset[j] \in 0..(Interval[j] - 1)
         /\ SkipWindow \in Nat /\ Horizon \in Nat /\ HourLen \in Nat \ {0} /\ HourLen <= Horizon
BY TimeAssumption

LEMMA Times ==
  ASSUME NEW k \in Nat, NEW l \in Nat, NEW b \in Nat
  PROVE  /\ k * b \in Nat
         /\ k < l => k * b + b <= l * b
OBVIOUS

LEMMA Division ==
  ASSUME NEW a \in Nat, NEW b \in Nat \ {0}
  PROVE  \E q \in Nat : a \div b = q /\ q * b <= a /\ a < q * b + b
OBVIOUS

\* Both ways to say that a time is a slot.
LEMMA SlotNumbers ==
  ASSUME NEW j \in Job, NEW t \in Nat, IsSlot(j, t)
  PROVE  AtSlot(j, t)
<1>1. Interval[j] \in Nat \ {0} /\ t % Interval[j] = Offset[j]
  BY JobConstants DEF IsSlot
<1>2. t \div Interval[j] \in Nat /\ t = (t \div Interval[j]) * Interval[j] + (t % Interval[j])
  BY <1>1
<1>. QED
  BY <1>1, <1>2 DEF AtSlot

LEMMA NumberedSlots ==
  ASSUME NEW j \in Job, NEW t \in Nat, AtSlot(j, t)
  PROVE  IsSlot(j, t)
<1>. DEFINE I == Interval[j]  O == Offset[j]
<1>1. I \in Nat \ {0} /\ O \in 0..(I - 1)
  BY JobConstants
<1>2. PICK k \in Nat : t = k * I + O
  BY DEF AtSlot
<1>3. (k * I + O) % I = O
  <2>. HIDE DEF I, O
  <2>. QED
    BY <1>1
<1>. QED
  BY <1>2, <1>3 DEF IsSlot

\* The next slot is the first one after t (nextHourlyAt and its likes).
LEMMA FirstSlot ==
  ASSUME NEW j \in Job, NEW t \in Nat
  PROVE  /\ NextSlot(j, t) \in Nat /\ t < NextSlot(j, t) /\ AtSlot(j, NextSlot(j, t))
         /\ \A u \in Nat : AtSlot(j, u) /\ t < u => NextSlot(j, t) <= u
<1>. DEFINE I == Interval[j]  O == Offset[j]
<1>1. I \in Nat \ {0} /\ O \in 0..(I - 1)
  BY JobConstants
<1>2. PICK q \in Nat : t \div I = q /\ q * I <= t /\ t < q * I + I
  BY <1>1, Division
<1>. HIDE DEF I, O
<1>3. q * I \in Nat /\ (q + 1) * I = q * I + I
  BY <1>1
<1>4. NextSlot(j, t) = IF q * I + O > t THEN q * I + O ELSE q * I + O + I
  BY <1>2 DEF NextSlot, I, O
<1>5. AtSlot(j, q * I + O) /\ AtSlot(j, q * I + O + I)
  <2>1. q * I + O + I = (q + 1) * I + O /\ q + 1 \in Nat
    BY <1>1, <1>3
  <2>. QED
    BY <2>1 DEF AtSlot, I, O
<1>6. ASSUME NEW u \in Nat, AtSlot(j, u), t < u
      PROVE  NextSlot(j, t) <= u
  <2>1. PICK k \in Nat : u = k * I + O
    BY <1>6 DEF AtSlot, I, O
  <2>2. k * I \in Nat
    BY <1>1
  <2>3. ~ (k < q)
    <3>1. ASSUME k < q PROVE FALSE
      <4>1. k * I + I <= q * I
        BY <1>1, <3>1, Times
      <4>. QED
        BY <1>1, <1>2, <1>3, <1>6, <2>1, <2>2, <4>1
    <3>. QED
      BY <3>1
  <2>4. CASE k = q
    BY <1>1, <1>3, <1>4, <1>6, <2>1, <2>4
  <2>5. CASE q < k
    <3>1. q * I + I <= k * I
      BY <1>1, <2>5, Times
    <3>. QED
      BY <1>1, <1>3, <1>4, <2>1, <2>2, <3>1
  <2>. QED
    BY <2>3, <2>4, <2>5
<1>7. NextSlot(j, t) \in Nat /\ t < NextSlot(j, t)
  BY <1>1, <1>2, <1>3, <1>4
<1>. QED
  BY <1>4, <1>5, <1>6, <1>7

\* The hours of the sweep are hours; the second slot of an hour is a slot of
\* the order book job, two hours later.
LEMMA HourOfMonotone ==
  ASSUME NEW t \in Nat, NEW u \in Nat, t <= u
  PROVE  HourOf(t) \in Nat /\ HourOf(u) \in Nat /\ HourOf(t) <= HourOf(u)
<1>1. HourLen \in Nat \ {0}
  BY TimeAssumption
<1>2. PICK q \in Nat : t \div HourLen = q /\ q * HourLen <= t /\ t < q * HourLen + HourLen
  BY <1>1, Division
<1>3. PICK r \in Nat : u \div HourLen = r /\ r * HourLen <= u /\ u < r * HourLen + HourLen
  BY <1>1, Division
<1>4. q * HourLen \in Nat /\ r * HourLen \in Nat
  BY <1>1
<1>5. ~ (r < q)
  <2>1. ASSUME r < q PROVE FALSE
    <3>1. r * HourLen + HourLen <= q * HourLen
      BY <1>1, <2>1, Times
    <3>. QED
      BY <1>1, <1>2, <1>3, <1>4, <3>1
  <2>. QED
    BY <2>1
<1>. QED
  BY <1>2, <1>3, <1>5 DEF HourOf

LEMMA SecondSlots ==
  ASSUME NEW h \in Hour
  PROVE  /\ SecondSlot(h) \in Nat /\ AtSlot("ob", SecondSlot(h))
         /\ HourOf(SecondSlot(h)) = h + 2
<1>. DEFINE k == h + 2  O == Offset["ob"]
<1>1. HourLen \in Nat \ {0} /\ Interval["ob"] = HourLen /\ O \in 0..(HourLen - 1) /\ Horizon \in Nat
  BY TimeAssumption DEF Job
<1>2. k \in Nat
  <2>1. HourOf(Horizon) \in Nat
    BY <1>1, HourOfMonotone
  <2>. QED
    BY <2>1 DEF Hour
<1>. HIDE DEF O, k
<1>3. SecondSlot(h) = k * HourLen + O /\ k * HourLen \in Nat
  BY <1>1, <1>2 DEF SecondSlot, k, O
<1>4. (k * HourLen + O) \div HourLen = k
  BY <1>1, <1>2
<1>5. SecondSlot(h) \in Nat /\ AtSlot("ob", SecondSlot(h))
  <2>1. SecondSlot(h) = k * Interval["ob"] + Offset["ob"]
    BY <1>1, <1>3 DEF O
  <2>2. SecondSlot(h) \in Nat
    BY <1>1, <1>3
  <2>. QED
    BY <1>2, <2>1, <2>2 DEF AtSlot
<1>. QED
  BY <1>3, <1>4, <1>5 DEF HourOf, k

-----------------------------------------------------------------------------
(* The steps of the jobs *)

\* A type of the times a job keeps.
LEMMA TimeType ==
  ASSUME NEW f, f \in [Job -> Nat], NEW j \in Job, NEW t \in Nat
  PROVE  [f EXCEPT ![j] = t] \in [Job -> Nat]
OBVIOUS

LEMMA JobsTypeStep ==
  ASSUME JobsInv, [JobsNext]_jobsVars
  PROVE  JobsTypeOK'
<1>. USE DEF To
<1>0. /\ JobsTypeOK /\ now \in Nat /\ now <= Horizon /\ Horizon \in Nat
      /\ next \in [Job -> Nat] /\ since \in [Job -> Nat] /\ ended \in [Job -> Nat]
  BY TimeAssumption DEF JobsInv, JobsTypeOK
<1>h. HourOf(now) \in Nat /\ HourOf(Horizon) \in Nat /\ HourOf(now) <= HourOf(Horizon)
  BY <1>0, HourOfMonotone
<1>1. ASSUME NEW j \in Job, Start(j) PROVE JobsTypeOK'
  <2>1. NextSlot(j, now) \in Nat
    BY <1>0, FirstSlot
  <2>2. /\ next' \in [Job -> Nat] /\ since' \in [Job -> Nat] /\ ended' \in [Job -> Nat]
    BY <1>0, <1>1, <2>1, TimeType DEF Start
  <2>3. pc' \in [Job -> {"off", "waiting", "running", "stopped"}]
    BY <1>0, <1>1 DEF Start, JobsTypeOK
  <2>4. UNCHANGED <<now, sweep, ctxDone, files, due>>
    BY <1>1 DEF Start
  <2>. QED
    BY <1>0, <2>2, <2>3, <2>4 DEF sweep, JobsTypeOK
<1>2. ASSUME NEW j \in Job, Fire(j) PROVE JobsTypeOK'
  <2>1. Swept \subseteq Hour
    BY <1>h DEF Swept, Hour
  <2>2. since' \in [Job -> Nat] /\ UNCHANGED <<next, ended>>
    BY <1>0, <1>2, TimeType DEF Fire
  <2>3. pc' \in [Job -> {"off", "waiting", "running", "stopped"}]
    BY <1>0, <1>2 DEF Fire, JobsTypeOK
  <2>4. hours' \in {hours, Swept} /\ begun' \in {begun, FALSE} /\ anyBars' \in {anyBars, FALSE}
        /\ UNCHANGED <<now, first, captured, failed, cut, ctxDone, files, due>>
    BY <1>2 DEF Fire
  <2>. QED
    BY <1>0, <2>1, <2>2, <2>3, <2>4 DEF JobsTypeOK
<1>3. ASSUME NEW j \in Job, Finish(j) PROVE JobsTypeOK'
  <2>1. NextSlot(j, now) \in Nat
    BY <1>0, FirstSlot
  <2>2. Rearmed(j) \in Nat
    BY <1>0, <2>1 DEF Rearmed
  <2>3. /\ next' \in [Job -> Nat] /\ ended' \in [Job -> Nat]
    BY <1>0, <1>3, <2>2, TimeType DEF Finish
  <2>4. pc' \in [Job -> {"off", "waiting", "running", "stopped"}]
    BY <1>0, <1>3 DEF Finish, JobsTypeOK
  <2>5. UNCHANGED <<now, since, sweep, ctxDone, files, due>>
    BY <1>3 DEF Finish
  <2>. QED
    BY <1>0, <2>3, <2>4, <2>5 DEF sweep, JobsTypeOK
<1>4. ASSUME NEW j \in Job, Stop(j) PROVE JobsTypeOK'
  BY <1>0, <1>4 DEF Stop, sweep, JobsTypeOK
<1>5. CASE Begin
  <2>1. /\ UNCHANGED <<now, pc, next, since, ended, ctxDone, files, due, anyBars, first, captured>>
        /\ begun' = TRUE
    BY <1>5 DEF Begin, InRun, jobs
  <2>2. hours' \subseteq hours /\ cut' \subseteq cut \cup hours /\ failed' \subseteq failed \cup Hour
    BY <1>5 DEF Begin, FromFirstRow
  <2>. QED
    BY <1>0, <2>1, <2>2 DEF JobsTypeOK
<1>6. ASSUME NEW h \in Hour, SweepHour(h) PROVE JobsTypeOK'
  <2>1. /\ UNCHANGED <<now, pc, next, since, ended, ctxDone, files, due, begun, cut>>
        /\ hours' \subseteq hours
    BY <1>6 DEF SweepHour, Rebuild, Fail, NoFile, AtHour, InRun, jobs
  <2>2. captured' \subseteq captured \cup {h} /\ failed' \subseteq failed \cup {h}
        /\ anyBars' \in {anyBars, TRUE}
    BY <1>6 DEF SweepHour, Rebuild, Fail, NoFile
  <2>3. first' \in Hour \cup {NoRows}
    <3>1. \/ first' \in {first, h}
          \/ first' \in {NoRows} \cup (h + 1)..HourOf(now)
      BY <1>6 DEF SweepHour, Rebuild, Fail, NoFile
    <3>2. (h + 1)..HourOf(now) \subseteq Hour
      BY <1>h DEF Hour
    <3>. QED
      BY <1>0, <3>1, <3>2 DEF JobsTypeOK
  <2>. QED
    BY <1>0, <2>1, <2>2, <2>3 DEF JobsTypeOK
<1>7. ASSUME NEW h \in Hour, Publish(h) PROVE JobsTypeOK'
  BY <1>0, <1>7 DEF Publish, jobs, sweep, JobsTypeOK
<1>8. CASE LiveRow
  <2>1. first' \in Hour
    BY <1>8, <1>h DEF LiveRow, Hour
  <2>. QED
    BY <1>0, <1>8, <2>1 DEF LiveRow, jobs, JobsTypeOK
<1>9. CASE Tick
  <2>1. now' \in 0..Horizon
    BY <1>0, <1>9 DEF Tick
  <2>2. due' \subseteq due \cup files
    BY <1>9 DEF Tick
  <2>3. UNCHANGED <<jobs, sweep, ctxDone, files>>
    BY <1>9 DEF Tick
  <2>. QED
    BY <1>0, <2>1, <2>2, <2>3 DEF jobs, sweep, JobsTypeOK
<1>10. CASE Cancel \/ UNCHANGED jobsVars
  BY <1>0, <1>10 DEF Cancel, jobsVars, jobs, sweep, JobsTypeOK
<1>. QED
  BY <1>1, <1>2, <1>3, <1>4, <1>5, <1>6, <1>7, <1>8, <1>9, <1>10 DEF JobsNext, Goroutine

\* Jobs that did not move, in the same unit of time.
LEMMA TimedKept ==
  ASSUME NEW j \in Job, Timed(j), now' = now,
         pc'[j] = pc[j], next'[j] = next[j], since'[j] = since[j], ended'[j] = ended[j]
  PROVE  Timed(j)'
BY DEF Timed

LEMMA TimedStep ==
  ASSUME JobsInv, [JobsNext]_jobsVars, NEW i \in Job
  PROVE  Timed(i)'
<1>. USE DEF To
<1>0. /\ Timed(i) /\ now \in Nat /\ pc \in [Job -> {"off", "waiting", "running", "stopped"}]
      /\ next \in [Job -> Nat] /\ since \in [Job -> Nat] /\ ended \in [Job -> Nat]
  BY DEF JobsInv, JobsTypeOK
<1>n. next[i] \in Nat /\ since[i] \in Nat /\ ended[i] \in Nat
  BY <1>0
<1>s. NextSlot(i, now) \in Nat /\ now < NextSlot(i, now) /\ AtSlot(i, NextSlot(i, now))
  BY <1>0, FirstSlot
<1>1. ASSUME NEW j \in Job, Start(j) PROVE Timed(i)'
  <2>1. CASE i # j
    BY <1>0, <1>1, <2>1, TimedKept DEF Start
  <2>2. CASE i = j
    <3>1. /\ pc'[i] \in {"waiting", "running"} /\ next'[i] = NextSlot(i, now) /\ since'[i] = now
          /\ ended'[i] = now /\ now' = now /\ (pc'[i] = "running" => i # "ob")
      BY <1>0, <1>1, <2>2 DEF Start
    <3>. QED
      BY <1>0, <1>s, <3>1 DEF Timed
  <2>. QED
    BY <2>1, <2>2
<1>2. ASSUME NEW j \in Job, Fire(j) PROVE Timed(i)'
  <2>1. CASE i # j
    BY <1>0, <1>2, <2>1, TimedKept DEF Fire
  <2>2. CASE i = j
    <3>1. /\ pc[i] = "waiting" /\ next[i] <= now /\ pc'[i] = "running" /\ since'[i] = now
          /\ next'[i] = next[i] /\ ended'[i] = ended[i] /\ now' = now
      BY <1>0, <1>2, <2>2 DEF Fire
    <3>2. /\ now <= next[i] \/ now = ended[i]
          /\ next[i] = NextSlot(i, ended[i]) \/ i # "ob"
      BY <1>0, <3>1 DEF Timed
    <3>3. ended[i] < NextSlot(i, ended[i])
      BY <1>n, FirstSlot
    <3>4. \/ now = next[i]
          \/ i # "ob" /\ now = ended[i] /\ next[i] < ended[i]
      BY <1>0, <1>n, <3>1, <3>2, <3>3
    <3>. QED
      BY <1>0, <3>1, <3>4 DEF Timed
  <2>. QED
    BY <2>1, <2>2
<1>3. ASSUME NEW j \in Job, Finish(j) PROVE Timed(i)'
  <2>1. CASE i # j
    BY <1>0, <1>3, <2>1, TimedKept DEF Finish
  <2>2. CASE i = j
    <3>1. /\ pc[i] = "running" /\ pc'[i] = "waiting" /\ since'[i] = since[i] /\ now' = now
          /\ ended'[i] = now
          /\ next'[i] = IF since[i] < next[i] THEN next[i] ELSE NextSlot(i, now)
      BY <1>0, <1>3, <2>2 DEF Finish, Rearmed
    <3>2. since[i] <= now
      BY <1>0, <3>1 DEF Timed
    <3>3. CASE since[i] < next[i]
      <4>1. i # "ob" /\ next[i] = NextSlot(i, since[i])
        BY <1>0, <1>n, <3>1, <3>3 DEF Timed
      <4>2. AtSlot(i, next[i])
        BY <1>n, <4>1, FirstSlot
      <4>. QED
        BY <1>0, <1>n, <3>1, <3>2, <3>3, <4>1, <4>2 DEF Timed
    <3>4. CASE ~ (since[i] < next[i])
      BY <1>0, <1>s, <3>1, <3>2, <3>4 DEF Timed
    <3>. QED
      BY <3>3, <3>4
  <2>. QED
    BY <2>1, <2>2
<1>4. ASSUME NEW j \in Job, Stop(j) PROVE Timed(i)'
  <2>1. CASE i # j
    BY <1>0, <1>4, <2>1, TimedKept DEF Stop
  <2>2. CASE i = j
    BY <1>0, <1>4, <2>2 DEF Stop, Timed
  <2>. QED
    BY <2>1, <2>2
<1>5. CASE Tick
  <2>1. /\ now' = now + 1 /\ pc' = pc /\ next' = next /\ since' = since /\ ended' = ended
        /\ pc[i] = "waiting" => now < next[i]
    BY <1>5 DEF Tick, jobs
  <2>. QED
    BY <1>0, <1>n, <2>1 DEF Timed
<1>6. CASE \/ \E h \in Hour : SweepHour(h) \/ Publish(h)
           \/ Begin \/ LiveRow \/ Cancel \/ UNCHANGED jobsVars
  <2>1. UNCHANGED <<now, jobs>>
    BY <1>6
    DEF SweepHour, Rebuild, Fail, NoFile, AtHour, InRun, Begin, LiveRow, Publish, Cancel,
        jobsVars
  <2>. QED
    BY <1>0, <2>1, TimedKept DEF jobs
<1>. QED
  BY <1>1, <1>2, <1>3, <1>4, <1>5, <1>6 DEF JobsNext, Goroutine

\* A second slot that comes while no run is going on is the one the order book
\* job waits for.
LEMMA SlotIsNext ==
  ASSUME JobsInv, Tick, NEW h \in Hour, SecondSlot(h) = now + 1, pc["ob"] # "running"
  PROVE  pc["ob"] = "stopped" \/ (pc["ob"] = "waiting" /\ next["ob"] = now + 1)
<1>1. /\ next["ob"] \in Nat /\ ended["ob"] \in Nat /\ now \in Nat /\ "ob" \in Job
      /\ pc["ob"] \in {"off", "waiting", "running", "stopped"}
  BY DEF JobsInv, JobsTypeOK, Job
<1>2. pc["ob"] # "off" /\ (pc["ob"] = "waiting" => now < next["ob"])
  BY <1>1 DEF Tick
<1>3. AtSlot("ob", now + 1) /\ now + 1 \in Nat
  BY <1>1, SecondSlots
<1>4. ASSUME pc["ob"] = "waiting" PROVE next["ob"] = now + 1
  <2>1. next["ob"] = NextSlot("ob", ended["ob"]) /\ ended["ob"] < now + 1
    BY <1>1, <1>4 DEF JobsInv, Timed
  <2>2. next["ob"] <= now + 1
    BY <1>1, <1>3, <2>1, FirstSlot
  <2>. QED
    BY <1>1, <1>2, <1>4, <2>2
<1>. QED
  BY <1>1, <1>2, <1>4

LEMMA AwaitedStep ==
  ASSUME JobsInv, [JobsNext]_jobsVars
  PROVE  due' \subseteq files' /\ \A h \in due' : Awaited(h)'
<1>. USE DEF To
<1>0. /\ JobsTypeOK /\ due \subseteq files /\ files \subseteq Hour /\ now \in Nat /\ "ob" \in Job
      /\ pc \in [Job -> {"off", "waiting", "running", "stopped"}]
      /\ next \in [Job -> Nat] /\ since \in [Job -> Nat]
      /\ \A h \in due : Awaited(h)
  BY DEF JobsInv, JobsTypeOK, Job
<1>1. ASSUME NEW j \in Job, Start(j) PROVE due' \subseteq files' /\ \A h \in due' : Awaited(h)'
  <2>1. /\ UNCHANGED <<now, hours, captured, failed, cut, due, files>> /\ pc[j] = "off"
        /\ \A i \in Job \ {j} : pc'[i] = pc[i] /\ next'[i] = next[i] /\ since'[i] = since[i]
    BY <1>0, <1>1 DEF Start, sweep
  <2>2. \A h \in due : h \in captured \cup failed \cup cut \/ j # "ob"
    BY <1>0, <2>1 DEF Awaited
  <2>. QED
    BY <1>0, <2>1, <2>2 DEF Awaited, Current
<1>2. ASSUME NEW j \in Job, Fire(j) PROVE due' \subseteq files' /\ \A h \in due' : Awaited(h)'
  <2>1. /\ UNCHANGED <<now, captured, failed, cut, due, files, next>> /\ pc[j] = "waiting"
        /\ \A i \in Job \ {j} : pc'[i] = pc[i] /\ since'[i] = since[i]
        /\ pc'[j] = "running" /\ since'[j] = now
        /\ IF j = "ob" THEN hours' = Swept ELSE hours' = hours
    BY <1>0, <1>2 DEF Fire
  <2>2. CASE j # "ob"
    BY <1>0, <2>1, <2>2 DEF Awaited, Current
  <2>3. CASE j = "ob"
    <3>1. ASSUME NEW h \in due, now = SecondSlot(h)
          PROVE  h \in hours' /\ \A g \in hours' : h <= g
      <4>1. h \in Hour /\ HourOf(now) = h + 2
        BY <1>0, <3>1, SecondSlots
      <4>2. h \in Int
        BY <4>1 DEF Hour
      <4>3. hours' = {h, h + 1}
        BY <2>1, <2>3, <4>1, <4>2 DEF Swept
      <4>. QED
        BY <4>2, <4>3
    <3>2. ASSUME NEW h \in due PROVE Awaited(h)'
      <4>1. h \in captured \cup failed \cup cut \/ now = SecondSlot(h)
        BY <1>0, <2>1, <2>3 DEF Awaited
      <4>. QED
        BY <2>1, <2>3, <3>1, <4>1 DEF Awaited, Current
    <3>. QED
      BY <1>0, <2>1, <3>2
  <2>. QED
    BY <2>2, <2>3
<1>3. ASSUME NEW j \in Job, Finish(j) PROVE due' \subseteq files' /\ \A h \in due' : Awaited(h)'
  <2>1. /\ UNCHANGED <<now, hours, captured, failed, cut, due, files, since>> /\ pc[j] = "running"
        /\ \A i \in Job \ {j} : pc'[i] = pc[i] /\ next'[i] = next[i]
        /\ j = "ob" => hours = {}
    BY <1>0, <1>3 DEF Finish, sweep
  <2>2. CASE j # "ob"
    BY <1>0, <2>1, <2>2 DEF Awaited, Current
  <2>3. CASE j = "ob"
    <3>1. \A h \in due : h \in captured \cup failed \cup cut
      BY <1>0, <2>1, <2>3 DEF Awaited, Current
    <3>. QED
      BY <1>0, <2>1, <3>1 DEF Awaited
  <2>. QED
    BY <2>2, <2>3
<1>4. ASSUME NEW j \in Job, Stop(j) PROVE due' \subseteq files' /\ \A h \in due' : Awaited(h)'
  <2>1. /\ UNCHANGED <<now, hours, captured, failed, cut, due, files, next, since>>
        /\ \A i \in Job \ {j} : pc'[i] = pc[i]
        /\ pc'[j] = "stopped"
    BY <1>0, <1>4 DEF Stop, sweep
  <2>. QED
    BY <1>0, <2>1 DEF Awaited, Current
<1>5. CASE Begin
  <2>1. /\ UNCHANGED <<now, pc, next, since, due, files, captured>> /\ pc["ob"] = "running"
        /\ failed \subseteq failed' /\ cut \subseteq cut'
    BY <1>5 DEF Begin, InRun, jobs
  <2>2. ASSUME NEW h \in due, since["ob"] = SecondSlot(h), Current(h)
        PROVE  h \in failed' \cup cut' \/ Current(h)'
    <3>1. h \in Hour /\ HourOf(since["ob"]) = h + 2
      BY <1>0, <2>2, SecondSlots
    <3>2. h \in Int /\ first \in Int
      <4>1. HourOf(Horizon) \in Nat
        BY HourOfMonotone, TimeAssumption
      <4>. QED
        BY <1>0, <3>1, <4>1 DEF Hour, NoRows, JobsTypeOK
    <3>3. CASE hours' = FromFirstRow /\ cut' = cut \cup {g \in hours : g < first}
      BY <2>2, <3>2, <3>3 DEF FromFirstRow, Current
    <3>4. CASE UNCHANGED hours
      BY <2>2, <3>4 DEF Current
    <3>5. CASE failed' = failed \cup {g \in Hour : SecondSweep(g)}
      BY <2>2, <3>1, <3>2, <3>5 DEF SecondSweep
    <3>. QED
      BY <1>5, <3>3, <3>4, <3>5 DEF Begin
  <2>. QED
    BY <1>0, <2>1, <2>2 DEF Awaited
<1>6. ASSUME NEW g \in Hour, SweepHour(g)
      PROVE  due' \subseteq files' /\ \A h \in due' : Awaited(h)'
  <2>1. /\ UNCHANGED <<now, pc, next, since, due, files, cut>> /\ pc["ob"] = "running" /\ Current(g)
        /\ captured \subseteq captured' /\ failed \subseteq failed'
    BY <1>6 DEF SweepHour, Rebuild, Fail, NoFile, AtHour, InRun, jobs
  <2>2. ASSUME NEW h \in due, since["ob"] = SecondSlot(h), Current(h)
        PROVE  h \in captured' \cup failed'
    <3>1. h \in Hour /\ HourOf(since["ob"]) = h + 2
      BY <1>0, <2>2, SecondSlots
    <3>2. h \in Int /\ g \in Int
      BY <3>1 DEF Hour
    <3>3. h = g
      BY <2>1, <2>2, <3>2 DEF Current
    <3>4. CASE Rebuild(g)
      BY <3>3, <3>4 DEF Rebuild
    <3>5. CASE Fail(g)
      BY <2>2, <3>1, <3>2, <3>3, <3>5 DEF Fail, SecondSweep
    <3>6. CASE NoFile(g)
      BY <1>0, <3>3, <3>6 DEF NoFile
    <3>. QED
      BY <1>6, <3>4, <3>5, <3>6 DEF SweepHour
  <2>3. \A h \in due : h \in captured' \cup failed' \cup cut'
    BY <1>0, <2>1, <2>2 DEF Awaited
  <2>. QED
    BY <1>0, <2>1, <2>3 DEF Awaited
<1>7. ASSUME NEW g \in Hour, Publish(g)
      PROVE  due' \subseteq files' /\ \A h \in due' : Awaited(h)'
  BY <1>0, <1>7 DEF Publish, jobs, sweep, Awaited, Current
<1>8. CASE Tick
  <2>1. /\ now' = now + 1 /\ UNCHANGED <<pc, next, since, hours, captured, failed, cut, files>>
        /\ due' = due \cup {h \in files : SecondSlot(h) = now + 1 /\ pc["ob"] # "running"}
        /\ pc["ob"] = "waiting" => now < next["ob"]
    BY <1>0, <1>8 DEF Tick, jobs, sweep
  <2>2. ASSUME NEW h \in files, SecondSlot(h) = now + 1, pc["ob"] # "running" PROVE Awaited(h)'
    <3>1. pc["ob"] = "stopped" \/ (pc["ob"] = "waiting" /\ next["ob"] = now + 1)
      BY <1>0, <1>8, <2>2, SlotIsNext
    <3>. QED
      BY <2>1, <2>2, <3>1 DEF Awaited, SecondSlot
  <2>3. ASSUME NEW h \in due PROVE Awaited(h)'
    <3>1. \/ h \in captured \cup failed \cup cut \/ pc["ob"] = "stopped"
          \/ pc["ob"] = "running" /\ since["ob"] = SecondSlot(h) /\ Current(h)
      <4>1. ~ (pc["ob"] = "waiting" /\ now = next["ob"])
        BY <1>0, <2>1
      <4>. QED
        BY <1>0, <2>3, <4>1 DEF Awaited
    <3>. QED
      BY <2>1, <3>1 DEF Awaited, Current, SecondSlot
  <2>. QED
    BY <1>0, <2>1, <2>2, <2>3
<1>9. CASE LiveRow \/ Cancel \/ UNCHANGED jobsVars
  BY <1>0, <1>9 DEF LiveRow, Cancel, jobsVars, jobs, sweep, Awaited, Current
<1>. QED
  BY <1>1, <1>2, <1>3, <1>4, <1>5, <1>6, <1>7, <1>8, <1>9 DEF JobsNext, Goroutine

LEMMA JobsInitInv == JobsInit => JobsInv
<1>. SUFFICES ASSUME JobsInit PROVE JobsInv
  OBVIOUS
<1>1. HourLen \in Nat \ {0} /\ Horizon \in Nat /\ HourLen <= Horizon
  BY TimeAssumption
<1>2. now \in 0..Horizon
  BY <1>1 DEF JobsInit
<1>3. JobsTypeOK
  <2>1. now \in Nat
    BY <1>1, <1>2
  <2>2. pc \in [Job -> {"off", "waiting", "running", "stopped"}] /\ next \in [Job -> Nat]
        /\ since \in [Job -> Nat] /\ ended \in [Job -> Nat]
    BY <2>1 DEF JobsInit
  <2>3. {hours, files, captured, failed, cut, due} \subseteq SUBSET Hour
        /\ first \in Hour \cup {NoRows}
    BY DEF JobsInit
  <2>. QED
    BY <1>2, <2>2, <2>3 DEF JobsInit, JobsTypeOK
<1>4. \A j \in Job : Timed(j)
  BY DEF JobsInit, Timed
<1>. QED
  BY <1>3, <1>4 DEF JobsInit, JobsInv

LEMMA JobsStep == JobsInv /\ [JobsNext]_jobsVars => JobsInv'
BY JobsTypeStep, TimedStep, AwaitedStep DEF JobsInv

\* A job loses a slot only to a run of its own that is going on at that time
\* (startOBBackfill, startNetflowBackfill, startFredBackfill): for every
\* cadence and however long a run takes.
THEOREM SlotTheorem == JobsSpec => []NoSlotLost
<1>1. JobsInv => NoSlotLost
  <2>. SUFFICES ASSUME JobsInv, NEW j \in Job
       PROVE  /\ pc[j] = "waiting" =>
                   /\ IsSlot(j, next[j]) /\ (now <= next[j] \/ now = ended[j])
                   /\ \A t \in (since[j] + 1)..(next[j] - 1) : IsSlot(j, t) => t <= ended[j]
              /\ pc[j] = "running" /\ ~ Startup(j) =>
                   since[j] = next[j] \/ (since[j] = ended[j] /\ next[j] < ended[j])
    BY DEF NoSlotLost
  <2>1. Timed(j) /\ since[j] \in Nat /\ next[j] \in Nat /\ ended[j] \in Nat
    BY DEF JobsInv, JobsTypeOK
  <2>2. ASSUME pc[j] = "waiting", NEW t \in (since[j] + 1)..(next[j] - 1), IsSlot(j, t),
               ~ (t <= ended[j])
        PROVE  FALSE
    <3>1. t \in Nat /\ since[j] < t /\ ended[j] < t /\ t < next[j] /\ AtSlot(j, t)
      BY <2>1, <2>2, SlotNumbers
    <3>2. next[j] = NextSlot(j, since[j]) \/ next[j] = NextSlot(j, ended[j])
      BY <2>1, <2>2 DEF Timed
    <3>3. next[j] <= t
      BY <2>1, <3>1, <3>2, FirstSlot
    <3>. QED
      BY <2>1, <3>1, <3>3
  <2>3. pc[j] = "waiting" => IsSlot(j, next[j]) /\ (now <= next[j] \/ now = ended[j])
    BY <2>1, NumberedSlots DEF Timed
  <2>4. ASSUME pc[j] = "running", ~ Startup(j)
        PROVE  since[j] = next[j] \/ (since[j] = ended[j] /\ next[j] < ended[j])
    <3>1. ~ (since[j] < next[j])
      BY <2>4 DEF Startup
    <3>2. since[j] < NextSlot(j, since[j])
      BY <2>1, FirstSlot
    <3>. QED
      BY <2>1, <2>4, <3>1, <3>2 DEF Timed
  <2>. QED
    BY <2>2, <2>3, <2>4
<1>. QED
  BY JobsInitInv, JobsStep, <1>1, PTL DEF JobsSpec

\* An hour whose file is there at its second slot, with no run in the way, is
\* rebuilt, fails or is cut in that sweep (runOBBackfill and Coordinator.Run):
\* no 404, no earlier run and no run that was cut short takes it away.
THEOREM SweepTheorem == JobsSpec => []DelayedHourCaptured
<1>1. JobsInv => DelayedHourCaptured
  <2>. SUFFICES ASSUME JobsInv, pc["ob"] = "waiting", now < next["ob"], NEW h \in due
                PROVE  h \in captured \cup failed \cup cut
    BY DEF DelayedHourCaptured
  <2>1. now \in Nat /\ next["ob"] \in Nat /\ Awaited(h)
    BY DEF JobsInv, JobsTypeOK, Job
  <2>. QED
    BY <2>1 DEF Awaited
<1>. QED
  BY JobsInitInv, JobsStep, <1>1, PTL DEF JobsSpec
=============================================================================
