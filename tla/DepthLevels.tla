---------------------------- MODULE DepthLevels ----------------------------
(***************************************************************************)
(* Prices, quantities and books of one symbol, shared by DepthBook and     *)
(* DepthBookTreap.                                                         *)
(***************************************************************************)
EXTENDS Integers, FiniteSetsExt, Functions

CONSTANTS Price,      \* scaled prices
          Qty,        \* quantities of a level
          Market,     \* books the exchange may have
          Feed,       \* which feeds are modelled
          WarmDepth,  \* minWarmDepth
          MaxVersion  \* bound on the exchange's book versions

ASSUME PriceAssumption == Price \subseteq Nat \ {0}
ASSUME QtyAssumption == Qty \subseteq Nat \ {0}
ASSUME FeedAssumption == Feed \subseteq {"file", "stream"}
ASSUME BoundAssumption == WarmDepth \in Nat /\ MaxVersion \in Nat

Side == {"bid", "ask"}
Books == [Side -> [Price -> Qty \cup {0}]]
Empty == [s \in Side |-> [p \in Price |-> 0]]
Held(b, s) == {p \in Price : b[s][p] # 0}

\* No bid of an exchange's book reaches an ask.
Uncrossed(b) == \A p \in Held(b, "bid"), q \in Held(b, "ask") : p < q

ASSUME MarketAssumption == Market \subseteq Books /\ \A b \in Market : Uncrossed(b)

\* bestBid and bestAsk: 0 stands for an empty side.
Best(b, s) ==
  IF Held(b, s) = {} THEN 0
  ELSE IF s = "bid" THEN Max(Held(b, s)) ELSE Min(Held(b, s))

Spread(bid, ask) == IF bid > 0 /\ ask > bid THEN <<bid, ask>> ELSE <<>>

SumDepth(b, s) == SumFunction(b[s])
=============================================================================
