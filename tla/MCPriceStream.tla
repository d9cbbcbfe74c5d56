--------------------------- MODULE MCPriceStream ---------------------------
(***************************************************************************)
(* PriceStream for TLC: four trades of one symbol in three minutes, and    *)
(* one of another symbol; they may arrive in any order.                    *)
(***************************************************************************)
EXTENDS PriceStream

mcSymbol == {"BTC", "ETH"}
mcTrade == 1..5
mcSymbolOf == [t \in mcTrade |-> IF t = 5 THEN "ETH" ELSE "BTC"]
mcMinuteOf == <<1, 1, 2, 3, 1>>
=============================================================================
