--------------------------- MODULE MCOrderBridge ---------------------------
(***************************************************************************)
(* OrderBridge for TLC: the messages of the engine.  The lot is 2, so a    *)
(* size of 3 is rounded and a size of 1 is below the minimum; leverage 4   *)
(* is out of range.                                                        *)
(***************************************************************************)
EXTENDS OrderBridge

Base == [kind |-> "order", parses |-> TRUE, subject |-> "open", action |-> "open",
         named |-> TRUE, side |-> "BUY", type |-> "market", priced |-> FALSE,
         size |-> 3, lev |-> 0, target |-> 0]

OpenLong == [Base EXCEPT !.lev = 2]
OpenShort == [Base EXCEPT !.side = "SELL", !.lev = 3, !.type = "limit", !.priced = TRUE]
OpenTiny == [Base EXCEPT !.size = 1]
CloseLong == [Base EXCEPT !.side = "SELL", !.action = "close", !.subject = "close", !.size = 4]
RestingClose == [CloseLong EXCEPT !.priced = TRUE]
CloseBySubject == [CloseLong EXCEPT !.action = ""]
Leverage == [Base EXCEPT !.kind = "set_leverage", !.lev = 1]
TooMuch == [Leverage EXCEPT !.lev = 4]
Cancel == [Base EXCEPT !.kind = "cancel", !.target = 1]
BadLeverage == [Leverage EXCEPT !.parses = FALSE]
BadCancel == [Cancel EXCEPT !.parses = FALSE]
NoPrice == [Base EXCEPT !.type = "limit"]

AllRequests ==
  {OpenLong, OpenShort, CloseLong, CloseBySubject, RestingClose, OpenTiny, Leverage, TooMuch, Cancel,
   BadLeverage, BadCancel, NoPrice, [Base EXCEPT !.side = "other"],
   [CloseLong EXCEPT !.named = FALSE]}
=============================================================================
