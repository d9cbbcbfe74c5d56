----------------------------- MODULE OrderBridge -----------------------------
(***************************************************************************)
(* Orders of the trading engine on their way to the exchange: messages on  *)
(* "orders.<symbol>.<action>", one bridge per daemon, all of them in one   *)
(* queue group (internal/trading/bridge.go), the REST connector behind it  *)
(* (rest_connector.go, rest/binance.go) and the futures account.           *)
(*                                                                         *)
(* One symbol.  NATS runs the handler of a subscription for one message    *)
(* at a time; a step here ends at a request to the exchange or a reply.    *)
(* Quantities are whole numbers of the smallest size an engine may ask.    *)
(***************************************************************************)
EXTENDS Integers, Sequences

CONSTANTS Daemon,       \* processes with a bridge
          Requests,     \* messages the engine may send
          NoOrder,
          LotStep,      \* LOT_SIZE step of the symbol
          MinQty,       \* and its minimum
          MaxLeverage,  \* of the exchange (125)
          MaxMessages   \* bound: messages of the engine

ASSUME LotAssumption == LotStep \in Nat \ {0} /\ MinQty \in Nat
ASSUME BoundAssumption == MaxLeverage \in Nat \ {0} /\ MaxMessages \in Nat

Id == 1..MaxMessages
Action == {"open", "close", ""}

\* A message: the action of its subject, and the payload.  parses is FALSE
\* for bad JSON; action "" and lev 0 are absent fields, named says that the
\* payload has the symbol, priced that price > 0; of a cancel only the order
\* it refers to matters.  A post-only order is a limit order here.
Message ==
  [kind : {"order", "set_leverage", "cancel"}, parses : BOOLEAN,
   subject : {"open", "close"}, action : Action, named : BOOLEAN,
   side : {"BUY", "SELL", "other"}, type : {"market", "limit", "other"},
   priced : BOOLEAN, size : Nat, lev : Int, target : Nat]

ASSUME RequestsAssumption == Requests \subseteq Message

\* What domain.OrderRequest keeps of an order.
Translated ==
  [side : {"BUY", "SELL"}, limit : BOOLEAN, priced : BOOLEAN, named : BOOLEAN,
   reduce : BOOLEAN]

VARIABLES
  msgs,    \* messages sent, by identity
  inbox,   \* daemon -> messages NATS has delivered to it
  alive,   \* daemons still running
  pc,      \* daemon -> the next request of its handler
  cur,     \* daemon -> the message it handles, or 0
  qty,     \* daemon -> quantity after rounding
  reply,   \* daemon -> outcome it is about to report
  report,  \* message -> the execution report sent back, or "none"
  pos,     \* the account: position,
  lev,     \*   leverage of the symbol,
  placed   \*   and orders accepted: message -> order or NoOrder

VARIABLES      \* history
  owner,   \* message -> daemons it was delivered to
  raced,   \* daemons under whose order another one changed the leverage
  lost,    \* messages whose order was accepted and the answer lost
  unsized, \* messages whose order goes out without a known lot size
  times    \* message -> how often the exchange accepted its order

account == <<pos, lev, placed>>
record == <<unsized, times>>
history == <<owner, raced, lost, record>>
vars == <<msgs, inbox, alive, pc, cur, qty, reply, report, account, history>>

Outcome == {"error", "unfilled", "filled", "ok"}

Order ==
  [side : {"BUY", "SELL"}, limit : BOOLEAN, reduce : BOOLEAN, qty : Nat,
   resting : BOOLEAN, executed : Nat, lev : Nat, raced : BOOLEAN]

ASSUME NoOrderAssumption == NoOrder \notin Order

TypeOK ==
  /\ msgs \in Seq(Requests) /\ Len(msgs) <= MaxMessages
  /\ inbox \in [Daemon -> Seq(Id)] /\ alive \subseteq Daemon
  /\ pc \in [Daemon -> {"idle", "leverage", "lot", "submit", "cancel", "respond"}]
  /\ cur \in [Daemon -> Id \cup {0}] /\ qty \in [Daemon -> Nat]
  /\ reply \in [Daemon -> Outcome] /\ report \in [Id -> Outcome \cup {"none"}]
  /\ pos \in Int /\ lev \in 1..MaxLeverage
  /\ placed \in [Id -> Order \cup {NoOrder}]
  /\ owner \in [Id -> SUBSET Daemon] /\ raced \subseteq Daemon
  /\ lost \subseteq Id /\ unsized \subseteq Id /\ times \in [Id -> Nat]

Init ==
  /\ msgs = <<>> /\ inbox = [d \in Daemon |-> <<>>] /\ alive = Daemon
  /\ pc = [d \in Daemon |-> "idle"] /\ cur = [d \in Daemon |-> 0]
  /\ qty = [d \in Daemon |-> 0] /\ reply = [d \in Daemon |-> "error"]
  /\ report = [i \in Id |-> "none"]
  /\ pos = 0 /\ lev = 1 /\ placed = [i \in Id |-> NoOrder]
  /\ owner = [i \in Id |-> {}] /\ raced = {} /\ lost = {}
  /\ unsized = {} /\ times = [i \in Id |-> 0]

-----------------------------------------------------------------------------
(* The engine and NATS. *)

\* Mutant: a plain Subscribe, every bridge gets every message.
AllReceivers == {alive} \ {{}}

\* QueueSubscribe: every message goes to one member of the queue group;
\* without a member the engine is told that nobody listens.
Receivers == {{d} : d \in alive}

Publish(m) ==
  /\ Len(msgs) < MaxMessages
  /\ msgs' = Append(msgs, m)
  /\ \E R \in Receivers :
       /\ inbox' = [d \in Daemon |-> IF d \in R THEN Append(inbox[d], Len(msgs'))
                                                ELSE inbox[d]]
       /\ owner' = [owner EXCEPT ![Len(msgs')] = R]
  /\ UNCHANGED <<alive, pc, cur, qty, reply, report, account, raced, lost, record>>

\* The handler returns, or ends with its process, and its locals are gone.
Idle(d) ==
  /\ pc' = [pc EXCEPT ![d] = "idle"] /\ cur' = [cur EXCEPT ![d] = 0]
  /\ qty' = [qty EXCEPT ![d] = 0] /\ reply' = [reply EXCEPT ![d] = "error"]
  /\ raced' = raced \ {d}

\* The process ends; what its handler was doing stays as it is.
Exit(d) ==
  /\ d \in alive
  /\ alive' = alive \ {d}
  /\ inbox' = [inbox EXCEPT ![d] = <<>>]
  /\ Idle(d)
  /\ UNCHANGED <<msgs, report, account, owner, lost, record>>

-----------------------------------------------------------------------------
(* Translation of an order. *)

\* The action execute() works with: the payload's, or else the subject's.
Effective(m) == IF m.action # "" THEN m.action ELSE m.subject

CanTranslate(m) == m.side # "other" /\ m.type # "other"

\* Mutant: only a market order is made reduce-only.
TranslateMarketClose(m) ==
  [side |-> m.side, limit |-> m.type = "limit" \/ m.priced, priced |-> m.priced,
   named |-> m.named, reduce |-> m.action = "close" /\ ~m.priced]

\* translateOrder sees the payload alone.  A market order with a price is
\* sent as a limit order.
Translate(m) ==
  [side |-> m.side, limit |-> m.type = "limit" \/ m.priced, priced |-> m.priced,
   named |-> m.named, reduce |-> m.action = "close"]

\* Mutant: rounded up.
QuantizeUp(q) == ((q + LotStep - 1) \div LotStep) * LotStep

\* In whole numbers the 1e-9 of a step the code forgives makes no difference.
QuantizeDown(q) == (q \div LotStep) * LotStep

-----------------------------------------------------------------------------
(* The account at the exchange. *)

\* How much of a reduce-only order of this side there is to execute.
Opposite(side) ==
  LET p == IF side = "SELL" THEN pos ELSE -pos IN IF p > 0 THEN p ELSE 0
Executable(o) == IF o.reduce /\ Opposite(o.side) < o.qty THEN Opposite(o.side) ELSE o.qty
Moved(o) == IF o.side = "BUY" THEN pos + Executable(o) ELSE pos - Executable(o)

Executes(o) == [o EXCEPT !.resting = FALSE, !.executed = Executable(o)]

\* A resting order meets its price.
Fill(i) ==
  /\ placed[i] # NoOrder /\ placed[i].resting /\ Executable(placed[i]) > 0
  /\ pos' = Moved(placed[i])
  /\ placed' = [placed EXCEPT ![i] = Executes(placed[i])]
  /\ UNCHANGED <<msgs, inbox, alive, pc, cur, qty, reply, report, lev, history>>

-----------------------------------------------------------------------------
(* The handler. *)

Msg(d) == msgs[cur[d]]

RespondWith(d, what) ==
  /\ pc' = [pc EXCEPT ![d] = "respond"] /\ reply' = [reply EXCEPT ![d] = what]

\* After the leverage: translateOrder, then the checks SubmitOrder starts with.
Proceed(d, m) ==
  \/ /\ CanTranslate(m) /\ (Translate(m).limit => m.priced)
     /\ pc' = [pc EXCEPT ![d] = "lot"] /\ UNCHANGED reply
  \/ /\ ~(CanTranslate(m) /\ (Translate(m).limit => m.priced))
     /\ RespondWith(d, "error")

NeedsLeverage(m) == m.lev > 1 /\ Effective(m) = "open"

\* handle and the beginning of each handler, up to its first request.
Handle(d) ==
  /\ pc[d] = "idle" /\ inbox[d] # <<>>
  /\ inbox' = [inbox EXCEPT ![d] = Tail(inbox[d])]
  /\ LET i == Head(inbox[d])
         m == msgs[i]
     IN \/ /\ ~m.parses /\ m.kind = "cancel"
           /\ UNCHANGED <<pc, cur, reply>>
        \/ /\ ~m.parses /\ m.kind # "cancel"
           /\ cur' = [cur EXCEPT ![d] = i] /\ RespondWith(d, "error")
        \/ /\ m.parses /\ m.kind = "cancel"
           /\ cur' = [cur EXCEPT ![d] = i]
           /\ pc' = [pc EXCEPT ![d] = "cancel"] /\ UNCHANGED reply
        \/ /\ m.parses /\ (m.kind = "set_leverage" \/ (m.kind = "order" /\ NeedsLeverage(m)))
           /\ cur' = [cur EXCEPT ![d] = i]
           /\ pc' = [pc EXCEPT ![d] = "leverage"] /\ UNCHANGED reply
        \/ /\ m.parses /\ m.kind = "order" /\ ~NeedsLeverage(m)
           /\ cur' = [cur EXCEPT ![d] = i] /\ Proceed(d, m)
  /\ UNCHANGED <<msgs, alive, qty, report, account, history>>

InRange(l) == l \in 1..MaxLeverage

\* The exchange accepts the leverage, under the orders of other daemons too.
ChangeLeverage(d, l) ==
  /\ lev' = l
  /\ raced' = raced \cup {e \in alive \ {d} : pc[e] \in {"lot", "submit"}}

\* Mutant: a failure to set the leverage does not stop the order.
SetLeverageOrNot(d) ==
  /\ pc[d] = "leverage"
  /\ \/ InRange(Msg(d).lev) /\ ChangeLeverage(d, Msg(d).lev)
     \/ UNCHANGED <<lev, raced>>
  /\ IF Msg(d).kind = "order" THEN Proceed(d, Msg(d)) ELSE RespondWith(d, "ok")
  /\ UNCHANGED <<msgs, inbox, alive, cur, qty, report, pos, placed, owner, lost,
                 record>>

\* SetLeverage, for an order or for a set_leverage message: done, done with
\* the answer lost, or failed.
SetLeverage(d) ==
  /\ pc[d] = "leverage"
  /\ \/ /\ InRange(Msg(d).lev) /\ ChangeLeverage(d, Msg(d).lev)
        /\ IF Msg(d).kind = "order" THEN Proceed(d, Msg(d)) ELSE RespondWith(d, "ok")
     \/ /\ InRange(Msg(d).lev) /\ ChangeLeverage(d, Msg(d).lev)
        /\ RespondWith(d, "error")
     \/ RespondWith(d, "error") /\ UNCHANGED <<lev, raced>>
  /\ UNCHANGED <<msgs, inbox, alive, cur, qty, report, pos, placed, owner, lost,
                 record>>

\* Mutant: the quantity is never rounded.
FetchLotSizeUnrounded(d) ==
  /\ pc[d] = "lot"
  /\ qty' = [qty EXCEPT ![d] = Msg(d).size]
  /\ pc' = [pc EXCEPT ![d] = "submit"]
  /\ UNCHANGED <<msgs, inbox, alive, cur, reply, report, account, history>>

\* FetchLotSize: without an answer the quantity goes out as it is.
FetchLotSize(d) ==
  /\ pc[d] = "lot"
  /\ LET q == QuantizeDown(Msg(d).size)
     IN \/ /\ q >= MinQty
           /\ qty' = [qty EXCEPT ![d] = q]
           /\ pc' = [pc EXCEPT ![d] = "submit"] /\ UNCHANGED <<reply, unsized>>
        \/ q < MinQty /\ RespondWith(d, "error") /\ UNCHANGED <<qty, unsized>>
        \/ /\ qty' = [qty EXCEPT ![d] = Msg(d).size] /\ unsized' = unsized \cup {cur[d]}
           /\ pc' = [pc EXCEPT ![d] = "submit"] /\ UNCHANGED reply
  /\ UNCHANGED <<msgs, inbox, alive, cur, report, account, owner, raced, lost, times>>

\* Mutant: an accepted order counts as filled.
ReportedAccepted(o) == {"filled"}

\* buildReport: the answer to a new order may or may not carry its execution.
Reported(o) == IF o.executed > 0 THEN {"filled", "unfilled"} ELSE {"unfilled"}

\* SubmitOrder: accepted (executed at once or, if it is a limit order, left
\* to rest), accepted with the answer lost, or not accepted.
SubmitOrder(d) ==
  /\ pc[d] = "submit"
  /\ LET t == Translate(Msg(d))
         o == [side |-> t.side, limit |-> t.limit, reduce |-> t.reduce, qty |-> qty[d],
               resting |-> TRUE, executed |-> 0, lev |-> lev, raced |-> d \in raced]
     IN \/ /\ t.named /\ Executable(o) > 0
           /\ \E new \in {Executes(o)} \cup (IF t.limit THEN {o} ELSE {}) :
                /\ placed' = [placed EXCEPT ![cur[d]] = new]
                /\ times' = [times EXCEPT ![cur[d]] = @ + 1]
                /\ pos' = IF new.resting THEN pos ELSE Moved(o)
                /\ \/ /\ \E what \in Reported(new) : RespondWith(d, what)
                      /\ UNCHANGED lost
                   \/ RespondWith(d, "error") /\ lost' = lost \cup {cur[d]}
        \/ RespondWith(d, "error") /\ UNCHANGED <<placed, pos, lost, times>>
  /\ UNCHANGED <<msgs, inbox, alive, cur, qty, report, lev, owner, raced, unsized>>

\* CancelOrder: nobody is told how it went.
CancelOrder(d) ==
  /\ pc[d] = "cancel" /\ Idle(d)
  /\ LET t == Msg(d).target
     IN \/ /\ t \in Id /\ placed[t] # NoOrder /\ placed[t].resting
           /\ placed' = [placed EXCEPT ![t].resting = FALSE]
        \/ UNCHANGED placed
  /\ UNCHANGED <<msgs, inbox, alive, report, pos, lev, owner, lost, record>>

\* Mutant: errors are logged and not answered, as for a cancel.
RespondToGood(d) ==
  /\ pc[d] = "respond" /\ Idle(d)
  /\ report' = IF reply[d] = "error" THEN report ELSE [report EXCEPT ![cur[d]] = reply[d]]
  /\ UNCHANGED <<msgs, inbox, alive, account, owner, lost, record>>

Respond(d) ==
  /\ pc[d] = "respond" /\ Idle(d)
  /\ report' = [report EXCEPT ![cur[d]] = reply[d]]
  /\ UNCHANGED <<msgs, inbox, alive, account, owner, lost, record>>

Work(d) ==
  Handle(d) \/ SetLeverage(d) \/ FetchLotSize(d) \/ SubmitOrder(d) \/ CancelOrder(d) \/ Respond(d)

Next ==
  \/ \E m \in Requests : Publish(m)
  \/ \E d \in Daemon : Exit(d)
  \/ \E d \in Daemon : Work(d)
  \/ \E i \in Id : Fill(i)

Spec == Init /\ [][Next]_vars

\* The 30 seconds of submitTimeout end every request, and NATS calls the
\* handler for the next message as soon as it returns.
FairSpec == Spec /\ \A d \in Daemon : WF_vars(Work(d))

-----------------------------------------------------------------------------
(* Properties. *)

\* The exchange accepts at most one order for a message, however many
\* daemons run and whatever was answered or lost on the way: no second bridge
\* executes it, and none submits it again.
ExecutedOnce == \A i \in Id : times[i] <= 1

Executed(i) == IF placed[i] = NoOrder THEN 0 ELSE placed[i].executed

\* From p to q the position shrinks and does not change sign.
Shrinks(p, q) == \/ 0 <= q /\ q <= p
                 \/ p <= q /\ q <= 0

\* An order whose payload says close never flips the position nor enlarges it,
\* whatever was executed between its arrival and its execution.
CloseNeverFlips ==
  [][\A i \in Id : Executed(i)' # Executed(i) /\ msgs[i].action = "close"
       => Shrinks(pos, pos')]_vars

\* An order that asks for a leverage is accepted under that leverage, unless
\* another daemon was changing it between the two requests.
OpensAtItsLeverage ==
  \A i \in Id : placed[i] # NoOrder /\ NeedsLeverage(msgs[i])
    => placed[i].lev = msgs[i].lev \/ placed[i].raced

\* The engine skips an order reported as an error: unless an answer was lost
\* the exchange has no such order.  An order reported as filled was executed.
ReportsAgreeWithExchange ==
  \A i \in Id :
    /\ report[i] = "error" => placed[i] = NoOrder \/ i \in lost
    /\ report[i] = "filled" => Executed(i) > 0

\* When the lot size is known, an accepted order is a multiple of the step
\* and not below the minimum, is never for more than the engine asked, and
\* falls short of that by less than a step.
QuantityTradable ==
  \A i \in Id : placed[i] # NoOrder =>
    /\ placed[i].qty <= msgs[i].size
    /\ i \notin unsized => /\ placed[i].qty % LotStep = 0 /\ placed[i].qty >= MinQty
                          /\ msgs[i].size < placed[i].qty + LotStep

\* Every order and set_leverage message is answered unless the daemon that
\* took it ends, so the engine's synchronous request never hangs on the bridge.
EveryRequestAnswered ==
  \A i \in Id : (i <= Len(msgs) /\ msgs[i].kind # "cancel")
                  ~> (report[i] # "none" \/ owner[i] \cap alive = {})
=============================================================================
