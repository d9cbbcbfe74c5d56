-------------------------- MODULE OrderBridgeProofs --------------------------
(***************************************************************************)
(* Proofs about OrderBridge for any number of daemons, messages of any     *)
(* kind, lots and leverages: its types; that no message is executed twice; *)
(* that reports agree with the exchange; that a close never flips the      *)
(* position; that an order has its leverage and a quantity that is traded. *)
(*                                                                         *)
(* None of these is inductive: a report may be trusted only because the    *)
(* message it answers was in one place all the time.  Places and Handled   *)
(* say where a message is and what has happened to it there; Terms adds    *)
(* what the handlers of other daemons do to it meanwhile.                  *)
(***************************************************************************)
EXTENDS OrderBridge, TLAPS

\* No two daemons receive a message.
OneOwner == \A i \in Id : \A d, e \in owner[i] : d = e

\* The orders of a message that the exchange has accepted are the one it has.
Counted == \A i \in Id : times[i] = IF placed[i] = NoOrder THEN 0 ELSE 1

\* A message nobody has sent is nowhere.
Future ==
  \A i \in Id : i > Len(msgs) => owner[i] = {} /\ placed[i] = NoOrder /\ report[i] = "none"

\* Nothing has happened yet to a message in an inbox.
Untouched(i) == placed[i] = NoOrder /\ report[i] = "none"

Places ==
  \A d \in Daemon :
    /\ \A k \in 1..Len(inbox[d]) :
         /\ inbox[d][k] <= Len(msgs) /\ d \in owner[inbox[d][k]]
         /\ Untouched(inbox[d][k]) /\ inbox[d][k] # cur[d]
    /\ \A j, k \in 1..Len(inbox[d]) : j # k => inbox[d][j] # inbox[d][k]

\* The message a daemon works on, and what is known at each of its requests.
Knows(d) ==
  /\ pc[d] # "idle" => cur[d] # 0
  /\ cur[d] # 0 => cur[d] <= Len(msgs) /\ d \in owner[cur[d]] /\ report[cur[d]] = "none"
  /\ pc[d] \in {"lot", "submit"} => CanTranslate(Msg(d))
  /\ pc[d] \in {"leverage", "lot", "submit"} => placed[cur[d]] = NoOrder
  /\ pc[d] = "respond" /\ reply[d] = "error" => placed[cur[d]] = NoOrder \/ cur[d] \in lost
  /\ pc[d] = "respond" /\ reply[d] = "filled" => Executed(cur[d]) > 0

Handled == \A d \in Daemon : Knows(d)

\* An order of a close is reduce-only.
ClosesReduce ==
  \A i \in Id : placed[i] # NoOrder /\ msgs[i].action = "close" => placed[i].reduce

IInv ==
  /\ TypeOK /\ OneOwner /\ Counted /\ Future /\ Places /\ Handled /\ ClosesReduce
  /\ ReportsAgreeWithExchange

-----------------------------------------------------------------------------
(* Types. *)

\* The message a busy daemon handles is one the engine may send.
LEMMA MsgType ==
  ASSUME TypeOK, NEW i \in 1..Len(msgs)
  PROVE  msgs[i] \in Requests /\ msgs[i] \in Message
BY RequestsAssumption DEF TypeOK

\* Fields of a message.
LEMMA MessageParts ==
  ASSUME NEW m \in Message
  PROVE  /\ m.size \in Nat /\ m.lev \in Int /\ m.target \in Nat
         /\ m.action \in Action /\ m.subject \in {"open", "close"}
         /\ m.named \in BOOLEAN /\ m.priced \in BOOLEAN /\ m.parses \in BOOLEAN
BY DEF Message

\* Rounding down gives a quantity.
LEMMA QuantizeType ==
  ASSUME NEW q \in Nat
  PROVE  QuantizeDown(q) \in Nat
<1>1. q \div LotStep \in Nat
  BY LotAssumption
<1>. QED
  BY <1>1, LotAssumption DEF QuantizeDown

\* What is executed of an order is a quantity.
LEMMA ExecutableType ==
  ASSUME pos \in Int, NEW o, o.qty \in Nat
  PROVE  Executable(o) \in Nat /\ Executable(o) <= o.qty /\ Moved(o) \in Int
BY DEF Executable, Moved, Opposite

\* The fields of an accepted order.
LEMMA OrderParts ==
  ASSUME NEW o \in Order
  PROVE  /\ o.qty \in Nat /\ o.executed \in Nat /\ o.reduce \in BOOLEAN
         /\ o.resting \in BOOLEAN /\ o # NoOrder
BY NoOrderAssumption DEF Order

\* What the bridge decided about an order and the exchange never changes.
SameTerms(o, p) ==
  o.reduce = p.reduce /\ o.qty = p.qty /\ o.lev = p.lev /\ o.raced = p.raced

\* An order with other progress is an order.
LEMMA OrderExcept ==
  ASSUME NEW o \in Order, NEW n \in Nat, NEW r \in BOOLEAN
  PROVE  /\ [o EXCEPT !.resting = r, !.executed = n] \in Order
         /\ [o EXCEPT !.resting = r] \in Order
         /\ SameTerms([o EXCEPT !.resting = r], o)
         /\ [o EXCEPT !.resting = r].executed = o.executed
BY DEF Order, SameTerms

\* An order that executes.
LEMMA ExecutesType ==
  ASSUME pos \in Int, NEW o \in Order
  PROVE  /\ Executes(o) \in Order /\ Executes(o).executed = Executable(o)
         /\ SameTerms(Executes(o), o)
<1>1. Executable(o) \in Nat
  BY ExecutableType, OrderParts
<1>2. Executes(o) \in Order
  BY <1>1, OrderExcept DEF Executes
<1>. QED
  BY <1>2 DEF Executes, Order, SameTerms

-----------------------------------------------------------------------------
(* Types of what a step produces.                                           *)

\* The message of a busy daemon.
LEMMA CurrentMessage ==
  ASSUME TypeOK, Handled, NEW d \in Daemon, pc[d] # "idle"
  PROVE  /\ cur[d] \in Id /\ cur[d] \in 1..Len(msgs)
         /\ Msg(d) \in Message /\ Msg(d) \in Requests /\ Msg(d) = msgs[cur[d]]
<1>1. cur[d] \in 1..Len(msgs) /\ cur[d] \in Id
  BY BoundAssumption DEF Handled, Knows, TypeOK, Id
<1>. QED
  BY <1>1, MsgType DEF Msg

\* The first message of an inbox.
LEMMA HeadOfInbox ==
  ASSUME TypeOK, NEW d \in Daemon, inbox[d] # <<>>
  PROVE  /\ Len(inbox[d]) \in Nat /\ Len(inbox[d]) >= 1
         /\ Head(inbox[d]) = inbox[d][1] /\ Head(inbox[d]) \in Id
         /\ Tail(inbox[d]) \in Seq(Id) /\ Len(Tail(inbox[d])) = Len(inbox[d]) - 1
         /\ \A k \in 1..Len(Tail(inbox[d])) :
              k + 1 \in 1..Len(inbox[d]) /\ Tail(inbox[d])[k] = inbox[d][k + 1]
<1>1. inbox[d] \in Seq(Id)
  BY DEF TypeOK
<1>. QED
  BY <1>1

\* A reply leaves the types alone.
LEMMA RespondWithType ==
  ASSUME TypeOK, NEW d \in Daemon, NEW what \in Outcome, RespondWith(d, what)
  PROVE  /\ pc' \in [Daemon -> {"idle", "leverage", "lot", "submit", "cancel", "respond"}]
         /\ reply' \in [Daemon -> Outcome]
BY DEF TypeOK, RespondWith

\* So does going on with an order.
LEMMA ProceedType ==
  ASSUME TypeOK, NEW d \in Daemon, NEW m, Proceed(d, m)
  PROVE  /\ pc' \in [Daemon -> {"idle", "leverage", "lot", "submit", "cancel", "respond"}]
         /\ reply' \in [Daemon -> Outcome]
<1>1. CASE RespondWith(d, "error")
  BY <1>1, RespondWithType DEF Outcome
<1>2. CASE pc' = [pc EXCEPT ![d] = "lot"] /\ UNCHANGED reply
  BY <1>2 DEF TypeOK
<1>. QED
  BY <1>1, <1>2 DEF Proceed

\* The end of a handler.
LEMMA IdleType ==
  ASSUME TypeOK, NEW d \in Daemon, Idle(d)
  PROVE  /\ pc' \in [Daemon -> {"idle", "leverage", "lot", "submit", "cancel", "respond"}]
         /\ cur' \in [Daemon -> Id \cup {0}] /\ qty' \in [Daemon -> Nat]
         /\ reply' \in [Daemon -> Outcome] /\ raced' \subseteq Daemon
BY DEF TypeOK, Idle, Outcome

\* A change of the leverage.
LEMMA LeverageType ==
  ASSUME TypeOK, NEW d \in Daemon, NEW l, InRange(l), ChangeLeverage(d, l)
  PROVE  lev' \in 1..MaxLeverage /\ raced' \subseteq Daemon
BY DEF TypeOK, InRange, ChangeLeverage

\* Sending a message: its number, and what the inboxes become.
LEMMA PublishParts ==
  ASSUME TypeOK, NEW m \in Requests, Publish(m)
  PROVE  /\ msgs' \in Seq(Requests) /\ Len(msgs') = Len(msgs) + 1 /\ Len(msgs') \in Id
         /\ \A i \in 1..Len(msgs) : msgs'[i] = msgs[i]
         /\ \E r \in alive :
              /\ owner' = [owner EXCEPT ![Len(msgs')] = {r}]
              /\ inbox' = [d \in Daemon |-> IF d = r THEN Append(inbox[d], Len(msgs'))
                                                     ELSE inbox[d]]
<1>1. msgs' = Append(msgs, m) /\ msgs \in Seq(Requests) /\ Len(msgs) < MaxMessages
  BY DEF Publish, TypeOK
<1>2. /\ msgs' \in Seq(Requests) /\ Len(msgs') = Len(msgs) + 1
      /\ \A i \in 1..Len(msgs) : msgs'[i] = msgs[i]
  BY <1>1
<1>3. Len(msgs') \in Id
  BY <1>1, <1>2, BoundAssumption DEF Id
<1>4. PICK R \in Receivers :
        /\ inbox' = [d \in Daemon |-> IF d \in R THEN Append(inbox[d], Len(msgs'))
                                                  ELSE inbox[d]]
        /\ owner' = [owner EXCEPT ![Len(msgs')] = R]
  BY DEF Publish
<1>5. PICK r \in alive : R = {r}
  BY DEF Receivers
<1>6. inbox' = [d \in Daemon |-> IF d = r THEN Append(inbox[d], Len(msgs')) ELSE inbox[d]]
  BY <1>4, <1>5
<1>. QED
  BY <1>2, <1>3, <1>4, <1>5, <1>6

-----------------------------------------------------------------------------
\* Every step keeps the types.
LEMMA TypeStep ==
  ASSUME TypeOK, Handled, [Next]_vars
  PROVE  TypeOK'
<1>. USE DEF account, history, record
<1>1. ASSUME NEW m \in Requests, Publish(m) PROVE TypeOK'
  <2>1. /\ msgs' \in Seq(Requests) /\ Len(msgs') <= MaxMessages /\ Len(msgs') \in Id
    BY <1>1, PublishParts, BoundAssumption DEF Id
  <2>2. inbox' \in [Daemon -> Seq(Id)] /\ owner' \in [Id -> SUBSET Daemon]
    <3>1. PICK r \in alive :
            /\ owner' = [owner EXCEPT ![Len(msgs')] = {r}]
            /\ inbox' = [d \in Daemon |-> IF d = r THEN Append(inbox[d], Len(msgs'))
                                                   ELSE inbox[d]]
      BY <1>1, PublishParts
    <3>. QED
      BY <2>1, <3>1 DEF TypeOK
  <2>. QED
    BY <1>1, <2>1, <2>2 DEF Publish, TypeOK
<1>2. ASSUME NEW d \in Daemon, Exit(d) PROVE TypeOK'
  <2>1. inbox' \in [Daemon -> Seq(Id)]
    BY <1>2 DEF Exit, TypeOK
  <2>. QED
    BY <1>2, <2>1, IdleType DEF Exit, TypeOK
<1>3. ASSUME NEW d \in Daemon, Handle(d) PROVE TypeOK'
  <2>1. inbox' \in [Daemon -> Seq(Id)] /\ Head(inbox[d]) \in Id
    BY <1>3, HeadOfInbox DEF Handle, TypeOK
  <2>2. /\ pc' \in [Daemon -> {"idle", "leverage", "lot", "submit", "cancel", "respond"}]
        /\ reply' \in [Daemon -> Outcome]
    <3>1. CASE UNCHANGED <<pc, reply>>
      BY <3>1 DEF TypeOK
    <3>2. CASE RespondWith(d, "error")
      BY <3>2, RespondWithType DEF Outcome
    <3>3. CASE Proceed(d, msgs[Head(inbox[d])])
      BY <3>3, ProceedType
    <3>4. CASE pc' = [pc EXCEPT ![d] = "cancel"] /\ UNCHANGED reply
      BY <3>4 DEF TypeOK
    <3>5. CASE pc' = [pc EXCEPT ![d] = "leverage"] /\ UNCHANGED reply
      BY <3>5 DEF TypeOK
    <3>. QED
      BY <1>3, <3>1, <3>2, <3>3, <3>4, <3>5 DEF Handle
  <2>3. cur' \in [Daemon -> Id \cup {0}]
    <3>1. cur' = cur \/ cur' = [cur EXCEPT ![d] = Head(inbox[d])]
      BY <1>3 DEF Handle
    <3>. QED
      BY <2>1, <3>1 DEF TypeOK
  <2>. QED
    BY <1>3, <2>1, <2>2, <2>3 DEF Handle, TypeOK
<1>4. ASSUME NEW d \in Daemon, SetLeverage(d) PROVE TypeOK'
  <2>1. lev' \in 1..MaxLeverage /\ raced' \subseteq Daemon
    BY <1>4, LeverageType DEF SetLeverage, TypeOK
  <2>2. /\ pc' \in [Daemon -> {"idle", "leverage", "lot", "submit", "cancel", "respond"}]
        /\ reply' \in [Daemon -> Outcome]
    <3>1. PICK what \in Outcome : RespondWith(d, what) \/ Proceed(d, Msg(d))
      BY <1>4 DEF SetLeverage, Outcome
    <3>. QED
      BY <3>1, RespondWithType, ProceedType
  <2>. QED
    BY <1>4, <2>1, <2>2 DEF SetLeverage, TypeOK
<1>5. ASSUME NEW d \in Daemon, FetchLotSize(d) PROVE TypeOK'
  <2>1. Msg(d).size \in Nat
    BY <1>5, CurrentMessage, MessageParts DEF FetchLotSize
  <2>2. QuantizeDown(Msg(d).size) \in Nat
    BY <2>1, QuantizeType
  <2>3. qty' \in [Daemon -> Nat]
    BY <1>5, <2>1, <2>2 DEF FetchLotSize, TypeOK
  <2>4. /\ pc' \in [Daemon -> {"idle", "leverage", "lot", "submit", "cancel", "respond"}]
        /\ reply' \in [Daemon -> Outcome]
    <3>1. CASE RespondWith(d, "error")
      BY <3>1, RespondWithType DEF Outcome
    <3>2. CASE pc' = [pc EXCEPT ![d] = "submit"] /\ UNCHANGED reply
      BY <3>2 DEF TypeOK
    <3>. QED
      BY <1>5, <3>1, <3>2 DEF FetchLotSize
  <2>5. unsized' \subseteq Id
    BY <1>5, CurrentMessage DEF FetchLotSize, TypeOK
  <2>. QED
    BY <1>5, <2>3, <2>4, <2>5 DEF FetchLotSize, TypeOK
<1>6. ASSUME NEW d \in Daemon, SubmitOrder(d) PROVE TypeOK'
  <2>0. pc[d] = "submit" /\ pc[d] # "idle"
    BY <1>6 DEF SubmitOrder
  <2>1. cur[d] \in Id /\ Msg(d) \in Message
    BY <2>0, CurrentMessage
  <2> DEFINE t == Translate(Msg(d))
             o == [side |-> t.side, limit |-> t.limit, reduce |-> t.reduce,
                   qty |-> qty[d], resting |-> TRUE, executed |-> 0, lev |-> lev,
                   raced |-> d \in raced]
  <2>2. CASE RespondWith(d, "error") /\ UNCHANGED <<placed, pos, lost, times>>
    BY <1>6, <2>2, RespondWithType DEF SubmitOrder, TypeOK, Outcome
  <2>3. CASE \E new \in {Executes(o)} \cup (IF t.limit THEN {o} ELSE {}) :
               /\ placed' = [placed EXCEPT ![cur[d]] = new]
               /\ pos' = IF new.resting THEN pos ELSE Moved(o)
               /\ \E what \in Outcome : RespondWith(d, what)
               /\ lost' \in {lost, lost \cup {cur[d]}}
               /\ times' = [times EXCEPT ![cur[d]] = @ + 1]
    <3>1. Msg(d).side \in {"BUY", "SELL"}
      BY <2>0, <2>1 DEF Handled, Knows, CanTranslate, Message
    <3>2. o \in Order
      BY <2>1, <3>1, MessageParts DEF Order, Translate, TypeOK
    <3>3. Executes(o) \in Order /\ Moved(o) \in Int
      BY <3>2, ExecutesType, ExecutableType, OrderParts DEF TypeOK
    <3>4. placed' \in [Id -> Order \cup {NoOrder}] /\ pos' \in Int
      <4>1. PICK new \in {Executes(o)} \cup (IF t.limit THEN {o} ELSE {}) :
              /\ placed' = [placed EXCEPT ![cur[d]] = new]
              /\ pos' = IF new.resting THEN pos ELSE Moved(o)
        BY <2>3
      <4>2. new \in Order
        BY <3>2, <3>3
      <4>. HIDE DEF o, t
      <4>. QED
        BY <2>1, <3>3, <4>1, <4>2 DEF TypeOK
    <3>5. /\ pc' \in [Daemon -> {"idle", "leverage", "lot", "submit", "cancel", "respond"}]
          /\ reply' \in [Daemon -> Outcome]
      BY <2>3, RespondWithType
    <3>6. lost' \subseteq Id
      BY <2>1, <2>3 DEF TypeOK
    <3>7. times' \in [Id -> Nat]
      BY <2>1, <2>3 DEF TypeOK
    <3>. QED
      BY <1>6, <3>4, <3>5, <3>6, <3>7 DEF SubmitOrder, TypeOK
  <2>. QED
    <3>1. CASE t.named /\ Executable(o) > 0 /\ \E new \in {Executes(o)} \cup (IF t.limit THEN {o} ELSE {}) :
               /\ placed' = [placed EXCEPT ![cur[d]] = new]
               /\ times' = [times EXCEPT ![cur[d]] = @ + 1]
               /\ pos' = IF new.resting THEN pos ELSE Moved(o)
               /\ \/ (\E what \in Reported(new) : RespondWith(d, what)) /\ UNCHANGED lost
                  \/ RespondWith(d, "error") /\ lost' = lost \cup {cur[d]}
      BY <2>3, <3>1 DEF Reported, Outcome
    <3>. QED
      BY <1>6, <2>2, <3>1 DEF SubmitOrder
<1>7. ASSUME NEW d \in Daemon, CancelOrder(d) PROVE TypeOK'
  <2>1. placed' \in [Id -> Order \cup {NoOrder}]
    <3>1. CASE UNCHANGED placed
      BY <3>1 DEF TypeOK
    <3>2. ASSUME NEW i \in Id, placed[i] # NoOrder,
                 placed' = [placed EXCEPT ![i].resting = FALSE]
          PROVE  placed' \in [Id -> Order \cup {NoOrder}]
      <4>1. placed[i] \in Order
        BY <3>2 DEF TypeOK
      <4>2. [placed[i] EXCEPT !.resting = FALSE] \in Order
        BY <4>1, OrderExcept
      <4>. QED
        BY <3>2, <4>2 DEF TypeOK
    <3>. QED
      BY <1>7, <3>1, <3>2 DEF CancelOrder
  <2>. QED
    BY <1>7, <2>1, IdleType DEF CancelOrder, TypeOK
<1>8. ASSUME NEW d \in Daemon, Respond(d) PROVE TypeOK'
  <2>1. reply[d] \in Outcome
    BY DEF TypeOK
  <2>2. report' \in [Id -> Outcome \cup {"none"}]
    BY <1>8, <2>1 DEF Respond, TypeOK
  <2>. QED
    BY <1>8, <2>2, IdleType DEF Respond, TypeOK
<1>9. ASSUME NEW i \in Id, Fill(i) PROVE TypeOK'
  <2>1. placed[i] \in Order
    BY <1>9 DEF Fill, TypeOK
  <2>2. Executes(placed[i]) \in Order /\ Moved(placed[i]) \in Int
    BY <2>1, ExecutesType, ExecutableType, OrderParts DEF TypeOK
  <2>. QED
    BY <1>9, <2>2 DEF Fill, TypeOK
<1>10. CASE UNCHANGED vars
  BY <1>10 DEF vars, TypeOK
<1>. QED
  BY <1>1, <1>2, <1>3, <1>4, <1>5, <1>6, <1>7, <1>8, <1>9, <1>10 DEF Next, Work
-----------------------------------------------------------------------------
(* What one step does to a message, to an inbox and to a daemon.           *)

\* Every message keeps its number, its contents and its receivers.
LEMMA MessagesKept ==
  ASSUME TypeOK, [Next]_vars
  PROVE  /\ Len(msgs) \in Nat /\ Len(msgs') \in Nat /\ Len(msgs) <= Len(msgs')
         /\ \A i \in 1..Len(msgs) : msgs'[i] = msgs[i]
         /\ \A i \in Id : i <= Len(msgs) => owner'[i] = owner[i]
         /\ lost \subseteq lost'
<1>. USE DEF account, history, record
<1>0. Len(msgs) \in Nat
  BY DEF TypeOK
<1>1. CASE \E m \in Requests : Publish(m)
  <2>1. PICK m \in Requests : Publish(m)
    BY <1>1
  <2>2. /\ Len(msgs') = Len(msgs) + 1 /\ Len(msgs') \in Id
        /\ \A i \in 1..Len(msgs) : msgs'[i] = msgs[i]
    BY <2>1, PublishParts
  <2>3. PICK r \in alive : owner' = [owner EXCEPT ![Len(msgs')] = {r}]
    BY <2>1, PublishParts
  <2>4. \A i \in Id : i <= Len(msgs) => owner'[i] = owner[i]
    BY <1>0, <2>2, <2>3 DEF TypeOK
  <2>5. lost' = lost
    BY <2>1 DEF Publish
  <2>. QED
    BY <1>0, <2>2, <2>4, <2>5
<1>2. CASE UNCHANGED <<msgs, owner>> /\ lost \subseteq lost'
  BY <1>0, <1>2
<1>3. ASSUME NEW d \in Daemon, Exit(d) \/ Work(d)
      PROVE  UNCHANGED <<msgs, owner>> /\ lost \subseteq lost'
  BY <1>3 DEF Exit, Work, Handle, SetLeverage, FetchLotSize, SubmitOrder, CancelOrder, Respond
<1>4. ASSUME NEW i \in Id, Fill(i)
      PROVE  UNCHANGED <<msgs, owner>> /\ lost \subseteq lost'
  BY <1>4 DEF Fill
<1>. QED
  BY <1>1, <1>2, <1>3, <1>4 DEF Next, vars

\* The order a handler is about to send.
NewOrder(d) ==
  [side |-> Translate(Msg(d)).side, limit |-> Translate(Msg(d)).limit,
   reduce |-> Translate(Msg(d)).reduce, qty |-> qty[d], resting |-> TRUE,
   executed |-> 0, lev |-> lev, raced |-> d \in raced]

\* It is an order of the message's daemon, reduce-only if the payload says
\* close (translateOrder).
LEMMA NewOrderType ==
  ASSUME TypeOK, Handled, NEW d \in Daemon, pc[d] = "submit"
  PROVE  /\ NewOrder(d) \in Order /\ NewOrder(d).qty \in Nat
         /\ NewOrder(d).reduce = (Msg(d).action = "close")
         /\ NewOrder(d).executed = 0 /\ NewOrder(d).resting
<1>1. Msg(d) \in Message
  BY CurrentMessage
<1>2. Msg(d).side \in {"BUY", "SELL"}
  BY <1>1 DEF Handled, Knows, CanTranslate, Message
<1>. QED
  BY <1>1, <1>2, MessageParts DEF NewOrder, Order, Translate, TypeOK

\* Submitting: nothing, or an order for the message in hand.
LEMMA SubmitParts ==
  ASSUME TypeOK, Handled, NEW d \in Daemon, SubmitOrder(d)
  PROVE  /\ cur[d] \in Id
         /\ \/ RespondWith(d, "error") /\ UNCHANGED <<placed, pos, lost, times>>
            \/ \E new \in {Executes(NewOrder(d)), NewOrder(d)} :
                 /\ placed' = [placed EXCEPT ![cur[d]] = new]
                 /\ times' = [times EXCEPT ![cur[d]] = @ + 1]
                 /\ pos' = IF new.resting THEN pos ELSE Moved(NewOrder(d))
                 /\ \/ /\ \E what \in Reported(new) : RespondWith(d, what)
                       /\ UNCHANGED lost
                    \/ RespondWith(d, "error") /\ lost' = lost \cup {cur[d]}
<1>1. pc[d] = "submit" /\ cur[d] \in Id
  BY CurrentMessage DEF SubmitOrder
<1>. QED
  BY <1>1, Zenon DEF SubmitOrder, NewOrder

\* The order of a message changes when it is submitted, once, and later only
\* by being executed or cancelled.
LEMMA PlacedChange ==
  ASSUME TypeOK, Handled, [Next]_vars, NEW i \in Id, placed'[i] # placed[i]
  PROVE  \/ /\ \E d \in Daemon : SubmitOrder(d) /\ cur[d] = i
            /\ placed[i] = NoOrder
         \/ /\ placed[i] \in Order /\ placed'[i] \in Order
            /\ SameTerms(placed'[i], placed[i])
            /\ placed'[i].executed = placed[i].executed \/ placed'[i].executed > 0
<1>. USE DEF account, history, record
<1>1. ASSUME NEW d \in Daemon, SubmitOrder(d)
      PROVE  cur[d] = i /\ placed[i] = NoOrder
  <2>1. placed[cur[d]] = NoOrder /\ cur[d] \in Id
    BY <1>1, SubmitParts DEF Handled, Knows, SubmitOrder
  <2>2. placed' = placed \/ \E new : placed' = [placed EXCEPT ![cur[d]] = new]
    BY <1>1, SubmitParts, Zenon
  <2>. QED
    BY <2>1, <2>2 DEF TypeOK
<1>2. ASSUME NEW j \in Id, Fill(j)
      PROVE  /\ placed[i] \in Order /\ placed'[i] \in Order
             /\ SameTerms(placed'[i], placed[i]) /\ placed'[i].executed > 0
  <2>1. placed' = [placed EXCEPT ![j] = Executes(placed[j])] /\ placed[j] # NoOrder
        /\ Executable(placed[j]) > 0
    BY <1>2 DEF Fill
  <2>2. i = j /\ placed[j] \in Order
    BY <2>1 DEF TypeOK
  <2>3. /\ Executes(placed[j]) \in Order /\ Executes(placed[j]).executed > 0
        /\ SameTerms(Executes(placed[j]), placed[j])
    BY <2>1, <2>2, ExecutesType DEF TypeOK
  <2>4. placed'[i] = Executes(placed[j])
    BY <2>1, <2>2 DEF TypeOK
  <2>. QED
    BY <2>2, <2>3, <2>4
<1>3. ASSUME NEW d \in Daemon, CancelOrder(d)
      PROVE  /\ placed[i] \in Order /\ placed'[i] \in Order
             /\ SameTerms(placed'[i], placed[i])
             /\ placed'[i].executed = placed[i].executed
  <2>1. PICK j \in Id : placed[j] # NoOrder /\ placed' = [placed EXCEPT ![j].resting = FALSE]
    BY <1>3 DEF CancelOrder
  <2>2. i = j /\ placed[j] \in Order
    BY <2>1 DEF TypeOK
  <2>3. placed'[i] = [placed[i] EXCEPT !.resting = FALSE]
    BY <2>1, <2>2 DEF TypeOK
  <2>. QED
    BY <2>2, <2>3, OrderExcept, 0 \in Nat, FALSE \in BOOLEAN
<1>4. UNCHANGED placed => FALSE
  OBVIOUS
<1>. QED
  BY <1>1, <1>2, <1>3, <1>4
  DEF Next, vars, Publish, Exit, Work, Handle, SetLeverage, FetchLotSize, Respond

\* A message is reported on by the daemon that handles it.
LEMMA ReportChange ==
  ASSUME TypeOK, Handled, [Next]_vars, NEW i \in Id, report'[i] # report[i]
  PROVE  \E d \in Daemon : /\ Respond(d) /\ pc[d] = "respond"
                          /\ cur[d] = i /\ cur[d] # 0 /\ report'[i] = reply[d]
<1>. USE DEF account, history, record
<1>1. ASSUME NEW d \in Daemon, Respond(d)
      PROVE  pc[d] = "respond" /\ cur[d] = i /\ cur[d] # 0 /\ report'[i] = reply[d]
  <2>1. pc[d] = "respond" /\ report' = [report EXCEPT ![cur[d]] = reply[d]]
    BY <1>1 DEF Respond
  <2>2. cur[d] \in Id /\ cur[d] # 0
    BY <2>1, CurrentMessage DEF Handled, Knows
  <2>. QED
    BY <2>1, <2>2 DEF TypeOK
<1>2. UNCHANGED report => FALSE
  OBVIOUS
<1>. QED
  BY <1>1, <1>2
  DEF Next, vars, Publish, Exit, Work, Handle, SetLeverage, FetchLotSize, SubmitOrder,
      CancelOrder, Fill

\* What one step does to the inbox of a daemon and to its message.
LEMMA InboxChange ==
  ASSUME TypeOK, [Next]_vars, NEW d \in Daemon
  PROVE  \/ inbox'[d] = inbox[d] /\ cur'[d] \in {cur[d], 0}
         \/ inbox'[d] = <<>>
         \/ /\ inbox[d] # <<>> /\ inbox'[d] = Tail(inbox[d])
            /\ cur'[d] \in {cur[d], Head(inbox[d])}
         \/ /\ Len(msgs') = Len(msgs) + 1 /\ Len(msgs') \in Id
            /\ inbox'[d] = Append(inbox[d], Len(msgs'))
            /\ owner'[Len(msgs')] = {d} /\ cur'[d] = cur[d]
<1>. USE DEF account, history, record
<1>1. CASE \E m \in Requests : Publish(m)
  <2>1. PICK m \in Requests : Publish(m)
    BY <1>1
  <2>2. PICK r \in alive :
          /\ owner' = [owner EXCEPT ![Len(msgs')] = {r}]
          /\ inbox' = [e \in Daemon |-> IF e = r THEN Append(inbox[e], Len(msgs'))
                                                  ELSE inbox[e]]
    BY <2>1, PublishParts
  <2>3. Len(msgs') = Len(msgs) + 1 /\ Len(msgs') \in Id /\ cur' = cur
    BY <2>1, PublishParts DEF Publish
  <2>4. owner'[Len(msgs')] = {r}
    BY <2>2, <2>3 DEF TypeOK
  <2>. QED
    BY <2>2, <2>3, <2>4
<1>2. ASSUME NEW e \in Daemon, Exit(e) PROVE inbox'[d] = <<>> \/ (inbox'[d] = inbox[d] /\ cur'[d] = cur[d])
  BY <1>2 DEF Exit, Idle, TypeOK
<1>3. ASSUME NEW e \in Daemon, Handle(e)
      PROVE  \/ inbox'[d] = inbox[d] /\ cur'[d] = cur[d]
             \/ /\ inbox[d] # <<>> /\ inbox'[d] = Tail(inbox[d])
                /\ cur'[d] \in {cur[d], Head(inbox[d])}
  <2>1. /\ inbox[e] # <<>> /\ inbox' = [inbox EXCEPT ![e] = Tail(inbox[e])]
        /\ cur' = cur \/ cur' = [cur EXCEPT ![e] = Head(inbox[e])]
    BY <1>3 DEF Handle
  <2>. QED
    BY <2>1 DEF TypeOK
<1>4. ASSUME NEW e \in Daemon, CancelOrder(e) \/ Respond(e)
      PROVE  inbox'[d] = inbox[d] /\ cur'[d] \in {cur[d], 0}
  BY <1>4 DEF CancelOrder, Respond, Idle, TypeOK
<1>5. UNCHANGED <<inbox, cur>> => inbox'[d] = inbox[d] /\ cur'[d] \in {cur[d], 0}
  OBVIOUS
<1>. QED
  BY <1>1, <1>2, <1>3, <1>4, <1>5
  DEF Next, vars, Work, SetLeverage, FetchLotSize, SubmitOrder, Fill
-----------------------------------------------------------------------------
(* The invariant, part by part.                                            *)

\* Every message has at most one receiver.
LEMMA OwnersStep ==
  ASSUME IInv, [Next]_vars
  PROVE  OneOwner'
<1>. USE DEF account, history, record
<1>1. ASSUME NEW m \in Requests, Publish(m) PROVE OneOwner'
  <2>1. PICK r \in alive : owner' = [owner EXCEPT ![Len(msgs')] = {r}]
    BY <1>1, PublishParts DEF IInv
  <2>. QED
    BY <2>1 DEF IInv, OneOwner, TypeOK
<1>2. UNCHANGED owner => OneOwner'
  BY DEF IInv, OneOwner
<1>. QED
  BY <1>1, <1>2
  DEF Next, vars, Exit, Work, Handle, SetLeverage, FetchLotSize, SubmitOrder, CancelOrder,
      Respond, Fill

\* An order is counted when it is accepted, and it is the first of its message.
LEMMA CountedStep ==
  ASSUME IInv, [Next]_vars
  PROVE  Counted'
<1>. USE DEF account, history, record
<1>0. TypeOK /\ Handled /\ Counted
  BY DEF IInv
<1>1. SUFFICES ASSUME NEW i \in Id
               PROVE  times'[i] = IF placed'[i] = NoOrder THEN 0 ELSE 1
  BY DEF Counted
<1>2. times[i] = IF placed[i] = NoOrder THEN 0 ELSE 1
  BY <1>0 DEF Counted
<1>3. ASSUME NEW d \in Daemon, SubmitOrder(d)
      PROVE  times'[i] = IF placed'[i] = NoOrder THEN 0 ELSE 1
  <2>1. cur[d] \in Id /\ placed[cur[d]] = NoOrder /\ pc[d] = "submit"
    BY <1>0, <1>3, SubmitParts DEF Handled, Knows, SubmitOrder
  <2>2. CASE UNCHANGED <<placed, times>>
    BY <1>2, <2>2
  <2>3. ASSUME NEW new \in {Executes(NewOrder(d)), NewOrder(d)},
               placed' = [placed EXCEPT ![cur[d]] = new],
               times' = [times EXCEPT ![cur[d]] = @ + 1]
        PROVE  times'[i] = IF placed'[i] = NoOrder THEN 0 ELSE 1
    <3>1. NewOrder(d) \in Order /\ new \in Order
      BY <1>0, <2>1, NewOrderType, ExecutesType DEF TypeOK
    <3>2. new # NoOrder
      BY <3>1, NoOrderAssumption
    <3>3. CASE i = cur[d]
      <4>1. times'[i] = times[i] + 1 /\ placed'[i] = new /\ times[i] = 0
        BY <1>0, <1>2, <2>1, <2>3, <3>3 DEF TypeOK
      <4>. QED
        BY <3>2, <4>1
    <3>4. CASE i # cur[d]
      <4>1. times'[i] = times[i] /\ placed'[i] = placed[i]
        BY <1>0, <2>1, <2>3, <3>4 DEF TypeOK
      <4>. QED
        BY <1>2, <4>1
    <3>. QED
      BY <3>3, <3>4
  <2>. QED
    BY <1>0, <1>3, <2>2, <2>3, SubmitParts
<1>4. CASE UNCHANGED times /\ \A d \in Daemon : ~ SubmitOrder(d)
  <2>1. placed'[i] # placed[i] => placed[i] # NoOrder /\ placed'[i] # NoOrder
    BY <1>0, <1>4, PlacedChange, NoOrderAssumption
  <2>. QED
    BY <1>2, <1>4, <2>1
<1>5. CASE UNCHANGED times
  BY <1>3, <1>4, <1>5
<1>. QED
  BY <1>3, <1>5
  DEF Next, vars, Publish, Exit, Work, Handle, SetLeverage, FetchLotSize, CancelOrder, Respond,
      Fill

\* Entries of an inbox.
LEMMA EntryParts ==
  ASSUME IInv, NEW d \in Daemon, NEW k \in 1..Len(inbox[d])
  PROVE  /\ inbox[d][k] \in Id /\ inbox[d][k] \in Nat /\ inbox[d][k] # 0
         /\ inbox[d][k] <= Len(msgs) /\ inbox[d][k] # cur[d]
<1>1. inbox[d] \in Seq(Id)
  BY DEF IInv, TypeOK
<1>2. inbox[d][k] \in Id
  BY <1>1
<1>3. inbox[d][k] <= Len(msgs) /\ inbox[d][k] # cur[d]
  BY Zenon DEF IInv, Places
<1>. QED
  BY <1>2, <1>3, BoundAssumption DEF Id

\* A message in hand is in no other hand, and in nobody's inbox.
LEMMA Alone ==
  ASSUME IInv, NEW d \in Daemon, NEW e \in Daemon, cur[d] # 0, cur[d] \in Id
  PROVE  /\ cur[e] = cur[d] => e = d
         /\ \A k \in 1..Len(inbox[e]) : inbox[e][k] # cur[d]
<1>1. d \in owner[cur[d]]
  BY DEF IInv, Handled, Knows
<1>2. \A f \in owner[cur[d]] : f = d
  BY <1>1 DEF IInv, OneOwner
<1>3. cur[e] = cur[d] => e \in owner[cur[d]]
  BY DEF IInv, Handled, Knows
<1>4. ASSUME NEW k \in 1..Len(inbox[e]), inbox[e][k] = cur[d] PROVE FALSE
  <2>1. e \in owner[cur[d]] /\ inbox[e][k] # cur[e]
    BY <1>4 DEF IInv, Places
  <2>. QED
    BY <1>2, <1>4, <2>1
<1>. QED
  BY <1>2, <1>3, <1>4

\* A message that is in no hand stays as it is.
LEMMA UntouchedKept ==
  ASSUME IInv, [Next]_vars, NEW i \in Id, Untouched(i), \A d \in Daemon : cur[d] # i
  PROVE  Untouched(i)'
<1>1. placed'[i] = placed[i]
  BY PlacedChange, NoOrderAssumption DEF IInv, Untouched
<1>2. report'[i] = report[i]
  BY ReportChange DEF IInv
<1>. QED
  BY <1>1, <1>2 DEF Untouched

\* So does one that has not been sent.
LEMMA FutureStep ==
  ASSUME IInv, [Next]_vars
  PROVE  Future'
<1>1. SUFFICES ASSUME NEW i \in Id, i > Len(msgs')
               PROVE  owner'[i] = {} /\ Untouched(i)'
  BY DEF Future, Untouched
<1>2. i > Len(msgs) /\ Len(msgs) \in Nat
  BY <1>1, MessagesKept DEF IInv, Id
<1>3. Untouched(i) /\ owner[i] = {}
  BY <1>2 DEF IInv, Future, Untouched
<1>4. ASSUME NEW d \in Daemon, cur[d] = i PROVE FALSE
  <2>1. cur[d] # 0 => cur[d] <= Len(msgs)
    BY DEF IInv, Handled, Knows
  <2>. QED
    BY <1>2, <1>4, <2>1, BoundAssumption DEF Id
<1>5. owner'[i] = owner[i]
  <2>. USE DEF account, history, record
  <2>1. ASSUME NEW m \in Requests, Publish(m) PROVE owner'[i] = owner[i]
    <3>1. PICK r \in alive : owner' = [owner EXCEPT ![Len(msgs')] = {r}]
      BY <2>1, PublishParts DEF IInv
    <3>2. Len(msgs') \in Id /\ Len(msgs') # i
      BY <1>1, <2>1, PublishParts DEF IInv, Id
    <3>. QED
      BY <3>1, <3>2 DEF IInv, TypeOK
  <2>. QED
    BY <2>1
    DEF Next, vars, Exit, Work, Handle, SetLeverage, FetchLotSize, SubmitOrder,
        CancelOrder, Respond, Fill
<1>. QED
  BY <1>3, <1>4, <1>5, UntouchedKept

\* An entry of an inbox after a step: one that was there, or a new message.
LEMMA EntryOrigin ==
  ASSUME IInv, [Next]_vars, NEW d \in Daemon, NEW k \in 1..Len(inbox'[d])
  PROVE  \/ /\ \E j \in 1..Len(inbox[d]) : inbox'[d][k] = inbox[d][j]
            /\ inbox'[d][k] # cur'[d]
         \/ /\ Len(msgs') = Len(msgs) + 1 /\ Len(msgs') \in Id
            /\ inbox'[d][k] = Len(msgs') /\ owner'[Len(msgs')] = {d} /\ cur'[d] = cur[d]
<1>0. TypeOK /\ inbox[d] \in Seq(Id) /\ Len(inbox[d]) \in Nat
  BY DEF IInv, TypeOK
<1>1. \A j \in 1..Len(inbox[d]) : inbox[d][j] # cur[d] /\ inbox[d][j] # 0
  BY EntryParts
<1>2. CASE inbox'[d] = inbox[d] /\ cur'[d] \in {cur[d], 0}
  BY <1>1, <1>2
<1>3. CASE inbox'[d] = <<>>
  BY <1>3
<1>4. CASE /\ inbox[d] # <<>> /\ inbox'[d] = Tail(inbox[d])
           /\ cur'[d] \in {cur[d], Head(inbox[d])}
  <2>1. k + 1 \in 1..Len(inbox[d]) /\ inbox'[d][k] = inbox[d][k + 1]
    BY <1>0, <1>4, HeadOfInbox
  <2>2. 1 \in 1..Len(inbox[d]) /\ k + 1 # 1 /\ Head(inbox[d]) = inbox[d][1]
    BY <1>0, <1>4, HeadOfInbox
  <2>3. inbox[d][k + 1] # inbox[d][1]
    BY <2>1, <2>2 DEF IInv, Places
  <2>. QED
    BY <1>1, <1>4, <2>1, <2>2, <2>3
<1>5. CASE /\ Len(msgs') = Len(msgs) + 1 /\ Len(msgs') \in Id
           /\ inbox'[d] = Append(inbox[d], Len(msgs'))
           /\ owner'[Len(msgs')] = {d} /\ cur'[d] = cur[d]
  <2>1. CASE k \in 1..Len(inbox[d])
    BY <1>0, <1>1, <1>5, <2>1
  <2>2. CASE k = Len(inbox[d]) + 1
    BY <1>0, <1>5, <2>2
  <2>. QED
    BY <1>0, <1>5, <2>1, <2>2
<1>. QED
  BY <1>0, <1>2, <1>3, <1>4, <1>5, InboxChange

\* Inboxes hold messages that nobody has touched.
LEMMA PlacesStep ==
  ASSUME IInv, [Next]_vars
  PROVE  Places'
<1>0. TypeOK /\ Len(msgs) \in Nat /\ Len(msgs') \in Nat /\ Len(msgs) <= Len(msgs')
  BY MessagesKept DEF IInv
<1>1. SUFFICES ASSUME NEW d \in Daemon
      PROVE  /\ \A k \in 1..Len(inbox'[d]) :
                  /\ inbox'[d][k] <= Len(msgs') /\ d \in owner'[inbox'[d][k]]
                  /\ Untouched(inbox[d][k])' /\ inbox'[d][k] # cur'[d]
             /\ \A j, k \in 1..Len(inbox'[d]) : j # k => inbox'[d][j] # inbox'[d][k]
  BY DEF Places
<1>2. \A e \in Daemon : cur[e] \in Id \cup {0} /\ (cur[e] # 0 => cur[e] <= Len(msgs))
  BY <1>0 DEF IInv, Handled, Knows, TypeOK
<1>3. ASSUME NEW k \in 1..Len(inbox'[d])
      PROVE  /\ inbox'[d][k] <= Len(msgs') /\ d \in owner'[inbox'[d][k]]
             /\ Untouched(inbox[d][k])' /\ inbox'[d][k] # cur'[d]
  <2>1. CASE /\ \E j \in 1..Len(inbox[d]) : inbox'[d][k] = inbox[d][j]
             /\ inbox'[d][k] # cur'[d]
    <3>1. PICK j \in 1..Len(inbox[d]) : inbox'[d][k] = inbox[d][j]
      BY <2>1
    <3>2. inbox[d][j] \in Id /\ inbox[d] \in Seq(Id)
      BY <1>0 DEF TypeOK
    <3>3. /\ inbox[d][j] <= Len(msgs) /\ d \in owner[inbox[d][j]]
          /\ Untouched(inbox[d][j])
      BY <3>1 DEF IInv, Places
    <3>4. \A e \in Daemon : cur[e] # inbox[d][j]
      BY <1>2, <3>2, Alone DEF Id
    <3>5. Untouched(inbox[d][k])'
      <4> DEFINE i == inbox[d][j]
      <4>1. i \in Id /\ Untouched(i) /\ \A e \in Daemon : cur[e] # i
        BY <3>2, <3>3, <3>4
      <4>2. placed'[i] = NoOrder /\ report'[i] = "none"
        <5>. HIDE DEF i
        <5>. QED
          BY <4>1, UntouchedKept DEF Untouched
      <4>. QED
        BY <3>1, <4>2 DEF Untouched
    <3>6. owner'[inbox[d][j]] = owner[inbox[d][j]]
      BY <3>2, <3>3, MessagesKept DEF IInv
    <3>. QED
      BY <1>0, <2>1, <3>1, <3>2, <3>3, <3>5, <3>6 DEF Id
  <2>2. CASE /\ Len(msgs') = Len(msgs) + 1 /\ Len(msgs') \in Id
             /\ inbox'[d][k] = Len(msgs') /\ owner'[Len(msgs')] = {d} /\ cur'[d] = cur[d]
    <3>1. Untouched(Len(msgs')) /\ \A e \in Daemon : cur[e] # Len(msgs')
      BY <1>0, <1>2, <2>2 DEF IInv, Future, Untouched
    <3>2. placed'[Len(msgs')] = NoOrder /\ report'[Len(msgs')] = "none"
      <4> DEFINE i == Len(msgs')
      <4>1. i \in Id /\ Untouched(i) /\ \A e \in Daemon : cur[e] # i
        BY <2>2, <3>1
      <4>2. placed'[i] = NoOrder /\ report'[i] = "none"
        <5>. HIDE DEF i
        <5>. QED
          BY <4>1, PlacedChange, ReportChange, NoOrderAssumption DEF IInv, Untouched
      <4>. QED
        BY <4>2
    <3>. QED
      BY <1>0, <2>2, <3>1, <3>2 DEF Untouched
  <2>. QED
    BY <2>1, <2>2, EntryOrigin
<1>4. ASSUME NEW j \in 1..Len(inbox'[d]), NEW k \in 1..Len(inbox'[d]), j # k
      PROVE  inbox'[d][j] # inbox'[d][k]
  <2>0. inbox[d] \in Seq(Id) /\ Len(inbox[d]) \in Nat
    BY <1>0 DEF TypeOK
  <2>1. /\ \A l \in 1..Len(inbox[d]) : inbox[d][l] <= Len(msgs) /\ inbox[d][l] \in Nat
        /\ \A l, m \in 1..Len(inbox[d]) : l # m => inbox[d][l] # inbox[d][m]
    <3>1. \A l \in 1..Len(inbox[d]) : inbox[d][l] <= Len(msgs) /\ inbox[d][l] \in Nat
      BY EntryParts
    <3>2. \A l, m \in 1..Len(inbox[d]) : l # m => inbox[d][l] # inbox[d][m]
      BY Zenon DEF IInv, Places
    <3>. QED
      BY <3>1, <3>2
  <2>2. CASE inbox'[d] = inbox[d]
    BY <1>4, <2>1, <2>2
  <2>3. CASE inbox'[d] = <<>>
    BY <2>3
  <2>4. CASE inbox[d] # <<>> /\ inbox'[d] = Tail(inbox[d])
    <3>1. /\ j + 1 \in 1..Len(inbox[d]) /\ k + 1 \in 1..Len(inbox[d]) /\ j + 1 # k + 1
          /\ inbox'[d][j] = inbox[d][j + 1] /\ inbox'[d][k] = inbox[d][k + 1]
      BY <1>0, <1>4, <2>4, HeadOfInbox
    <3>. QED
      BY <2>1, <3>1
  <2>5. CASE inbox'[d] = Append(inbox[d], Len(msgs')) /\ Len(msgs') = Len(msgs) + 1
    BY <1>0, <1>4, <2>0, <2>1, <2>5
  <2>. QED
    BY <1>0, <2>2, <2>3, <2>4, <2>5, InboxChange
<1>. QED
  BY <1>3, <1>4

-----------------------------------------------------------------------------
(* What a daemon knows of its message.                                     *)

\* A step of another process, the engine or the exchange takes no knowledge.
LEMMA KnowledgeKept ==
  ASSUME IInv, [Next]_vars, NEW d \in Daemon,
         UNCHANGED <<pc[d], cur[d], reply[d]>>,
         ~ (Exit(d) \/ Work(d))
  PROVE  Knows(d)'
<1> DEFINE i == cur[d]
<1>0. TypeOK /\ Handled /\ i \in Id \cup {0}
  BY DEF IInv, TypeOK
<1>1. CASE i = 0
  BY <1>0, <1>1 DEF Handled, Knows
<1>2. CASE i # 0
  <2>1. /\ i \in Id /\ i <= Len(msgs) /\ d \in owner[i] /\ report[i] = "none"
        /\ i \in 1..Len(msgs)
    BY <1>0, <1>2 DEF Handled, Knows, Id, TypeOK
  <2>2. i <= Len(msgs') /\ owner'[i] = owner[i] /\ msgs'[i] = msgs[i] /\ lost \subseteq lost'
    BY <1>0, <2>1, MessagesKept DEF Id
  <2>3. report'[i] = report[i]
    <3>1. SUFFICES ASSUME report'[i] # report[i] PROVE FALSE
      OBVIOUS
    <3>2. PICK e \in Daemon : Respond(e) /\ cur[e] = i
      BY <1>0, <2>1, <3>1, ReportChange
    <3>3. e = d
      BY <1>2, <2>1, <3>2, Alone
    <3>. QED
      BY <3>2, <3>3 DEF Work
  <2>4. \/ placed'[i] = placed[i]
        \/ /\ placed[i] # NoOrder /\ placed'[i] # NoOrder
           /\ placed'[i].executed = placed[i].executed \/ placed'[i].executed > 0
    <3>1. SUFFICES ASSUME placed'[i] # placed[i]
                   PROVE  /\ placed[i] # NoOrder /\ placed'[i] # NoOrder
                          /\ placed'[i].executed = placed[i].executed \/ placed'[i].executed > 0
      OBVIOUS
    <3>2. ASSUME NEW e \in Daemon, SubmitOrder(e), cur[e] = i PROVE FALSE
      <4>1. e = d
        BY <1>2, <2>1, <3>2, Alone
      <4>. QED
        BY <3>2, <4>1 DEF Work
    <3>. QED
      BY <1>0, <2>1, <3>1, <3>2, PlacedChange, NoOrderAssumption
  <2>5. pc[d] \in {"lot", "submit"} => CanTranslate(Msg(d))'
    BY <1>0, <2>1, <2>2 DEF Handled, Knows, CanTranslate, Msg
  <2>6. pc[d] = "respond" /\ reply[d] = "filled" => Executed(i) > 0
    BY <1>0 DEF Handled, Knows
  <2>7. pc[d] = "respond" /\ reply[d] = "filled" => Executed(cur[d])' > 0
    BY <2>4, <2>6 DEF Executed
  <2>8. /\ pc[d] \in {"leverage", "lot", "submit"} => placed[i] = NoOrder
        /\ pc[d] = "respond" /\ reply[d] = "error" => placed[i] = NoOrder \/ i \in lost
    BY <1>0 DEF Handled, Knows
  <2>. QED
    BY <1>2, <2>1, <2>2, <2>3, <2>4, <2>5, <2>7, <2>8 DEF Knows
<1>. QED
  BY <1>1, <1>2

\* What a handler has in hand changes only by its own steps.
LEMMA HandsKept ==
  ASSUME TypeOK, [Next]_vars, NEW d \in Daemon, ~ (Exit(d) \/ Work(d))
  PROVE  UNCHANGED <<pc[d], cur[d], qty[d], reply[d]>>
<1>1. ASSUME NEW e \in Daemon, Work(e) \/ Exit(e)
      PROVE  UNCHANGED <<pc[d], cur[d], qty[d], reply[d]>>
  <2>1. e # d
    BY <1>1
  <2>2. CASE Exit(e)
    BY <2>1, <2>2 DEF Exit, Idle, TypeOK
  <2>3. CASE CancelOrder(e) \/ Respond(e)
    BY <2>1, <2>3 DEF CancelOrder, Respond, Idle, TypeOK
  <2>4. CASE Handle(e)
    BY <2>1, <2>4 DEF Handle, Proceed, RespondWith, TypeOK
  <2>5. CASE SetLeverage(e)
    BY <2>1, <2>5 DEF SetLeverage, Proceed, RespondWith, TypeOK
  <2>6. CASE FetchLotSize(e)
    BY <2>1, <2>6 DEF FetchLotSize, RespondWith, TypeOK
  <2>7. CASE SubmitOrder(e)
    <3>1. cur' = cur /\ qty' = qty /\ \E what : RespondWith(e, what)
      BY <2>7 DEF SubmitOrder
    <3>. QED
      BY <2>1, <3>1 DEF RespondWith, TypeOK
  <2>. QED
    BY <1>1, <2>2, <2>3, <2>4, <2>5, <2>6, <2>7 DEF Work
<1>2. UNCHANGED <<pc, cur, qty, reply>> => UNCHANGED <<pc[d], cur[d], qty[d], reply[d]>>
  OBVIOUS
<1>. QED
  BY <1>1, <1>2 DEF Next, vars, Publish, Fill

\* A handler that returns knows nothing any more.
LEMMA IdleKnows ==
  ASSUME TypeOK, NEW d \in Daemon, Idle(d)
  PROVE  Knows(d)'
BY DEF TypeOK, Idle, Knows

\* The steps of its own handler give a daemon what it knows.
LEMMA WorkKnows ==
  ASSUME IInv, NEW d \in Daemon, Work(d)
  PROVE  Knows(d)'
<1>. USE DEF account, history, record
<1>0. TypeOK /\ Handled
  BY DEF IInv
<1>1. CASE Handle(d)
  <2> DEFINE i == Head(inbox[d])
  <2>1. /\ inbox[d] # <<>> /\ pc[d] = "idle"
        /\ UNCHANGED <<msgs, report, placed, owner, lost>>
    BY <1>1 DEF Handle
  <2>2. 1 \in 1..Len(inbox[d]) /\ i = inbox[d][1] /\ i \in Id /\ i # 0
    BY <1>0, <2>1, HeadOfInbox DEF Id
  <2>3. i <= Len(msgs) /\ d \in owner[i] /\ placed[i] = NoOrder /\ report[i] = "none"
    BY <2>2 DEF IInv, Places, Untouched
  <2>4. CASE UNCHANGED <<pc, cur, reply>>
    BY <1>0, <2>1, <2>4 DEF Handled, Knows
  <2>5. CASE cur' = [cur EXCEPT ![d] = i]
    <3>1. cur'[d] = i /\ Msg(d)' = msgs[i]
      BY <1>0, <2>1, <2>5 DEF TypeOK, Msg
    <3>2. CASE RespondWith(d, "error")
      BY <1>0, <2>1, <2>2, <2>3, <3>1, <3>2 DEF TypeOK, RespondWith, Knows
    <3>3. CASE pc' = [pc EXCEPT ![d] = "cancel"] \/ pc' = [pc EXCEPT ![d] = "leverage"]
      BY <1>0, <2>1, <2>2, <2>3, <3>1, <3>3 DEF TypeOK, Knows
    <3>4. CASE pc' = [pc EXCEPT ![d] = "lot"] /\ CanTranslate(msgs[i])
      BY <1>0, <2>1, <2>2, <2>3, <3>1, <3>4 DEF TypeOK, Knows
    <3>. QED
      BY <1>1, <2>1, <2>4, <3>2, <3>3, <3>4 DEF Handle, Proceed
  <2>. QED
    BY <1>1, <2>4, <2>5 DEF Handle
<1>2. ASSUME pc[d] # "idle", UNCHANGED <<msgs, report, owner, cur>>
      PROVE  /\ cur'[d] = cur[d] /\ cur[d] # 0 /\ cur[d] \in Id /\ Msg(d)' = Msg(d)
             /\ cur[d] <= Len(msgs') /\ d \in owner'[cur[d]] /\ report'[cur[d]] = "none"
  BY <1>0, <1>2, CurrentMessage DEF Handled, Knows, Msg
<1>3. CASE SetLeverage(d)
  <2>1. /\ pc[d] = "leverage" /\ UNCHANGED <<msgs, report, owner, cur, placed, lost>>
        /\ placed[cur[d]] = NoOrder
    BY <1>0, <1>3 DEF SetLeverage, Handled, Knows
  <2>2. CASE RespondWith(d, "error")
    BY <1>0, <1>2, <2>1, <2>2 DEF TypeOK, RespondWith, Knows
  <2>3. CASE RespondWith(d, "ok")
    BY <1>0, <1>2, <2>1, <2>3 DEF TypeOK, RespondWith, Knows
  <2>4. CASE pc' = [pc EXCEPT ![d] = "lot"] /\ CanTranslate(Msg(d))
    BY <1>0, <1>2, <2>1, <2>4 DEF TypeOK, Knows
  <2>. QED
    BY <1>3, <2>2, <2>3, <2>4 DEF SetLeverage, Proceed
<1>4. CASE FetchLotSize(d)
  <2>1. /\ pc[d] = "lot" /\ UNCHANGED <<msgs, report, owner, cur, placed, lost>>
        /\ placed[cur[d]] = NoOrder /\ CanTranslate(Msg(d))
    BY <1>0, <1>4 DEF FetchLotSize, Handled, Knows
  <2>2. CASE RespondWith(d, "error")
    BY <1>0, <1>2, <2>1, <2>2 DEF TypeOK, RespondWith, Knows
  <2>3. CASE pc' = [pc EXCEPT ![d] = "submit"]
    BY <1>0, <1>2, <2>1, <2>3 DEF TypeOK, Knows
  <2>. QED
    BY <1>4, <2>2, <2>3 DEF FetchLotSize
<1>5. CASE SubmitOrder(d)
  <2>1. /\ pc[d] = "submit" /\ UNCHANGED <<msgs, report, owner, cur>>
        /\ placed[cur[d]] = NoOrder
    BY <1>0, <1>5 DEF SubmitOrder, Handled, Knows
  <2>2. CASE RespondWith(d, "error") /\ UNCHANGED <<placed, lost>>
    BY <1>0, <1>2, <2>1, <2>2 DEF TypeOK, RespondWith, Knows
  <2>3. CASE RespondWith(d, "error") /\ lost' = lost \cup {cur[d]}
    BY <1>0, <1>2, <2>1, <2>3 DEF TypeOK, RespondWith, Knows
  <2>4. ASSUME NEW new \in {Executes(NewOrder(d)), NewOrder(d)},
               placed' = [placed EXCEPT ![cur[d]] = new],
               NEW what \in Reported(new), RespondWith(d, what)
        PROVE  Knows(d)'
    <3>1. new \in Order /\ new # NoOrder
      BY <1>0, <2>1, NewOrderType, ExecutesType, NoOrderAssumption DEF TypeOK
    <3>2. what \in {"filled", "unfilled"} /\ (what = "filled" => new.executed > 0)
      BY <2>4 DEF Reported
    <3>3. placed'[cur[d]] = new
      BY <1>0, <1>2, <2>1, <2>4 DEF TypeOK
    <3>4. what = "filled" => Executed(cur[d])' > 0
      BY <1>2, <2>1, <3>1, <3>2, <3>3 DEF Executed
    <3>5. pc'[d] = "respond" /\ reply'[d] = what
      BY <1>0, <2>4 DEF TypeOK, RespondWith
    <3>. QED
      BY <1>2, <2>1, <3>2, <3>4, <3>5 DEF Knows
  <2>. QED
    BY <1>0, <1>5, <2>2, <2>3, <2>4, SubmitParts
<1>6. CASE CancelOrder(d) \/ Respond(d)
  BY <1>0, <1>6, IdleKnows DEF CancelOrder, Respond
<1>. QED
  BY <1>1, <1>3, <1>4, <1>5, <1>6 DEF Work

\* So every daemon knows what Handled says after every step.
LEMMA HandledStep ==
  ASSUME IInv, [Next]_vars
  PROVE  Handled'
<1>0. TypeOK
  BY DEF IInv
<1>1. SUFFICES ASSUME NEW d \in Daemon PROVE Knows(d)'
  BY DEF Handled
<1>2. CASE Work(d)
  BY <1>2, WorkKnows
<1>3. CASE Exit(d)
  BY <1>0, <1>3, IdleKnows DEF Exit
<1>4. CASE ~ (Exit(d) \/ Work(d))
  <2>1. UNCHANGED <<pc[d], cur[d], reply[d]>>
    BY <1>0, <1>4, HandsKept
  <2>. QED
    BY <1>4, <2>1, KnowledgeKept
<1>. QED
  BY <1>2, <1>3, <1>4

-----------------------------------------------------------------------------
\* An order of a close stays reduce-only.
LEMMA ClosesStep ==
  ASSUME IInv, [Next]_vars
  PROVE  ClosesReduce'
<1>0. TypeOK /\ Handled
  BY DEF IInv
<1>1. SUFFICES ASSUME NEW i \in Id, placed'[i] # NoOrder, msgs'[i].action = "close"
               PROVE  placed'[i].reduce
  BY DEF ClosesReduce
<1>2. CASE placed'[i] = placed[i]
  <2>1. i <= Len(msgs)
    BY <1>0, <1>1, <1>2 DEF IInv, Future, TypeOK, Id
  <2>2. msgs'[i] = msgs[i]
    BY <1>0, <2>1, MessagesKept DEF Id
  <2>. QED
    BY <1>1, <1>2, <2>2 DEF IInv, ClosesReduce
<1>3. ASSUME NEW d \in Daemon, SubmitOrder(d), cur[d] = i, placed[i] = NoOrder
      PROVE  placed'[i].reduce
  <2>1. pc[d] = "submit" /\ msgs' = msgs
    BY <1>3 DEF SubmitOrder
  <2>2. Msg(d) = msgs'[i] /\ NewOrder(d) \in Order /\ NewOrder(d).reduce
    BY <1>0, <1>1, <1>3, <2>1, NewOrderType DEF Msg
  <2>3. Executes(NewOrder(d)).reduce
    BY <1>0, <2>2, ExecutesType DEF TypeOK, SameTerms
  <2>4. placed' = placed \/ \E new \in {Executes(NewOrder(d)), NewOrder(d)} :
                              placed' = [placed EXCEPT ![i] = new]
    BY <1>0, <1>3, SubmitParts, Zenon
  <2>. QED
    BY <1>0, <1>1, <1>3, <2>2, <2>3, <2>4 DEF TypeOK
<1>4. CASE /\ placed[i] \in Order /\ placed'[i] \in Order
           /\ SameTerms(placed'[i], placed[i])
  <2>1. placed[i] # NoOrder
    BY <1>4, NoOrderAssumption
  <2>2. i <= Len(msgs)
    BY <1>0, <2>1 DEF IInv, Future, TypeOK, Id
  <2>3. msgs'[i] = msgs[i]
    BY <1>0, <2>2, MessagesKept DEF Id
  <2>. QED
    BY <1>1, <1>4, <2>1, <2>3 DEF IInv, ClosesReduce, SameTerms
<1>. QED
  BY <1>0, <1>2, <1>3, <1>4, PlacedChange

\* Reports keep agreeing with the exchange.
LEMMA ReportsStep ==
  ASSUME IInv, [Next]_vars
  PROVE  ReportsAgreeWithExchange'
<1>0. TypeOK /\ Handled /\ lost \subseteq lost'
  BY MessagesKept DEF IInv
<1>1. SUFFICES ASSUME NEW i \in Id
               PROVE  /\ report'[i] = "error" => placed'[i] = NoOrder \/ i \in lost'
                      /\ report'[i] = "filled" => Executed(i)' > 0
  BY DEF ReportsAgreeWithExchange
<1>2. CASE report'[i] # report[i]
  <2>1. PICK d \in Daemon : /\ Respond(d) /\ pc[d] = "respond"
                            /\ cur[d] = i /\ report'[i] = reply[d]
    BY <1>0, <1>2, ReportChange
  <2>2. /\ reply[d] = "error" => placed[i] = NoOrder \/ i \in lost
        /\ reply[d] = "filled" => Executed(i) > 0
    BY <1>0, <2>1 DEF Handled, Knows
  <2>3. placed' = placed
    BY <2>1 DEF Respond, account
  <2>. QED
    BY <1>0, <2>1, <2>2, <2>3 DEF Executed
<1>3. CASE report'[i] = report[i] /\ placed'[i] = placed[i]
  BY <1>0, <1>3 DEF IInv, ReportsAgreeWithExchange, Executed
<1>4. CASE report'[i] = report[i] /\ placed'[i] # placed[i]
  <2>1. ASSUME NEW d \in Daemon, SubmitOrder(d), cur[d] = i
        PROVE  report[i] = "none"
    BY <1>0, <2>1, SubmitParts DEF Handled, Knows, Id
  <2>2. ASSUME placed[i] \in Order, placed'[i] \in Order,
               placed'[i].executed = placed[i].executed \/ placed'[i].executed > 0
        PROVE  /\ report[i] = "error" => i \in lost'
               /\ report[i] = "filled" => Executed(i)' > 0
    BY <1>0, <2>2, NoOrderAssumption DEF IInv, ReportsAgreeWithExchange, Executed
  <2>. QED
    BY <1>0, <1>4, <2>1, <2>2, PlacedChange
<1>. QED
  BY <1>2, <1>3, <1>4

-----------------------------------------------------------------------------
\* The invariant holds at the start and after every step.
LEMMA InitIInv == Init => IInv
<1>1. SUFFICES ASSUME Init PROVE IInv
  OBVIOUS
<1>2. TypeOK
  BY <1>1, LotAssumption, BoundAssumption DEF Init, TypeOK, Outcome
<1>3. /\ OneOwner /\ Counted /\ Future /\ Places /\ Handled /\ ClosesReduce
      /\ ReportsAgreeWithExchange
  BY <1>1 DEF Init, OneOwner, Counted, Future, Places, Handled, Knows, ClosesReduce,
              ReportsAgreeWithExchange, Id
<1>. QED
  BY <1>2, <1>3 DEF IInv

LEMMA InductiveStep == IInv /\ [Next]_vars => IInv'
<1>1. SUFFICES ASSUME IInv, [Next]_vars PROVE IInv'
  OBVIOUS
<1>2. TypeOK'
  BY <1>1, TypeStep DEF IInv
<1>. QED
  BY <1>1, <1>2, OwnersStep, CountedStep, FutureStep, PlacesStep, HandledStep, ClosesStep, ReportsStep
  DEF IInv

LEMMA Invariance == Spec => []IInv
BY InitIInv, InductiveStep, PTL DEF Spec

-----------------------------------------------------------------------------
(* Theorems. *)

\* Bridges, inboxes and account keep their types (NewOrderBridge, handle).
THEOREM TypeCorrect == Spec => []TypeOK
<1>1. IInv => TypeOK
  BY DEF IInv
<1>. QED
  BY <1>1, Invariance, PTL

\* However many daemons share the queue group and whatever answers are lost,
\* the exchange accepts one order for a message (OrderBridge.Start, execute).
THEOREM ExecutedOnceTheorem == Spec => []ExecutedOnce
<1>1. IInv => ExecutedOnce
  BY DEF IInv, Counted, ExecutedOnce
<1>. QED
  BY <1>1, Invariance, PTL

\* An order reported as an error does not exist unless its answer was lost,
\* one reported as filled was executed (execute, buildReport).
THEOREM ReportsTheorem == Spec => []ReportsAgreeWithExchange
<1>1. IInv => ReportsAgreeWithExchange
  BY DEF IInv
<1>. QED
  BY <1>1, Invariance, PTL

\* Executing a reduce-only order takes the position towards zero.
LEMMA ReduceShrinks ==
  ASSUME TypeOK, NEW o \in Order, o.reduce
  PROVE  Shrinks(pos, Moved(o))
<1>1. pos \in Int /\ o.qty \in Nat /\ o.side \in {"BUY", "SELL"}
  BY DEF TypeOK, Order
<1>. QED
  BY <1>1 DEF Shrinks, Moved, Executable, Opposite

\* An order whose payload says close, executed at once or later, never flips
\* the position nor enlarges it (translateOrder).
THEOREM CloseTheorem == Spec => CloseNeverFlips
<1>1. ASSUME IInv, [Next]_vars, NEW i \in Id, Executed(i)' # Executed(i),
             msgs[i].action = "close"
      PROVE  Shrinks(pos, pos')
  <2>0. TypeOK /\ Handled
    BY <1>1 DEF IInv
  <2>1. placed'[i] # placed[i]
    BY <1>1 DEF Executed
  <2>2. ASSUME NEW d \in Daemon, SubmitOrder(d), cur[d] = i
        PROVE  Shrinks(pos, pos')
    <3>1. pc[d] = "submit"
      BY <2>2 DEF SubmitOrder
    <3>2. NewOrder(d) \in Order /\ NewOrder(d).reduce
      BY <1>1, <2>0, <2>2, <3>1, NewOrderType DEF Msg
    <3>3. Shrinks(pos, Moved(NewOrder(d))) /\ Shrinks(pos, pos)
      BY <2>0, <3>2, ReduceShrinks DEF Shrinks, TypeOK
    <3>4. pos' = pos \/ pos' = Moved(NewOrder(d))
      BY <2>0, <2>2, SubmitParts
    <3>. QED
      BY <3>3, <3>4
  <2>3. ASSUME NEW j \in Id, Fill(j) PROVE Shrinks(pos, pos')
    <3>1. /\ placed[j] # NoOrder /\ pos' = Moved(placed[j])
          /\ placed' = [placed EXCEPT ![j] = Executes(placed[j])]
      BY <2>3 DEF Fill
    <3>2. i = j
      BY <2>0, <2>1, <3>1 DEF TypeOK
    <3>3. placed[j] \in Order /\ placed[j].reduce
      BY <1>1, <2>0, <3>1, <3>2 DEF IInv, ClosesReduce, TypeOK
    <3>. QED
      BY <2>0, <3>1, <3>3, ReduceShrinks
  <2>4. ASSUME NEW d \in Daemon, CancelOrder(d) PROVE Shrinks(pos, pos')
    <3>1. pos' = pos
      BY <2>4 DEF CancelOrder
    <3>. QED
      BY <2>0, <3>1 DEF Shrinks, TypeOK
  <2>5. ASSUME NEW d \in Daemon, SubmitOrder(d) PROVE cur[d] = i
    <3>1. /\ cur[d] \in Id
          /\ placed' = placed \/ \E new : placed' = [placed EXCEPT ![cur[d]] = new]
      BY <2>0, <2>5, SubmitParts, Zenon
    <3>. QED
      BY <2>0, <2>1, <3>1 DEF TypeOK
  <2>6. UNCHANGED placed => FALSE
    BY <2>1
  <2>. QED
    BY <1>1, <2>2, <2>3, <2>4, <2>5, <2>6
    DEF Next, vars, account, history, record, Publish, Exit, Work, Handle, SetLeverage, FetchLotSize,
        Respond
<1>2. IInv /\ [Next]_vars =>
        [\A i \in Id : Executed(i)' # Executed(i) /\ msgs[i].action = "close"
           => Shrinks(pos, pos')]_vars
  BY <1>1
<1>. QED
  BY <1>2, Invariance, PTL DEF Spec, CloseNeverFlips

-----------------------------------------------------------------------------
(* What an order is sent with.  The quantity was rounded and the leverage  *)
(* set in earlier requests, so the invariant follows them from there.      *)

\* A daemon that has ended handles nothing and receives nothing.
Running == \A d \in Daemon : pc[d] # "idle" \/ inbox[d] # <<>> => d \in alive

\* Never more than was asked for, and rounded for all messages but those of U.
Tradable(U, i, q, size) ==
  /\ q <= size
  /\ i \notin U => q % LotStep = 0 /\ q >= MinQty /\ size < q + LotStep

Measured ==
  \A d \in Daemon : pc[d] = "submit" => Tradable(unsized, cur[d], qty[d], Msg(d).size)

\* Between its two requests an order finds its leverage, or was raced.
Geared ==
  \A d \in Daemon : pc[d] \in {"lot", "submit"} /\ NeedsLeverage(Msg(d))
    => lev = Msg(d).lev \/ d \in raced

Terms ==
  /\ IInv /\ Running /\ Measured /\ Geared /\ QuantityTradable /\ OpensAtItsLeverage

\* Rounding down gives a multiple of the step, not more and the nearest.
LEMMA QuantizeRounds ==
  ASSUME NEW q \in Nat
  PROVE  /\ QuantizeDown(q) <= q /\ QuantizeDown(q) % LotStep = 0
         /\ q < QuantizeDown(q) + LotStep
<1>. DEFINE n == q \div LotStep
<1>1. n \in Nat /\ q = n * LotStep + (q % LotStep) /\ q % LotStep \in 0..(LotStep - 1)
  BY LotAssumption
<1>2. QuantizeDown(q) = n * LotStep
  BY DEF QuantizeDown
<1>3. n * LotStep \in Nat
  BY <1>1, LotAssumption
<1>4. n * LotStep <= q /\ q < n * LotStep + LotStep
  <2>. HIDE DEF n
  <2>. QED
    BY <1>1, <1>3, LotAssumption
<1>5. (n * LotStep) % LotStep = 0
  <2>. HIDE DEF n
  <2>. QED
    BY <1>1, LotAssumption
<1>. QED
  BY <1>2, <1>4, <1>5

\* A message that is known to go out unrounded stays known.
LEMMA UnsizedKept ==
  ASSUME [Next]_vars
  PROVE  unsized \subseteq unsized'
<1>. USE DEF account, history, record
<1>. QED
  BY DEF Next, vars, Publish, Exit, Work, Handle, SetLeverage, FetchLotSize, SubmitOrder,
         CancelOrder, Respond, Fill

\* Only what runs is given work.
LEMMA RunningStep ==
  ASSUME Terms, [Next]_vars
  PROVE  Running'
<1>0. TypeOK /\ Running
  BY DEF Terms, IInv
<1>1. SUFFICES ASSUME NEW d \in Daemon, pc'[d] # "idle" \/ inbox'[d] # <<>>
               PROVE  d \in alive'
  BY DEF Running
<1>2. CASE Exit(d)
  BY <1>0, <1>1, <1>2 DEF Exit, Idle, TypeOK
<1>3. CASE Work(d)
  <2>1. d \in alive
    BY <1>0, <1>3
    DEF Running, Work, Handle, SetLeverage, FetchLotSize, SubmitOrder, CancelOrder, Respond
  <2>2. alive' = alive
    BY <1>3 DEF Work, Handle, SetLeverage, FetchLotSize, SubmitOrder, CancelOrder, Respond
  <2>. QED
    BY <2>1, <2>2
<1>4. CASE ~ (Exit(d) \/ Work(d))
  <2>1. pc'[d] = pc[d]
    BY <1>0, <1>4, HandsKept
  <2>2. d \in alive => d \in alive'
    BY <1>4
    DEF Next, vars, Publish, Exit, Work, Handle, SetLeverage, FetchLotSize, SubmitOrder,
        CancelOrder, Respond, Fill
  <2>3. CASE \E m \in Requests : Publish(m)
    <3>1. PICK r \in alive :
            inbox' = [e \in Daemon |-> IF e = r THEN Append(inbox[e], Len(msgs'))
                                                ELSE inbox[e]]
      BY <1>0, <2>3, PublishParts
    <3>2. d = r \/ inbox'[d] = inbox[d]
      BY <3>1
    <3>. QED
      BY <1>0, <1>1, <2>1, <2>2, <3>2 DEF Running
  <2>4. CASE inbox'[d] = inbox[d]
    BY <1>0, <1>1, <2>1, <2>2, <2>4 DEF Running
  <2>5. ASSUME NEW e \in Daemon, e # d, Exit(e) \/ Work(e)
        PROVE  inbox'[d] = inbox[d]
    <3>1. inbox' = inbox \/ \E new : inbox' = [inbox EXCEPT ![e] = new]
      BY <2>5, Zenon
      DEF Exit, Work, Handle, SetLeverage, FetchLotSize, SubmitOrder, CancelOrder, Respond
    <3>. QED
      BY <1>0, <2>5, <3>1 DEF TypeOK
  <2>. QED
    BY <1>4, <2>3, <2>4, <2>5 DEF Next, vars, Fill
<1>. QED
  BY <1>2, <1>3, <1>4

\* The message in hand of a daemon that keeps it.
LEMMA SameMessage ==
  ASSUME TypeOK, Handled, [Next]_vars, NEW d \in Daemon, pc[d] # "idle", cur'[d] = cur[d]
  PROVE  Msg(d)' = Msg(d)
<1>1. cur[d] \in 1..Len(msgs)
  BY CurrentMessage
<1>. QED
  BY <1>1, MessagesKept DEF Msg

\* FetchLotSize is where a quantity comes from.
LEMMA MeasuredStep ==
  ASSUME Terms, [Next]_vars
  PROVE  Measured'
<1>0. TypeOK /\ Handled /\ Measured
  BY DEF Terms, IInv
<1>1. SUFFICES ASSUME NEW d \in Daemon, pc'[d] = "submit"
               PROVE  Tradable(unsized', cur'[d], qty'[d], Msg(d)'.size)
  BY DEF Measured, Tradable
<1>2. CASE FetchLotSize(d)
  <2>1. pc[d] = "lot" /\ cur' = cur
    BY <1>2 DEF FetchLotSize
  <2>2. Msg(d).size \in Nat /\ Msg(d)' = Msg(d)
    BY <1>0, <2>1, CurrentMessage, MessageParts, SameMessage
  <2> DEFINE q == QuantizeDown(Msg(d).size)
  <2>3. \/ q >= MinQty /\ qty' = [qty EXCEPT ![d] = q]
        \/ qty' = [qty EXCEPT ![d] = Msg(d).size] /\ cur[d] \in unsized'
    BY <1>0, <1>1, <1>2 DEF FetchLotSize, RespondWith, TypeOK
  <2>4. \/ q >= MinQty /\ qty'[d] = q
        \/ qty'[d] = Msg(d).size /\ cur[d] \in unsized'
    BY <1>0, <2>3 DEF TypeOK
  <2>5. q <= Msg(d).size /\ q % LotStep = 0 /\ Msg(d).size < q + LotStep
    BY <2>2, QuantizeRounds
  <2>6. cur'[d] = cur[d]
    BY <2>1
  <2>. QED
    BY <2>2, <2>4, <2>5, <2>6 DEF Tradable
<1>3. CASE Exit(d) \/ CancelOrder(d) \/ Respond(d)
  BY <1>0, <1>1, <1>3 DEF Exit, CancelOrder, Respond, Idle, TypeOK
<1>4. CASE Handle(d) \/ SetLeverage(d)
  BY <1>0, <1>1, <1>4 DEF Handle, SetLeverage, Proceed, RespondWith, TypeOK
<1>5. CASE SubmitOrder(d)
  <2>1. \E what : RespondWith(d, what)
    BY <1>5 DEF SubmitOrder
  <2>. QED
    BY <1>0, <1>1, <2>1 DEF RespondWith, TypeOK
<1>6. CASE ~ (Exit(d) \/ Work(d))
  <2>1. pc[d] = "submit" /\ qty'[d] = qty[d] /\ Msg(d)' = Msg(d) /\ cur'[d] = cur[d]
    BY <1>0, <1>1, <1>6, HandsKept, SameMessage
  <2>2. Tradable(unsized, cur[d], qty[d], Msg(d).size)
    BY <1>0, <2>1 DEF Measured
  <2>. QED
    BY <2>1, <2>2, UnsizedKept DEF Tradable
<1>. QED
  BY <1>2, <1>3, <1>4, <1>5, <1>6 DEF Work

\* Whoever changes the leverage under an order leaves a mark on it.
LEMMA LeverageMarked ==
  ASSUME Terms, [Next]_vars, NEW d \in Daemon, pc[d] \in {"lot", "submit"}, ~ Exit(d),
         pc'[d] # "idle"
  PROVE  (lev' = lev \/ d \in raced') /\ (d \in raced => d \in raced')
<1>. USE DEF account, history, record
<1>0. TypeOK /\ d \in alive
  BY DEF Terms, IInv, Running
<1>1. ASSUME NEW e \in Daemon, SetLeverage(e)
      PROVE  (lev' = lev \/ d \in raced') /\ raced \subseteq raced'
  <2>1. e # d
    BY <1>1 DEF SetLeverage
  <2>. QED
    BY <1>0, <1>1, <2>1 DEF SetLeverage, ChangeLeverage
<1>2. ASSUME NEW e \in Daemon, Exit(e) \/ CancelOrder(e) \/ Respond(e)
      PROVE  lev' = lev /\ raced' = raced \ {e} /\ e # d
  BY <1>0, <1>2 DEF Exit, CancelOrder, Respond, Idle, TypeOK
<1>3. CASE UNCHANGED <<lev, raced>>
  BY <1>3
<1>. QED
  BY <1>1, <1>2, <1>3
  DEF Next, vars, Publish, Work, Handle, FetchLotSize, SubmitOrder, Fill

\* An order goes on after its leverage was set and not otherwise.
LEMMA GearedStep ==
  ASSUME Terms, [Next]_vars
  PROVE  Geared'
<1>. USE DEF account, history, record
<1>0. TypeOK /\ Handled /\ Geared
  BY DEF Terms, IInv
<1>1. SUFFICES ASSUME NEW d \in Daemon, pc'[d] \in {"lot", "submit"}, NeedsLeverage(Msg(d)')
               PROVE  lev' = Msg(d)'.lev \/ d \in raced'
  BY DEF Geared, NeedsLeverage, Effective
<1>2. CASE Handle(d)
  <2>1. pc[d] = "idle" /\ UNCHANGED msgs
    BY <1>2 DEF Handle
  <2>2. pc'[d] # pc[d] /\ pc'[d] \notin {"cancel", "leverage", "respond"}
    BY <1>1, <2>1
  <2>3. /\ cur' = [cur EXCEPT ![d] = Head(inbox[d])]
        /\ ~ NeedsLeverage(msgs[Head(inbox[d])])
    BY <1>0, <1>2, <2>2 DEF Handle, RespondWith, TypeOK
  <2>4. Msg(d)' = msgs[Head(inbox[d])]
    BY <1>0, <2>1, <2>3 DEF TypeOK, Msg
  <2>. QED
    BY <1>1, <2>3, <2>4
<1>3. CASE SetLeverage(d)
  <2>1. pc[d] = "leverage" /\ cur' = cur /\ (lev' = Msg(d).lev \/ RespondWith(d, "error"))
    BY <1>3 DEF SetLeverage, ChangeLeverage
  <2>2. lev' = Msg(d).lev
    BY <1>0, <1>1, <2>1 DEF RespondWith, TypeOK
  <2>. QED
    BY <1>0, <2>1, <2>2, SameMessage
<1>4. CASE Exit(d) \/ CancelOrder(d) \/ Respond(d)
  BY <1>0, <1>1, <1>4 DEF Exit, CancelOrder, Respond, Idle, TypeOK
<1>5. CASE SubmitOrder(d)
  <2>1. \E what : RespondWith(d, what)
    BY <1>5 DEF SubmitOrder
  <2>. QED
    BY <1>0, <1>1, <2>1 DEF RespondWith, TypeOK
<1>6. CASE FetchLotSize(d) \/ ~ (Exit(d) \/ Work(d))
  <2>1. pc[d] \in {"lot", "submit"} /\ cur'[d] = cur[d] /\ ~ Exit(d)
    <3>1. CASE FetchLotSize(d)
      BY <3>1 DEF FetchLotSize, Exit
    <3>2. CASE ~ (Exit(d) \/ Work(d))
      BY <1>0, <1>1, <3>2, HandsKept
    <3>. QED
      BY <1>6, <3>1, <3>2
  <2>2. Msg(d)' = Msg(d)
    BY <1>0, <2>1, SameMessage
  <2>3. lev = Msg(d).lev \/ d \in raced
    BY <1>0, <1>1, <2>1, <2>2 DEF Geared
  <2>4. (lev' = lev \/ d \in raced') /\ (d \in raced => d \in raced')
    BY <1>1, <2>1, LeverageMarked
  <2>. QED
    BY <2>2, <2>3, <2>4
<1>. QED
  BY <1>2, <1>3, <1>4, <1>5, <1>6 DEF Work

\* The terms an order was sent with hold for as long as it exists.
LEMMA PlacedStep ==
  ASSUME Terms, [Next]_vars
  PROVE  QuantityTradable' /\ OpensAtItsLeverage'
<1>. DEFINE Meets(i, o, m) == /\ Tradable(unsized', i, o.qty, m.size)
                              /\ NeedsLeverage(m) => o.lev = m.lev \/ o.raced
<1>0. TypeOK /\ Handled /\ IInv
  BY DEF Terms, IInv
<1>1. SUFFICES ASSUME NEW i \in Id, placed'[i] # NoOrder
               PROVE  Meets(i, placed'[i], msgs'[i])
  BY DEF QuantityTradable, OpensAtItsLeverage, Tradable, NeedsLeverage, Effective
<1>2. ASSUME placed[i] # NoOrder
      PROVE  Meets(i, placed[i], msgs'[i])
  <2>1. i \in 1..Len(msgs)
    BY <1>0, <1>2 DEF IInv, Future, TypeOK, Id
  <2>2. msgs'[i] = msgs[i]
    BY <1>0, <2>1, MessagesKept
  <2>. QED
    BY <1>2, <2>2, UnsizedKept DEF Terms, QuantityTradable, OpensAtItsLeverage, Tradable
<1>3. ASSUME NEW d \in Daemon, SubmitOrder(d), cur[d] = i, placed'[i] # placed[i]
      PROVE  Meets(i, placed'[i], msgs'[i])
  <2>1. pc[d] = "submit" /\ msgs' = msgs
    BY <1>3 DEF SubmitOrder
  <2>2. Msg(d) = msgs'[i] /\ NewOrder(d) \in Order
    BY <1>0, <1>3, <2>1, NewOrderType DEF Msg
  <2>3. SameTerms(Executes(NewOrder(d)), NewOrder(d))
    BY <1>0, <2>2, ExecutesType DEF TypeOK
  <2>4. NewOrder(d).qty = qty[d] /\ NewOrder(d).lev = lev /\ NewOrder(d).raced = (d \in raced)
    BY DEF NewOrder
  <2>5. Meets(i, NewOrder(d), Msg(d))
    <3>1. /\ Tradable(unsized, i, qty[d], Msg(d).size)
          /\ NeedsLeverage(Msg(d)) => lev = Msg(d).lev \/ d \in raced
      BY <1>3, <2>1 DEF Terms, Measured, Geared
    <3>. QED
      BY <2>4, <3>1, UnsizedKept DEF Tradable
  <2>6. PICK new \in {Executes(NewOrder(d)), NewOrder(d)} :
          placed' = [placed EXCEPT ![i] = new]
    BY <1>0, <1>3, SubmitParts, Zenon
  <2>7. placed'[i] = new /\ SameTerms(new, NewOrder(d))
    BY <1>0, <2>3, <2>6 DEF TypeOK, SameTerms
  <2>. QED
    BY <2>2, <2>5, <2>7 DEF SameTerms
<1>4. CASE placed[i] \in Order /\ SameTerms(placed'[i], placed[i])
  BY <1>2, <1>4, NoOrderAssumption DEF SameTerms
<1>. QED
  BY <1>0, <1>1, <1>2, <1>3, <1>4, PlacedChange

LEMMA InitTerms == Init => Terms
<1>1. SUFFICES ASSUME Init PROVE Terms
  OBVIOUS
<1>2. Running /\ Measured /\ Geared /\ QuantityTradable /\ OpensAtItsLeverage
  BY <1>1 DEF Init, Running, Measured, Geared, QuantityTradable, OpensAtItsLeverage
<1>. QED
  BY <1>1, <1>2, InitIInv DEF Terms

LEMMA TermsStep == Terms /\ [Next]_vars => Terms'
<1>1. SUFFICES ASSUME Terms, [Next]_vars PROVE Terms'
  OBVIOUS
<1>2. IInv'
  BY <1>1, InductiveStep DEF Terms
<1>. QED
  BY <1>1, <1>2, RunningStep, MeasuredStep, GearedStep, PlacedStep DEF Terms

LEMMA TermsHold == Spec => []Terms
BY InitTerms, TermsStep, PTL DEF Spec

\* An order is for no more than the engine asked and, when the lot size was
\* known, for the nearest quantity below it that the exchange trades, also
\* after it rested and executed (SubmitOrder, quantizeDown).
THEOREM QuantityTheorem == Spec => []QuantityTradable
<1>1. Terms => QuantityTradable
  BY DEF Terms
<1>. QED
  BY <1>1, TermsHold, PTL

\* However many daemons set the leverage of the symbol, an order that asks for
\* one has it, unless another daemon changed it in between (execute).
THEOREM LeverageTheorem == Spec => []OpensAtItsLeverage
<1>1. Terms => OpensAtItsLeverage
  BY DEF Terms
<1>. QED
  BY <1>1, TermsHold, PTL
=============================================================================
