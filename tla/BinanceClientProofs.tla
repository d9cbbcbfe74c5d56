------------------------- MODULE BinanceClientProofs -------------------------
(***************************************************************************)
(* Proofs about BinanceClient for any number of Subscribe calls and of     *)
(* lost connections: what drives a connection, what the status says while  *)
(* the market connection is read, and whose events the books hold.         *)
(***************************************************************************)
EXTENDS BinanceClient, FiniteSetTheorems, TLAPS

\* A reconnect goroutine before and after it forgets the timer it came from.
Dialling  == {"begin", "dial", "install", "rearm"}
Finishing == {"restart"}

\* The reader, the timer and the reconnect goroutine of a wsConn hand it over.
\* Close forgets timers, so after it a reconnect may run without one.
Held(w) ==
  /\ reader[w] \in Reading => timer[w] = "nil" /\ rec[w] = "none"
  /\ timer[w] = "armed" => rec[w] = "none"
  /\ rec[w] \in Dialling => timer[w] = "fired" \/ Stopped
  /\ rec[w] \in Finishing => timer[w] = "nil"
  /\ timer[w] = "fired" => reader[w] = "none"

Handover == \A w \in WsConn : Held(w)

\* What no Subscribe has made yet, nothing drives.
Untouched(w) == reader[w] = "none" /\ timer[w] = "nil" /\ rec[w] = "none"

Beginnings ==
  /\ \A w \in Depth : w > tries \/ (w = tries /\ sup = "depth") => Untouched(w)
  /\ sup \in {"connect", "depth", "market"} => Untouched(Market)
  /\ sup \in {"depth", "market"} => tries # 0
  /\ sup = "wait" => tries # 0
  /\ current <= tries

\* A report still to be made is of a loss before the connection that is read
\* or about to be, and before any Connected about it.
Outdated ==
  \A g \in notifying :
    /\ g <= gen[Market]
    /\ reader[Market] \in Reading \/ rec[Market] \in {"rearm", "restart"} => g < gen[Market]

\* As long as Subscribe was called once, only the first depth object was read:
\* its books hold one of its generations, while it is read the present one.
BookTrue ==
  /\ tries = 0 \/ (tries = 1 /\ sup = "depth") => book = {}
  /\ tries = 1 => /\ \E g \in Nat : book \subseteq {<<1, g>>}
                  /\ reader[1] \in Reading => book \subseteq {<<1, gen[1]>>}

IInv == TypeOK /\ Handover /\ Beginnings /\ Outdated /\ ConnectedWhileRead /\ BookTrue

-----------------------------------------------------------------------------
\* The wsConns are numbers.
LEMMA Conns ==
  /\ WsConn \subseteq Nat /\ Depth \subseteq WsConn /\ Market \in WsConn /\ Market \notin Depth
  /\ \A n \in 0..MaxSubscribe : n # 0 => n \in Depth
  /\ 1 \in Depth /\ Market = 0
  /\ MaxSubscribe \in Nat /\ MaxLosses \in Nat
BY BoundAssumption DEF WsConn, Depth, Market

LEMMA TypeStep ==
  ASSUME TypeOK, Beginnings, [Next]_vars
  PROVE  TypeOK'
<1> USE DEF TypeOK
<1>1. ASSUME Panic PROVE TypeOK'
  BY <1>1 DEF Panic, supervisor, reports
<1>2. ASSUME NEW w \in WsConn, HandleDisconnect(w)
      PROVE  /\ reader' \in [WsConn -> {"none", "top", "read", "block"}]
             /\ timer' \in [WsConn -> {"nil", "armed", "fired"}]
             /\ notifying' \subseteq Nat
  <2>1. gen[w] \in Nat
    OBVIOUS
  <2>2. reader' \in [WsConn -> {"none", "top", "read", "block"}]
    BY <1>2 DEF HandleDisconnect, ReaderTo
  <2>3. timer' \in [WsConn -> {"nil", "armed", "fired"}]
    BY <1>2 DEF HandleDisconnect
  <2>4. notifying' = notifying \/ notifying' = notifying \cup {gen[w]}
    BY <1>2 DEF HandleDisconnect
  <2> QED
    BY <2>1, <2>2, <2>3, <2>4
<1>3. CASE Cancel
  BY <1>3 DEF Cancel, reports
<1>4. CASE Connect
  <2>1. tries' \in 0..MaxSubscribe /\ gen[Market] \in Nat
    BY <1>4, Conns DEF Connect
  <2> QED
    BY <1>4, <2>1, Conns DEF Connect, Report
<1>5. CASE SubscribeFail
           /\ UNCHANGED <<done, tries, timer, notifying, rec, book, panicked, losses, gaveUp>>
  BY <1>5, Conns DEF SubscribeFail, CloseAll, reports
<1>6. CASE SubscribeDepth
  <2>1. sup = "depth" /\ tries \in Depth
    BY <1>6, Conns DEF SubscribeDepth, Beginnings
  <2>2. CASE Dialled(tries) /\ current' = tries /\ sup' = "market" /\ UNCHANGED reports
    BY <1>6, <2>1, <2>2, Conns DEF SubscribeDepth, Dialled, reports
  <2> QED
    BY <1>5, <1>6, <2>2 DEF SubscribeDepth
<1>7. CASE SubscribeMarket
  <2>1. CASE /\ Dialled(Market) /\ Report("connected", gen'[Market]) /\ upGen' = gen'[Market]
             /\ sup' = "wait" /\ UNCHANGED current
    <3>1. gen' \in [WsConn -> Nat] /\ gen'[Market] \in Nat
      BY <2>1, Conns DEF Dialled
    <3> QED
      BY <1>7, <2>1, <3>1, Conns DEF SubscribeMarket, Dialled, Report
  <2> QED
    BY <1>5, <1>7, <2>1 DEF SubscribeMarket
<1>8. CASE Close
  <2>1. gen[Market] \in Nat
    BY Conns
  <2> QED
    BY <1>8, <2>1, Conns DEF Close, CloseAll, Report
<1>9. ASSUME NEW w \in WsConn, Break(w) PROVE TypeOK'
  BY <1>9, Conns DEF Break, supervisor, reports
<1>10. ASSUME NEW w \in WsConn, ReadTop(w) PROVE TypeOK'
  BY <1>1, <1>10 DEF ReadTop, ReaderTo, supervisor, reports
<1>11. ASSUME NEW w \in WsConn, ReadStart(w) PROVE TypeOK'
  BY <1>1, <1>2, <1>11 DEF ReadStart, ReaderTo, supervisor, reports
<1>12. ASSUME NEW w \in WsConn, ReadMessage(w) PROVE TypeOK'
  <2>1. gen[w] \in Nat
    OBVIOUS
  <2> QED
    BY <1>12, <2>1 DEF ReadMessage, ReaderTo, supervisor, reports
<1>13. ASSUME NEW w \in WsConn, ReadError(w) PROVE TypeOK'
  BY <1>2, <1>13 DEF ReadError, ReaderTo, supervisor, reports
<1>14. CASE LateReport
  BY <1>14 DEF LateReport, Notify, Report, supervisor
<1>15. ASSUME NEW w \in WsConn, Fire(w) PROVE TypeOK'
  BY <1>15 DEF Fire, supervisor, reports
<1>16. ASSUME NEW w \in WsConn, RecBegin(w) PROVE TypeOK'
  BY <1>16 DEF RecBegin, RecTo, supervisor, reports
<1>17. ASSUME NEW w \in WsConn, RecDial(w) PROVE TypeOK'
  BY <1>1, <1>2, <1>17 DEF RecDial, NoChunks, RecTo, supervisor, reports
<1>18. ASSUME NEW w \in WsConn, RecInstall(w) PROVE TypeOK'
  BY <1>18 DEF RecInstall, RecTo, supervisor, reports
<1>19. ASSUME NEW w \in WsConn, RecRearm(w) PROVE TypeOK'
  BY <1>19 DEF RecRearm, RecTo, supervisor, reports
<1>20. ASSUME NEW w \in WsConn, RestartDepth(w) PROVE TypeOK'
  BY <1>1, <1>20 DEF RestartDepth, NoChunks, RecTo, ReaderTo, supervisor, reports
<1>21. CASE RestartMarket
  <2>1. gen[Market] \in Nat
    BY Conns
  <2> QED
    BY <1>21, <2>1 DEF RestartMarket, RecTo, ReaderTo, Report, supervisor
<1>22. CASE Terminated \/ UNCHANGED vars
  BY <1>22 DEF Terminated, vars, supervisor, reports
<1> QED
  BY <1>3, <1>4, <1>6, <1>7, <1>8, <1>9, <1>10, <1>11, <1>12, <1>13, <1>14, <1>15, <1>16,
     <1>17, <1>18, <1>19, <1>20, <1>21, <1>22 DEF Next, Supervise, Drive, Read, Reconnect

-----------------------------------------------------------------------------
\* Who drives a wsConn.

\* Nothing happened to the wsConn.
LEMMA HeldFrame ==
  ASSUME NEW w \in WsConn, Held(w),
         reader'[w] = reader[w], timer'[w] = timer[w], rec'[w] = rec[w], Stopped => Stopped'
  PROVE  Held(w)'
BY DEF Held

\* What a step changes: the variables of one wsConn, those of the supervisor,
\* or neither.
OnlyOf(w) ==
  /\ \A v \in WsConn \ {w} : reader'[v] = reader[v] /\ timer'[v] = timer[v] /\ rec'[v] = rec[v]
  /\ UNCHANGED supervisor

LEMMA HeldOne ==
  ASSUME Handover, NEW w \in WsConn, OnlyOf(w), Held(w)'
  PROVE  Handover'
<1>1. ASSUME NEW v \in WsConn, v # w PROVE Held(v)'
  BY <1>1 DEF Handover, OnlyOf, Held, Stopped, supervisor
<1> QED
  BY <1>1 DEF Handover

\* What handleDisconnect does to its wsConn.
LEMMA DisconnectEffect ==
  ASSUME TypeOK, NEW w \in WsConn, HandleDisconnect(w)
  PROVE  /\ \A v \in WsConn \ {w} : reader'[v] = reader[v] /\ timer'[v] = timer[v]
         /\ reader'[w] = "none"
         /\ timer'[w] = IF Stopped \/ timer[w] # "nil" THEN timer[w] ELSE "armed"
BY DEF HandleDisconnect, ReaderTo, TypeOK

\* A step of a reader.
LEMMA HeldRead ==
  ASSUME TypeOK, NEW w \in WsConn, Held(w), Read(w)
  PROVE  OnlyOf(w) /\ Held(w)'
<1> USE DEF TypeOK, OnlyOf, supervisor
<1>1. ASSUME Panic PROVE OnlyOf(w) /\ Held(w)'
  BY <1>1 DEF Panic, Held, Stopped
<1>2. ASSUME reader[w] \in Reading, HandleDisconnect(w), UNCHANGED <<supervisor, rec>>
      PROVE  OnlyOf(w) /\ Held(w)'
  <2>1. timer[w] = "nil" /\ rec[w] = "none"
    BY <1>2 DEF Held
  <2> QED
    BY <1>2, <2>1, DisconnectEffect DEF Held, Stopped, Reading, Dialling, Finishing
<1>3. ASSUME reader[w] \in Reading, NEW next \in Reading \cup {"none"}, ReaderTo(w, next),
             UNCHANGED <<supervisor, timer, rec>>
      PROVE  OnlyOf(w) /\ Held(w)'
  BY <1>3 DEF ReaderTo, Held, Stopped, Reading, Dialling, Finishing
<1>4. CASE ReadTop(w)
  BY <1>1, <1>3, <1>4 DEF ReadTop, Reading
<1>5. CASE ReadStart(w)
  BY <1>1, <1>2, <1>3, <1>5 DEF ReadStart, Reading
<1>6. CASE ReadMessage(w)
  BY <1>3, <1>6 DEF ReadMessage, Reading
<1>7. CASE ReadError(w)
  BY <1>2, <1>3, <1>7 DEF ReadError, Reading
<1> QED
  BY <1>4, <1>5, <1>6, <1>7 DEF Read

\* A step of a timer or a reconnect.
LEMMA HeldReconnect ==
  ASSUME TypeOK, NEW w \in WsConn, Held(w), Reconnect(w)
  PROVE  OnlyOf(w) /\ Held(w)'
<1> USE DEF TypeOK, OnlyOf, supervisor
<1>1. ASSUME Panic PROVE OnlyOf(w) /\ Held(w)'
  BY <1>1 DEF Panic, Held, Stopped
<1>2. CASE Fire(w)
  BY <1>2 DEF Fire, Held, Stopped, Reading, Dialling, Finishing
<1>3. CASE RecBegin(w)
  BY <1>3 DEF RecBegin, RecTo, Held, Stopped, Reading, Dialling, Finishing
<1>4. CASE RecDial(w)
  <2>1. CASE NoChunks(w, "dial")
    BY <1>1, <2>1 DEF NoChunks
  <2>2. CASE RecTo(w, "dial", "install") /\ UNCHANGED <<supervisor, timer, reader>>
    BY <2>2 DEF RecTo, Held, Stopped, Reading, Dialling, Finishing
  <2>3. CASE RecTo(w, "dial", "none") /\ HandleDisconnect(w) /\ UNCHANGED supervisor
    <3>1. timer[w] = "fired" \/ Stopped
      BY <2>3 DEF RecTo, Held, Dialling
    <3>2. reader'[w] = "none" /\ timer'[w] = timer[w]
          /\ \A v \in WsConn \ {w} : reader'[v] = reader[v] /\ timer'[v] = timer[v]
      BY <2>3, <3>1, DisconnectEffect
    <3> QED
      BY <2>3, <3>2 DEF RecTo, Held, Stopped, Reading, Dialling, Finishing
  <2> QED
    BY <1>4, <2>1, <2>2, <2>3 DEF RecDial
<1>5. CASE RecInstall(w)
  BY <1>5 DEF RecInstall, RecTo, Held, Stopped, Reading, Dialling, Finishing
<1>6. CASE RecRearm(w)
  BY <1>6 DEF RecRearm, RecTo, Held, Stopped, Reading, Dialling, Finishing
<1>7. CASE RestartDepth(w)
  <2>1. CASE NoChunks(w, "restart")
    BY <1>1, <2>1 DEF NoChunks
  <2> QED
    BY <1>7, <2>1 DEF RestartDepth, RecTo, ReaderTo, Held, Stopped, Reading, Dialling, Finishing
<1>8. CASE w = Market /\ RestartMarket
  BY <1>8 DEF RestartMarket, RecTo, ReaderTo, Held, Stopped, Reading, Dialling, Finishing
<1> QED
  BY <1>2, <1>3, <1>4, <1>5, <1>6, <1>7, <1>8 DEF Reconnect

LEMMA HandoverStep ==
  ASSUME TypeOK, Handover, Beginnings, [Next]_vars
  PROVE  Handover'
<1>1. ASSUME UNCHANGED <<reader, timer, rec>>, Stopped => Stopped' PROVE Handover'
  BY <1>1 DEF Handover, Held, Stopped
<1>2. ASSUME NEW w \in WsConn, Read(w) \/ Reconnect(w) PROVE Handover'
  BY <1>2, HeldRead, HeldReconnect, HeldOne DEF Handover
<1>3. CASE Cancel \/ LateReport \/ (\E w \in WsConn : Break(w)) \/ Terminated \/ UNCHANGED vars
  BY <1>1, <1>3 DEF Cancel, LateReport, Notify, Break, Terminated, vars, supervisor, Stopped
<1>4. CASE Connect
  BY <1>1, <1>4 DEF Connect, Stopped
<1>5. ASSUME NEW w \in WsConn, Untouched(w), Dialled(w), UNCHANGED <<timer, rec>>, ~ Stopped
      PROVE  Handover'
  <2>1. ASSUME NEW v \in WsConn, v # w PROVE Held(v)'
    <3>1. reader'[v] = reader[v]
      BY <1>5, <2>1 DEF Dialled, TypeOK
    <3> QED
      BY <1>5, <2>1, <3>1 DEF Handover, Held
  <2>2. Held(w)'
    BY <1>5 DEF Dialled, TypeOK, Untouched, Held, Reading, Dialling, Finishing
  <2> QED
    BY <2>1, <2>2 DEF Handover
<1>6. CASE SubscribeDepth
  <2>1. tries \in Depth /\ Untouched(tries) /\ ~ Stopped
    BY <1>6, Conns DEF SubscribeDepth, Beginnings, TypeOK, Stopped
  <2>2. CASE Dialled(tries)
    BY <1>5, <1>6, <2>1, <2>2, Conns DEF SubscribeDepth
  <2>3. CASE SubscribeFail
    BY <1>1, <1>6, <2>1, <2>3 DEF SubscribeDepth, SubscribeFail
  <2> QED
    BY <1>6, <2>2, <2>3 DEF SubscribeDepth
<1>7. CASE SubscribeMarket
  <2>1. Untouched(Market) /\ ~ Stopped
    BY <1>7 DEF SubscribeMarket, Beginnings, Stopped
  <2>2. CASE Dialled(Market)
    BY <1>5, <1>7, <2>1, <2>2, Conns DEF SubscribeMarket
  <2>3. CASE SubscribeFail
    BY <1>1, <1>7, <2>1, <2>3 DEF SubscribeMarket, SubscribeFail
  <2> QED
    BY <1>7, <2>2, <2>3 DEF SubscribeMarket
<1>8. CASE Close
  <2>1. /\ UNCHANGED <<reader, rec>> /\ Stopped'
        /\ \A w \in WsConn : timer'[w] = timer[w] \/ timer'[w] = "nil"
    BY <1>8 DEF Close, Stopped
  <2> QED
    BY <2>1 DEF Handover, Held
<1> QED
  BY <1>2, <1>3, <1>4, <1>6, <1>7, <1>8 DEF Next, Supervise, Drive

-----------------------------------------------------------------------------
\* What has not begun yet.

\* A reader, a timer or a reconnect can only move on if there is one.
LEMMA MovesTouched ==
  ASSUME NEW w \in WsConn, Read(w) \/ Reconnect(w)
  PROVE  ~ Untouched(w)
BY DEF Read, Reconnect, ReadTop, ReadStart, ReadMessage, ReadError, Fire, RecBegin, RecDial,
       RecInstall, RecRearm, RestartDepth, RestartMarket, NoChunks, RecTo, Untouched

LEMMA BeginningsStep ==
  ASSUME TypeOK, Handover, Beginnings, [Next]_vars
  PROVE  Beginnings'
<1> USE DEF Beginnings
<1>1. ASSUME UNCHANGED <<supervisor, reader, timer, rec>> PROVE Beginnings'
  BY <1>1 DEF supervisor, Untouched
<1>2. ASSUME NEW w \in WsConn, Read(w) \/ Reconnect(w) PROVE Beginnings'
  <2>1. OnlyOf(w)
    BY <1>2, HeldRead, HeldReconnect DEF Handover
  <2>2. ~ Untouched(w)
    BY <1>2, MovesTouched
  <2>3. ASSUME NEW v \in WsConn, Untouched(v) PROVE Untouched(v)'
    BY <2>1, <2>2, <2>3 DEF OnlyOf, Untouched
  <2> QED
    BY <2>1, <2>3, Conns DEF OnlyOf, supervisor
<1>3. CASE Cancel \/ LateReport \/ (\E w \in WsConn : Break(w)) \/ Terminated \/ UNCHANGED vars
  BY <1>3 DEF Cancel, LateReport, Notify, Break, Terminated, vars, supervisor, Untouched
<1>4. CASE Connect
  <2>1. tries \in Nat /\ tries' = tries + 1 /\ sup = "connect" /\ sup' = "depth" /\ current' = 0
        /\ UNCHANGED <<reader, timer, rec>>
    BY <1>4, Conns DEF Connect, TypeOK
  <2>2. ASSUME NEW w \in Depth, w > tries' \/ w = tries' PROVE w > tries
    BY <2>1, <2>2, Conns DEF Depth
  <2> QED
    BY <2>1, <2>2 DEF Untouched
<1>5. CASE SubscribeDepth
  <2>1. sup = "depth" /\ tries' = tries /\ tries \in Nat /\ current \in Nat /\ tries # Market
        /\ tries # 0 /\ UNCHANGED <<timer, rec>>
    BY <1>5, Conns DEF SubscribeDepth, TypeOK
  <2>2. CASE Dialled(tries) /\ current' = tries /\ sup' = "market"
    <3>1. \A w \in WsConn : w # tries => reader'[w] = reader[w]
      BY <2>2 DEF Dialled, TypeOK
    <3>2. \A w \in Depth : w > tries => w # tries
      BY <2>1, Conns DEF Depth
    <3> QED
      BY <2>1, <2>2, <3>1, <3>2, Conns DEF Untouched
  <2>3. CASE SubscribeFail
    BY <2>1, <2>3, Conns DEF SubscribeFail, CloseAll, Untouched
  <2> QED
    BY <1>5, <2>2, <2>3 DEF SubscribeDepth
<1>6. CASE SubscribeMarket
  <2>1. sup = "market" /\ tries' = tries /\ tries \in Nat /\ UNCHANGED <<timer, rec>>
    BY <1>6, Conns DEF SubscribeMarket, TypeOK
  <2>2. CASE Dialled(Market) /\ current' = current /\ sup' = "wait"
    <3>1. \A w \in Depth : reader'[w] = reader[w]
      BY <2>2, Conns DEF Dialled, TypeOK
    <3> QED
      BY <2>1, <2>2, <3>1 DEF Untouched
  <2>3. CASE SubscribeFail
    BY <2>1, <2>3, Conns DEF SubscribeFail, CloseAll, Untouched
  <2> QED
    BY <1>6, <2>2, <2>3 DEF SubscribeMarket
<1>7. CASE Close
  <2>1. /\ tries' = tries /\ tries \in Nat /\ sup # "depth" /\ sup' = "closed" /\ current' = 0
        /\ UNCHANGED <<reader, rec>>
        /\ \A w \in WsConn : timer[w] = "nil" => timer'[w] = "nil"
    BY <1>7, Conns DEF Close, CloseAll, TypeOK
  <2> QED
    BY <2>1, Conns DEF Untouched
<1> QED
  BY <1>2, <1>3, <1>4, <1>5, <1>6, <1>7 DEF Next, Supervise, Drive

-----------------------------------------------------------------------------
\* The status.

\* Nothing happened to the market connection, or its reader ended.
LEMMA StatusFrame ==
  ASSUME Outdated, ConnectedWhileRead,
         UNCHANGED <<reports, notifying>>, gen'[Market] = gen[Market],
         sup' = "wait" => sup = "wait",
         reader'[Market] \in Reading => reader[Market] \in Reading,
         rec'[Market] \in {"rearm", "restart"} => rec[Market] \in {"rearm", "restart"}
  PROVE  Outdated' /\ ConnectedWhileRead'
BY DEF Outdated, ConnectedWhileRead, Stopped, reports

\* handleDisconnect on the market connection.
LEMMA StatusDisconnect ==
  ASSUME TypeOK, Outdated, NEW w \in WsConn, HandleDisconnect(w), UNCHANGED gen,
         sup' = "wait" => sup = "wait", UNCHANGED reports, ConnectedWhileRead,
         rec'[Market] \in {"rearm", "restart"} => rec[Market] \in {"rearm", "restart"} /\ w # Market
  PROVE  Outdated' /\ ConnectedWhileRead'
<1>1. CASE w # Market
  <2>1. UNCHANGED notifying /\ reader'[Market] = reader[Market]
    BY <1>1, Conns, DisconnectEffect DEF HandleDisconnect
  <2> QED
    BY <2>1, StatusFrame
<1>2. CASE w = Market
  <2>1. reader'[Market] = "none" /\ rec'[Market] \notin {"rearm", "restart"}
    BY <1>2, DisconnectEffect
  <2>2. \A g \in notifying' : g \in notifying \/ g = gen[Market]
    BY <1>2 DEF HandleDisconnect
  <2>3. gen[Market] \in Nat
    BY Conns DEF TypeOK
  <2> QED
    BY <2>1, <2>2, <2>3 DEF Outdated, ConnectedWhileRead, Reading
<1> QED
  BY <1>1, <1>2

LEMMA StatusStep ==
  ASSUME TypeOK, Handover, Beginnings, Outdated, ConnectedWhileRead, [Next]_vars
  PROVE  Outdated' /\ ConnectedWhileRead'
<1>1. Held(Market) /\ gen[Market] \in Nat
  BY Conns DEF Handover, TypeOK
<1>2. ASSUME Panic PROVE Outdated' /\ ConnectedWhileRead'
  BY <1>2, StatusFrame DEF Panic, supervisor
<1>3. CASE Cancel \/ (\E w \in WsConn : Break(w)) \/ Terminated \/ UNCHANGED vars
  BY <1>3, StatusFrame DEF Cancel, Break, Terminated, vars, supervisor
<1>4. CASE LateReport
  <2>1. PICK g \in notifying : Notify(g)
    BY <1>4 DEF LateReport
  <2>2. UNCHANGED <<sup, gen, reader, rec, upGen>> /\ notifying' \subseteq notifying
        /\ status' = "reconnecting" /\ statusGen' = g
    BY <2>1 DEF Notify, Report, supervisor
  <2> QED
    BY <2>2 DEF Outdated, ConnectedWhileRead, Stopped
<1>5. CASE Connect \/ SubscribeDepth \/ Close
  <2>1. sup' # "wait" /\ UNCHANGED <<rec, notifying>>
    BY <1>5 DEF Connect, SubscribeDepth, SubscribeFail, Close
  <2>2. reader'[Market] = reader[Market] /\ gen'[Market] = gen[Market]
    <3>1. CASE SubscribeDepth
      <4>1. tries # Market /\ Market \in WsConn
        BY <3>1, Conns DEF SubscribeDepth, Beginnings
      <4> QED
        BY <3>1, <4>1 DEF SubscribeDepth, SubscribeFail, Dialled, TypeOK
    <3> QED
      BY <1>5, <3>1 DEF Connect, Close
  <2> QED
    BY <2>1, <2>2 DEF Outdated, ConnectedWhileRead
<1>6. CASE SubscribeMarket
  <2>1. CASE SubscribeFail
    BY <1>6, <2>1, StatusFrame DEF SubscribeMarket, SubscribeFail
  <2>2. CASE Dialled(Market) /\ Report("connected", gen'[Market]) /\ upGen' = gen'[Market]
    <3>1. gen'[Market] = gen[Market] + 1 /\ UNCHANGED notifying /\ status' = "connected"
      BY <1>6, <2>2, Conns DEF SubscribeMarket, Dialled, Report, TypeOK
    <3>2. \A g \in notifying : g \in Nat
      BY DEF TypeOK
    <3> QED
      BY <1>1, <2>2, <3>1, <3>2 DEF Outdated, ConnectedWhileRead
  <2> QED
    BY <1>6, <2>1, <2>2 DEF SubscribeMarket
<1>7. ASSUME NEW w \in WsConn, Read(w) PROVE Outdated' /\ ConnectedWhileRead'
  <2>1. UNCHANGED <<sup, gen, reports, rec>>
    BY <1>7 DEF Read, ReadTop, ReadStart, ReadMessage, ReadError, Panic, supervisor
  <2>2. CASE HandleDisconnect(w)
    <3>1. w = Market => rec[Market] = "none"
      BY <1>1, <1>7 DEF Held, Read, ReadTop, ReadStart, ReadMessage, ReadError, Reading
    <3> QED
      BY <2>1, <2>2, <3>1, StatusDisconnect
  <2>3. CASE ~ HandleDisconnect(w)
    <3>1. UNCHANGED notifying
      BY <1>7, <2>3 DEF Read, ReadTop, ReadStart, ReadMessage, ReadError, Panic
    <3>2. reader'[Market] \in Reading => reader[Market] \in Reading
      <4>1. w # Market => reader'[Market] = reader[Market]
        BY <1>7, HeldRead, Conns DEF Handover, OnlyOf
      <4>2. reader[w] \in Reading
        BY <1>7 DEF Read, ReadTop, ReadStart, ReadMessage, ReadError, Reading
      <4> QED
        BY <4>1, <4>2
    <3> QED
      BY <2>1, <3>1, <3>2, StatusFrame
  <2> QED
    BY <2>2, <2>3
<1>8. ASSUME NEW w \in WsConn, Reconnect(w) PROVE Outdated' /\ ConnectedWhileRead'
  <2>1. OnlyOf(w) /\ sup' = sup
    BY <1>8, HeldReconnect DEF Handover, OnlyOf, supervisor
  <2>2. CASE Fire(w) \/ RecBegin(w) \/ RecRearm(w)
    <3>1. UNCHANGED <<reports, notifying, gen, reader>>
      BY <2>2 DEF Fire, RecBegin, RecRearm
    <3>2. rec'[Market] \in {"rearm", "restart"} => rec[Market] \in {"rearm", "restart"}
      BY <2>2, Conns DEF Fire, RecBegin, RecRearm, RecTo, TypeOK
    <3> QED
      BY <2>1, <3>1, <3>2, StatusFrame
  <2>3. CASE RecDial(w)
    <3>1. CASE NoChunks(w, "dial")
      BY <1>2, <3>1 DEF NoChunks
    <3>2. CASE /\ RecTo(w, "dial", "install") /\ UNCHANGED <<reader, notifying>>
               /\ UNCHANGED <<gen, reports>>
      <4>1. rec'[Market] \in {"rearm", "restart"} => rec[Market] \in {"rearm", "restart"}
        BY <3>2, Conns DEF RecTo, TypeOK
      <4> QED
        BY <2>1, <3>2, <4>1, StatusFrame
    <3>3. CASE RecTo(w, "dial", "none") /\ HandleDisconnect(w) /\ UNCHANGED <<gen, reports>>
      <4>1. rec'[Market] \in {"rearm", "restart"} =>
              rec[Market] \in {"rearm", "restart"} /\ w # Market
        BY <3>3, Conns DEF RecTo, TypeOK
      <4> QED
        BY <2>1, <3>3, <4>1, StatusDisconnect
    <3> QED
      BY <2>3, <3>1, <3>2, <3>3 DEF RecDial
  <2>4. CASE RecInstall(w)
    <3>1. CASE w # Market
      <4>1. gen'[Market] = gen[Market] /\ rec'[Market] = rec[Market]
            /\ UNCHANGED <<reports, notifying, reader>>
        BY <2>4, <3>1, Conns DEF RecInstall, RecTo, TypeOK
      <4> QED
        BY <2>1, <4>1, StatusFrame
    <3>2. CASE w = Market
      <4>1. gen'[Market] = gen[Market] + 1 /\ UNCHANGED <<notifying, reader>>
            /\ rec[Market] = "install"
        BY <2>4, <3>2, Conns DEF RecInstall, RecTo, TypeOK
      <4>2. reader[Market] \notin Reading
        BY <1>1, <4>1 DEF Held
      <4>3. \A g \in notifying : g \in Nat
        BY DEF TypeOK
      <4> QED
        BY <1>1, <4>1, <4>2, <4>3 DEF Outdated, ConnectedWhileRead
    <3> QED
      BY <3>1, <3>2
  <2>5. CASE RestartDepth(w)
    <3>1. CASE NoChunks(w, "restart")
      BY <1>2, <3>1 DEF NoChunks
    <3>2. CASE w \in Depth /\ UNCHANGED <<gen, notifying, reports>>
      <4>1. w # Market
        BY <3>2, Conns
      <4> QED
        BY <2>1, <3>2, <4>1, Conns, StatusFrame DEF OnlyOf
    <3> QED
      BY <2>5, <3>1, <3>2 DEF RestartDepth
  <2>6. CASE w = Market /\ RestartMarket
    <3>1. rec[Market] = "restart" /\ UNCHANGED <<gen, notifying>>
          /\ status' = "connected" /\ upGen' = gen[Market]
      BY <2>6 DEF RestartMarket, RecTo, Report
    <3> QED
      BY <3>1 DEF Outdated, ConnectedWhileRead
  <2> QED
    BY <1>8, <2>2, <2>3, <2>4, <2>5, <2>6 DEF Reconnect
<1> QED
  BY <1>3, <1>4, <1>5, <1>6, <1>7, <1>8 DEF Next, Supervise, Drive

-----------------------------------------------------------------------------
\* The books.

\* Until Subscribe is called again, only the first depth object is in use.
LEMMA OnlyFirst ==
  ASSUME TypeOK, Beginnings, NEW w \in Depth, ~ Untouched(w), tries <= 1
  PROVE  tries = 1 /\ w = 1 /\ sup # "depth"
BY Conns DEF Beginnings, Depth, TypeOK

LEMMA BookFrame ==
  ASSUME BookTrue, UNCHANGED <<tries, book>>, sup' = "depth" => sup = "depth",
         gen'[1] = gen[1] \/ ~ (reader'[1] \in Reading),
         reader'[1] \in Reading => reader[1] \in Reading
  PROVE  BookTrue'
BY DEF BookTrue

LEMMA BookRead ==
  ASSUME TypeOK, Handover, Beginnings, BookTrue, NEW w \in WsConn, Read(w)
  PROVE  BookTrue'
<1>1. OnlyOf(w) /\ ~ Untouched(w)
  BY HeldRead, MovesTouched DEF Handover
<1>2. UNCHANGED <<sup, tries, gen>> /\ (reader'[1] \in Reading => reader[1] \in Reading)
  <2>1. UNCHANGED <<sup, tries, gen>>
    BY DEF Read, ReadTop, ReadStart, ReadMessage, ReadError, Panic, supervisor
  <2>2. CASE w # 1
    BY <1>1, <2>1, <2>2, Conns DEF OnlyOf
  <2>3. CASE w = 1
    BY <2>1, <2>3 DEF Read, ReadTop, ReadStart, ReadMessage, ReadError, Panic, Reading
  <2> QED
    BY <2>1, <2>2, <2>3
<1>3. CASE book' = book
  BY <1>2, <1>3, BookFrame
<1>4. CASE ReadMessage(w) /\ book' # book
  <2>1. w \in Depth /\ book' = book \cup {<<w, gen[w]>>} /\ reader[w] = "block"
    BY <1>4 DEF ReadMessage
  <2>2. CASE tries <= 1
    <3>1. tries = 1 /\ w = 1 /\ sup # "depth"
      BY <1>1, <2>1, <2>2, OnlyFirst
    <3>2. book \subseteq {<<1, gen[1]>>} /\ gen[1] \in Nat
      BY <2>1, <3>1, Conns DEF BookTrue, TypeOK, Reading
    <3>3. book' \subseteq {<<1, gen'[1]>>}
      BY <1>2, <2>1, <3>1, <3>2
    <3> QED
      BY <1>2, <3>1, <3>2, <3>3 DEF BookTrue
  <2>3. CASE tries > 1
    BY <1>2, <2>3 DEF BookTrue
  <2> QED
    BY <2>2, <2>3 DEF TypeOK
<1> QED
  BY <1>3, <1>4 DEF Read, ReadTop, ReadStart, ReadMessage, ReadError, Panic

LEMMA BookReconnect ==
  ASSUME TypeOK, Handover, Beginnings, BookTrue, NEW w \in WsConn, Reconnect(w)
  PROVE  BookTrue'
<1>1. OnlyOf(w) /\ ~ Untouched(w) /\ UNCHANGED <<sup, tries>>
  BY HeldReconnect, MovesTouched DEF Handover, OnlyOf, supervisor
<1>2. CASE RestartDepth(w) /\ book' = {}
  <2>1. \E g \in Nat : book' \subseteq {<<1, g>>}
    BY <1>2
  <2> QED
    BY <1>2, <2>1 DEF BookTrue
<1>3. CASE ~ RestartDepth(w) \/ NoChunks(w, "restart")
  <2>1. book' = book
    BY <1>3 DEF Reconnect, Fire, RecBegin, RecDial, NoChunks, Panic, RecInstall, RecRearm,
                RestartMarket
  <2>2. reader'[1] \in Reading => reader[1] \in Reading
    <3>1. CASE w # 1
      BY <1>1, <3>1, Conns DEF OnlyOf
    <3>2. CASE w = 1 /\ HandleDisconnect(w)
      BY <3>2, Conns, DisconnectEffect DEF Reading
    <3>3. CASE w = 1 /\ ~ HandleDisconnect(w)
      BY <1>3, <3>3, Conns DEF Reconnect, Fire, RecBegin, RecDial, NoChunks, Panic, RecInstall,
                               RecRearm
    <3> QED
      BY <3>1, <3>2, <3>3
  <2>3. gen'[1] = gen[1] \/ ~ (reader'[1] \in Reading)
    <3>1. CASE RecInstall(w) /\ w = 1
      <4>1. rec[1] = "install" /\ reader'[1] = reader[1]
        BY <3>1 DEF RecInstall, RecTo
      <4> QED
        BY <3>1, <4>1, Conns DEF Handover, Held
    <3>2. CASE RecInstall(w) /\ w # 1
      BY <3>2, Conns DEF RecInstall, TypeOK
    <3>3. CASE ~ RecInstall(w)
      BY <1>3, <3>3 DEF Reconnect, Fire, RecBegin, RecDial, NoChunks, Panic, RecRearm,
                        RestartMarket
    <3> QED
      BY <3>1, <3>2, <3>3
  <2> QED
    BY <1>1, <2>1, <2>2, <2>3, BookFrame
<1> QED
  BY <1>2, <1>3 DEF RestartDepth

LEMMA BookStep ==
  ASSUME TypeOK, Handover, Beginnings, BookTrue, [Next]_vars
  PROVE  BookTrue'
<1>1. CASE \/ Cancel \/ LateReport \/ Close \/ Terminated \/ UNCHANGED vars
           \/ \E w \in WsConn : Break(w)
  BY <1>1, BookFrame DEF Cancel, LateReport, Notify, Break, Close, Terminated, vars, supervisor
<1>2. CASE Connect
  <2>1. tries' = tries + 1 /\ sup' = "depth" /\ UNCHANGED <<book, reader, rec, gen>> /\ tries \in Nat
    BY <1>2, Conns DEF Connect, TypeOK
  <2>2. CASE tries = 0
    <3>1. book = {} /\ reader[1] = "none"
      BY <2>2, Conns DEF BookTrue, Beginnings, Untouched
    <3>2. \E g \in Nat : book' \subseteq {<<1, g>>}
      BY <2>1, <3>1
    <3> QED
      BY <2>1, <2>2, <3>1, <3>2 DEF BookTrue
  <2>3. CASE tries # 0
    BY <2>1, <2>3 DEF BookTrue
  <2> QED
    BY <2>2, <2>3
<1>3. CASE SubscribeDepth
  <2>1. sup = "depth" /\ UNCHANGED <<tries, book, rec>> /\ tries \in Nat /\ tries # 0
    BY <1>3, Conns DEF SubscribeDepth, TypeOK, Beginnings
  <2>2. CASE tries = 1
    <3>1. book = {}
      BY <2>1, <2>2 DEF BookTrue
    <3>2. \E g \in Nat : book' \subseteq {<<1, g>>}
      BY <2>1, <3>1
    <3> QED
      BY <2>1, <2>2, <3>1, <3>2 DEF BookTrue
  <2>3. CASE tries # 1
    BY <2>1, <2>3 DEF BookTrue
  <2> QED
    BY <2>2, <2>3
<1>4. CASE SubscribeMarket
  <2>1. UNCHANGED <<tries, book, rec>> /\ sup' # "depth"
    BY <1>4 DEF SubscribeMarket, SubscribeFail
  <2>2. reader'[1] = reader[1] /\ gen'[1] = gen[1]
    BY <1>4, Conns DEF SubscribeMarket, SubscribeFail, Dialled, TypeOK
  <2> QED
    BY <2>1, <2>2, BookFrame
<1> QED
  BY <1>1, <1>2, <1>3, <1>4, BookRead, BookReconnect DEF Next, Supervise, Drive

-----------------------------------------------------------------------------
\* The invariant.
LEMMA InitInv == Init => IInv
<1> SUFFICES ASSUME Init PROVE IInv
  OBVIOUS
<1>1. TypeOK
  <2>1. tries \in 0..MaxSubscribe /\ losses \in 0..MaxLosses /\ current \in WsConn
    BY Conns DEF Init
  <2>2. book \subseteq Depth \X Nat
    BY DEF Init
  <2>3. /\ conn \in [WsConn -> {"nil", "open", "broken"}]
        /\ gen \in [WsConn -> Nat]
        /\ timer \in [WsConn -> {"nil", "armed", "fired"}]
        /\ reader \in [WsConn -> {"none", "top", "read", "block"}]
        /\ rec \in [WsConn -> {"none", "begin", "dial", "install", "rearm", "restart"}]
    BY DEF Init
  <2> QED
    BY <2>1, <2>2, <2>3 DEF Init, TypeOK
<1>2. Handover /\ Beginnings /\ Outdated /\ ConnectedWhileRead
  BY Conns DEF Init, Handover, Held, Beginnings, Outdated, ConnectedWhileRead, Untouched,
               Reading, Dialling, Finishing
<1>3. BookTrue
  BY DEF Init, BookTrue
<1> QED
  BY <1>1, <1>2, <1>3 DEF IInv

LEMMA StepInv == IInv /\ [Next]_vars => IInv'
BY TypeStep, HandoverStep, BeginningsStep, StatusStep, BookStep DEF IInv

THEOREM Invariance == Spec => []IInv
BY InitInv, StepInv, PTL DEF Spec

\* The variables keep their types.
THEOREM TypeCorrect == Spec => []TypeOK
<1>1. IInv => TypeOK
  BY DEF IInv
<1> QED
  BY <1>1, Invariance, PTL

\* handleDisconnect, the timer, reconnect and readLoop hand a connection over:
\* no two of them work on it, however many losses, redials and subscribes.
THEOREM OneDriverTheorem == Spec => []OneDriver
<1>1. IInv => OneDriver
  BY DEF IInv, Handover, Held, OneDriver
<1> QED
  BY <1>1, Invariance, PTL

\* Before a market connection is read the handler was told that it is connected;
\* only the late report of an earlier loss can have come after that.
THEOREM StatusTheorem == Spec => []ConnectedWhileRead
<1>1. IInv => ConnectedWhileRead
  BY DEF IInv
<1> QED
  BY <1>1, Invariance, PTL

\* A reconnect resets the books before the new connection is read.
THEOREM BookTheorem == Spec => []OneConnectionPerBook
<1>1. ASSUME BookTrue PROVE OneConnectionPerBook
  <2>1. CASE tries = 1
    <3>1. PICK g \in Nat : book \subseteq {<<1, g>>}
      BY <1>1, <2>1 DEF BookTrue
    <3>2. book = {} \/ book = {<<1, g>>}
      BY <3>1
    <3>3. Cardinality({}) = 0 /\ Cardinality({<<1, g>>}) = 1
      BY FS_EmptySet, FS_Singleton
    <3> QED
      BY <3>2, <3>3 DEF OneConnectionPerBook
  <2>2. CASE tries # 1
    BY <2>2 DEF OneConnectionPerBook
  <2> QED
    BY <2>1, <2>2
<1>2. IInv => OneConnectionPerBook
  BY <1>1 DEF IInv
<1> QED
  BY <1>2, Invariance, PTL
=============================================================================
