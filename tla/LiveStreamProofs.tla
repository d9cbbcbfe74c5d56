--------------------------- MODULE LiveStreamProofs ---------------------------
(***************************************************************************)
(* Proofs about LiveStream for any symbols, batch size, number of minutes  *)
(* and events, and any number of goroutines: where bars are, what the flag *)
(* of the asynchronous flush says, what a bar holds, and what a shutdown   *)
(* leaves behind.                                                          *)
(*                                                                         *)
(* Every step either leaves the bars where they are, moves some of them    *)
(* from one place to another, or builds new ones for an adder that holds   *)
(* none (StepKinds).                                                       *)
(***************************************************************************)
EXTENDS LiveStream, TLAPS

\* Which program counters a goroutine has, and when it holds bars.
Control ==
  /\ pc["barTicker"] \in {"wait", "add", "exit"}
  /\ pc["flushTicker"] \in {"wait", "insert", "exit"}
  /\ pc["main"] \in {"run", "drain", "add", "flush", "insert", "closed", "exit"}
  /\ \A a \in Async : pc[a] \in {"idle", "flush", "insert"}
  /\ \A p \in Adder : toAdd[p] # {} => pc[p] = "add"
  /\ \A f \in Flusher : taken[f] # {} => pc[f] = "insert"

\* The bars of a minute are numbered up to closed, and each number is used.
Numbered == \A b \in Bars : b.part \in 1..closed[b.sym][b.min]
Used == \A s \in Symbol, m \in Minute : \A k \in 1..closed[s][m] : \E b \in Bars : Id(b) = <<s, m, k>>

\* No bar is in two places, and no two bars have one identity.
Apart ==
  \A p, q \in Places : \A b \in At(p), c \in At(q) : Id(b) = Id(c) => p = q /\ b = c

\* Minutes are closed only when they are over; until then their builders have
\* the events that came in time.
Open ==
  \A s \in Symbol, m \in Minute :
    /\ closed[s][m] > 0 => m < clock
    /\ closed[s][m] = 0 => builders[s][m] >= onTime[s][m]

\* After a quiet swap only main holds bars, and nobody builds any.
Quieted ==
  quiet => /\ pc["main"] \in {"insert", "closed", "exit"}
           /\ OthersQuiet
           /\ buffer = {}

IInv ==
  /\ TypeOK /\ Control
  /\ OneAsyncFlush
  /\ Numbered /\ Used /\ Apart
  /\ Open /\ OnTimeEventsTogether
  /\ Quieted

-----------------------------------------------------------------------------
\* The goroutines.
LEMMA Names ==
  /\ "barTicker" \notin Async /\ "main" \notin Async /\ "flushTicker" \notin Async
  /\ "barTicker" \notin Flusher
  /\ Adder \subseteq Proc /\ Flusher \subseteq Proc /\ Async \subseteq Flusher
BY AsyncAssumption DEF Adder, Flusher, Proc

\* The minutes.
LEMMA Minutes == MaxMinute \in Nat /\ MaxEvents \in Nat /\ Minute \subseteq Nat
BY BoundAssumption DEF Minute

\* What Finalize makes of a builder.
LEMMA Finalized ==
  ASSUME TypeOK, NEW d \in Due
  PROVE  /\ d[1] \in Symbol /\ d[2] \in Minute /\ d = <<d[1], d[2]>>
         /\ Finalize(d) \in BarRec
         /\ Finalize(d).sym = d[1] /\ Finalize(d).min = d[2]
         /\ Finalize(d).part = closed[d[1]][d[2]] + 1
         /\ Finalize(d).n = builders[d[1]][d[2]]
         /\ d[2] <= clock - 1
<1>1. d[1] \in Symbol /\ d[2] \in Minute /\ d = <<d[1], d[2]>> /\ d[2] <= clock - 1
  BY DEF Due, FlushUpTo
<1>2. closed[d[1]][d[2]] \in Nat /\ builders[d[1]][d[2]] \in Nat /\ feedUp \in BOOLEAN
  BY <1>1 DEF TypeOK
<1> QED
  BY <1>1, <1>2 DEF Finalize, BarRec

LEMMA FlushAllType ==
  ASSUME TypeOK, NEW p \in Adder, FlushAll(p)
  PROVE  /\ toAdd' \in [Adder -> SUBSET BarRec]
         /\ builders' \in [Symbol -> [Minute -> Nat]]
         /\ closed' \in [Symbol -> [Minute -> Nat]]
<1>1. {Finalize(d) : d \in Due} \in SUBSET BarRec
  BY Finalized
<1>2. toAdd' \in [Adder -> SUBSET BarRec]
  BY <1>1 DEF TypeOK, FlushAll
<1>3. builders' \in [Symbol -> [Minute -> Nat]]
  BY DEF TypeOK, FlushAll
<1>4. closed' \in [Symbol -> [Minute -> Nat]]
  BY DEF TypeOK, FlushAll
<1> QED
  BY <1>2, <1>3, <1>4

\* What Add does: the bars of one symbol go to the buffer, and an idle
\* identity may be started when no asynchronous flush runs.
Started(a) == pc[a] = "idle" /\ ~ flushing /\ pc' = [pc EXCEPT ![a] = "flush"] /\ flushing' = TRUE

LEMMA AddEffect ==
  ASSUME NEW p \in Adder, NEW s \in Symbol, Add(p, s)
  PROVE  /\ toAdd' = [toAdd EXCEPT ![p] = @ \ OfSymbol(toAdd[p], s)]
         /\ buffer' = buffer \cup OfSymbol(toAdd[p], s)
         /\ UNCHANGED <<pc, flushing>> \/ \E a \in Async : Started(a)
<1>1. PICK full \in SizeTest(Cardinality(OfSymbol(buffer \cup OfSymbol(toAdd[p], s), s))) :
        IF full /\ ~ flushing
        THEN /\ \E a \in Async : pc[a] = "idle"
             /\ pc' = [pc EXCEPT ![SomeIdle] = "flush"]
             /\ flushing' = TRUE
        ELSE UNCHANGED <<pc, flushing>>
  BY DEF Add
<1>2. CASE full /\ ~ flushing
  <2>1. SomeIdle \in Async /\ pc[SomeIdle] = "idle"
    BY <1>1, <1>2 DEF SomeIdle
  <2> QED
    BY <1>1, <1>2, <2>1 DEF Add, Started
<1>3. CASE ~ (full /\ ~ flushing)
  BY <1>1, <1>3 DEF Add
<1> QED
  BY <1>2, <1>3

LEMMA AddType ==
  ASSUME TypeOK, NEW p \in Adder, NEW s \in Symbol, Add(p, s),
         UNCHANGED <<clock, builders, feedUp, armed, taken, cancelled, clientsUp, dbOpen, db,
                     failed, history>>
  PROVE  TypeOK'
<1>1. toAdd' \in [Adder -> SUBSET BarRec]
  BY AddEffect DEF TypeOK
<1>2. buffer' \in SUBSET BarRec
  BY AddEffect DEF TypeOK, OfSymbol
<1>3. pc' \in [Proc -> {"wait", "add", "flush", "insert", "idle", "exit", "run", "drain", "closed"}]
      /\ flushing' \in BOOLEAN
  BY AddEffect, Names DEF TypeOK, Started
<1> QED
  BY <1>1, <1>2, <1>3 DEF TypeOK, history

LEMMA TypeStep ==
  ASSUME TypeOK, [Next]_vars
  PROVE  TypeOK'
<1> USE DEF TypeOK
<1>1. CASE Tick
  <2>1. clock' \in Minute
    BY <1>1, Minutes DEF Tick, Minute
  <2> QED
    BY <1>1, <2>1 DEF Tick
<1>2. ASSUME NEW s \in Symbol, NEW m \in Minute, ProcessEvent(s, m) PROVE TypeOK'
  <2>1. builders' \in [Symbol -> [Minute -> Nat]] /\ onTime' \in [Symbol -> [Minute -> Nat]]
    BY <1>2 DEF ProcessEvent
  <2>2. budget' \in 0..MaxEvents
    BY <1>2, Minutes DEF ProcessEvent
  <2> QED
    BY <1>2, <2>1, <2>2 DEF ProcessEvent
<1>3. ASSUME NEW up \in BOOLEAN, SetLiquidationFeedAvailable(up) PROVE TypeOK'
  BY <1>3 DEF SetLiquidationFeedAvailable
<1>4. CASE BarTickerFire
  <2>1. "barTicker" \in Adder
    BY DEF Adder
  <2> QED
    BY <1>4, <2>1, FlushAllType, Names DEF BarTickerFire
<1>5. ASSUME NEW s \in Symbol, BarTickerAdd(s) PROVE TypeOK'
  BY <1>5, AddType DEF BarTickerAdd, Adder
<1>6. CASE BarTickerRearm
  BY <1>6, Names DEF BarTickerRearm, history
<1>7. CASE BarTickerExit
  BY <1>7 DEF BarTickerExit, history
<1>8. ASSUME NEW f \in Flusher, FlushSwap(f) PROVE TypeOK'
  <2>1. quiet' \in BOOLEAN
    BY <1>8 DEF FlushSwap, OthersQuiet
  <2>2. pc' \in [Proc -> {"wait", "add", "flush", "insert", "idle", "exit", "run", "drain", "closed"}]
    BY <1>8 DEF FlushSwap
  <2> QED
    BY <1>8, <2>1, <2>2 DEF FlushSwap, TakeBuffer
<1>9. ASSUME NEW f \in Flusher, NEW s \in Symbol, FlushInsert(f, s) PROVE TypeOK'
  <2>1. OfSymbol(taken[f], s) \in SUBSET BarRec
    BY DEF OfSymbol
  <2> QED
    BY <1>9, <2>1 DEF FlushInsert, history
<1>10. ASSUME NEW f \in Flusher, FlushEnd(f) PROVE TypeOK'
  <2>1. pc' \in [Proc -> {"wait", "add", "flush", "insert", "idle", "exit", "run", "drain", "closed"}]
    BY <1>10 DEF FlushEnd
  <2>2. flushing' \in BOOLEAN
    BY <1>10 DEF FlushEnd, StillFlushing
  <2> QED
    BY <1>10, <2>1, <2>2 DEF FlushEnd, history
<1>11. CASE FlushTickerExit
  BY <1>11 DEF FlushTickerExit, history
<1>12. CASE Signal
  BY <1>12 DEF Signal, history
<1>13. CASE ClientsClose
  BY <1>13 DEF ClientsClose
<1>14. CASE ShutdownFlushAll
  <2>1. "main" \in Adder
    BY DEF Adder
  <2> QED
    BY <1>14, <2>1, FlushAllType, Names DEF ShutdownFlushAll
<1>15. ASSUME NEW s \in Symbol, ShutdownAdd(s) PROVE TypeOK'
  BY <1>15, AddType DEF ShutdownAdd, Adder
<1>16. CASE ShutdownFlush
  BY <1>16 DEF ShutdownFlush, history
<1>17. CASE Return
  BY <1>17 DEF Return, history
<1>18. CASE Terminated \/ UNCHANGED vars
  BY <1>18 DEF Terminated, vars, history
<1> QED
  BY <1>1, <1>2, <1>3, <1>4, <1>5, <1>6, <1>7, <1>8, <1>9, <1>10, <1>11, <1>12, <1>13,
     <1>14, <1>15, <1>16, <1>17, <1>18 DEF Next, BarTickerStep, FlushStep

-----------------------------------------------------------------------------
\* Program counters and hands.
LEMMA AddControl ==
  ASSUME TypeOK, Control, NEW p \in Adder, NEW s \in Symbol, pc[p] = "add", Add(p, s), UNCHANGED taken
  PROVE  Control'
<1>1. toAdd' = [toAdd EXCEPT ![p] = @ \ OfSymbol(toAdd[p], s)]
  BY AddEffect
<1>2. UNCHANGED pc \/ \E a \in Async : pc[a] = "idle" /\ pc' = [pc EXCEPT ![a] = "flush"]
  BY AddEffect DEF Started
<1>3. /\ \A q \in Proc \ Async : pc'[q] = pc[q]
      /\ \A a \in Async : pc'[a] = pc[a] \/ (pc[a] = "idle" /\ pc'[a] = "flush")
  BY <1>2, Names DEF TypeOK
<1>4. \A q \in Adder : toAdd'[q] # {} => toAdd[q] # {}
  BY <1>1 DEF TypeOK
<1>5. \A q \in Adder : q \notin Async
  BY Names DEF Adder
<1> QED
  BY <1>3, <1>4, <1>5, Names DEF Control, Adder, Flusher, Proc

LEMMA ControlStep ==
  ASSUME TypeOK, Control, [Next]_vars
  PROVE  Control'
<1> USE DEF Control
<1>1. ASSUME UNCHANGED <<pc, toAdd, taken>> PROVE Control'
  BY <1>1
<1>2. CASE BarTickerFire
  <2>1. \A p \in Adder \ {"barTicker"} : toAdd'[p] = toAdd[p]
    BY <1>2 DEF BarTickerFire, FlushAll, TypeOK
  <2>2. pc' = [pc EXCEPT !["barTicker"] = "add"] /\ taken' = taken
    BY <1>2 DEF BarTickerFire
  <2> QED
    BY <2>1, <2>2, Names DEF TypeOK, Adder, Flusher, Proc
<1>3. ASSUME NEW s \in Symbol, BarTickerAdd(s) PROVE Control'
  BY <1>3, AddControl DEF BarTickerAdd, Adder
<1>4. CASE BarTickerRearm
  BY <1>4, Names DEF BarTickerRearm, TypeOK, Adder, Flusher, Proc
<1>5. CASE BarTickerExit
  BY <1>5, Names DEF BarTickerExit, TypeOK, Adder, Flusher, Proc
<1>6. ASSUME NEW f \in Flusher, FlushSwap(f) PROVE Control'
  <2>1. pc' = [pc EXCEPT ![f] = "insert"] /\ toAdd' = toAdd
        /\ taken' = [taken EXCEPT ![f] = buffer]
        /\ pc[f] = IF f = "flushTicker" THEN "wait" ELSE "flush"
    BY <1>6 DEF FlushSwap, MayFlush, TakeBuffer
  <2> QED
    BY <2>1, Names DEF TypeOK, Adder, Flusher, Proc
<1>7. ASSUME NEW f \in Flusher, NEW s \in Symbol, FlushInsert(f, s) PROVE Control'
  <2>1. pc' = pc /\ toAdd' = toAdd /\ \A g \in Flusher : taken'[g] # {} => taken[g] # {}
    BY <1>7 DEF FlushInsert, TypeOK
  <2> QED
    BY <2>1
<1>8. ASSUME NEW f \in Flusher, FlushEnd(f) PROVE Control'
  <2>1. /\ pc' = [pc EXCEPT ![f] = CASE f = "flushTicker" -> "wait"
                                     [] f = "main" -> "closed"
                                     [] OTHER -> "idle"]
        /\ toAdd' = toAdd /\ taken' = taken /\ taken[f] = {} /\ pc[f] = "insert"
    BY <1>8 DEF FlushEnd
  <2> QED
    BY <2>1, Names DEF TypeOK, Adder, Flusher, Proc
<1>9. CASE FlushTickerExit
  BY <1>9, Names DEF FlushTickerExit, TypeOK, Adder, Flusher, Proc
<1>10. CASE Signal
  BY <1>10, Names DEF Signal, TypeOK, Adder, Flusher, Proc
<1>11. CASE ShutdownFlushAll
  <2>1. \A p \in Adder \ {"main"} : toAdd'[p] = toAdd[p]
    BY <1>11 DEF ShutdownFlushAll, FlushAll, TypeOK
  <2>2. pc' = [pc EXCEPT !["main"] = "add"] /\ taken' = taken /\ pc["main"] = "drain"
    BY <1>11 DEF ShutdownFlushAll
  <2> QED
    BY <2>1, <2>2, Names DEF TypeOK, Adder, Flusher, Proc
<1>12. ASSUME NEW s \in Symbol, ShutdownAdd(s) PROVE Control'
  BY <1>12, AddControl DEF ShutdownAdd, Adder
<1>13. CASE ShutdownFlush
  BY <1>13, Names DEF ShutdownFlush, TypeOK, Adder, Flusher, Proc
<1>14. CASE Return
  BY <1>14, Names DEF Return, TypeOK, Adder, Flusher, Proc
<1>15. CASE Tick \/ (\E s \in Symbol, m \in Minute : ProcessEvent(s, m))
            \/ (\E up \in BOOLEAN : SetLiquidationFeedAvailable(up)) \/ ClientsClose
            \/ Terminated \/ UNCHANGED vars
  BY <1>1, <1>15 DEF Tick, ProcessEvent, SetLiquidationFeedAvailable, ClientsClose, Terminated, vars
<1> QED
  BY <1>2, <1>3, <1>4, <1>5, <1>6, <1>7, <1>8, <1>9, <1>10, <1>11, <1>12, <1>13, <1>14, <1>15
     DEF Next, BarTickerStep, FlushStep

-----------------------------------------------------------------------------
\* The flag of the asynchronous flush.
LEMMA AsyncStep ==
  ASSUME TypeOK, Control, OneAsyncFlush, [Next]_vars
  PROVE  OneAsyncFlush'
<1> USE DEF OneAsyncFlush
<1>1. ASSUME \A a \in Async : pc'[a] = "idle" <=> pc[a] = "idle", UNCHANGED flushing
      PROVE  OneAsyncFlush'
  BY <1>1
<1>2. ASSUME NEW p \in Adder, NEW s \in Symbol, Add(p, s) PROVE OneAsyncFlush'
  <2>1. CASE UNCHANGED <<pc, flushing>>
    BY <2>1, <1>1
  <2>2. ASSUME NEW a \in Async, Started(a) PROVE OneAsyncFlush'
    <3>1. pc'[a] = "flush" /\ \A b \in Async \ {a} : pc'[b] = pc[b] /\ pc[b] = "idle"
      BY <2>2, Names DEF Started, TypeOK
    <3> QED
      BY <2>2, <3>1 DEF Started
  <2> QED
    BY <1>2, <2>1, <2>2, AddEffect
<1>3. ASSUME NEW f \in Flusher, FlushEnd(f) PROVE OneAsyncFlush'
  <2>1. /\ pc' = [pc EXCEPT ![f] = CASE f = "flushTicker" -> "wait"
                                     [] f = "main" -> "closed"
                                     [] OTHER -> "idle"]
        /\ pc[f] = "insert" /\ flushing' = (flushing /\ f \notin Async)
    BY <1>3 DEF FlushEnd, StillFlushing
  <2>2. CASE f \in Async
    <3>1. pc'[f] = "idle" /\ \A b \in Async \ {f} : pc'[b] = pc[b] /\ pc[b] = "idle"
      BY <2>1, <2>2, Names DEF TypeOK
    <3> QED
      BY <2>1, <2>2, <3>1
  <2>3. CASE f \notin Async
    <3>1. \A b \in Async : pc'[b] = pc[b]
      BY <2>1, <2>3, Names DEF TypeOK
    <3>2. flushing' <=> flushing
      BY <2>1, <2>3
    <3> QED
      BY <3>1, <3>2
  <2> QED
    BY <2>2, <2>3
<1>4. ASSUME NEW f \in Flusher, FlushSwap(f) PROVE OneAsyncFlush'
  <2>1. pc' = [pc EXCEPT ![f] = "insert"] /\ flushing' = flushing
        /\ pc[f] = IF f = "flushTicker" THEN "wait" ELSE "flush"
    BY <1>4 DEF FlushSwap, MayFlush
  <2> QED
    BY <1>1, <2>1, Names DEF TypeOK
<1>5. CASE BarTickerFire \/ BarTickerRearm \/ BarTickerExit \/ FlushTickerExit \/ Signal
           \/ ShutdownFlushAll \/ ShutdownFlush \/ Return
  <2>1. \A a \in Async : pc'[a] = pc[a]
    BY <1>5, Names DEF BarTickerFire, BarTickerRearm, BarTickerExit, FlushTickerExit, Signal,
                       ShutdownFlushAll, ShutdownFlush, Return, TypeOK
  <2>2. UNCHANGED flushing
    BY <1>5 DEF BarTickerFire, BarTickerRearm, BarTickerExit, FlushTickerExit, Signal,
                ShutdownFlushAll, ShutdownFlush, Return
  <2> QED
    BY <1>1, <2>1, <2>2
<1>6. CASE Tick \/ (\E s \in Symbol, m \in Minute : ProcessEvent(s, m))
           \/ (\E up \in BOOLEAN : SetLiquidationFeedAvailable(up)) \/ ClientsClose
           \/ (\E f \in Flusher, s \in Symbol : FlushInsert(f, s))
           \/ Terminated \/ UNCHANGED vars
  BY <1>1, <1>6 DEF Tick, ProcessEvent, SetLiquidationFeedAvailable, ClientsClose, FlushInsert,
                    Terminated, vars
<1> QED
  BY <1>2, <1>3, <1>4, <1>5, <1>6
     DEF Next, BarTickerStep, FlushStep, BarTickerAdd, ShutdownAdd, Adder

-----------------------------------------------------------------------------
\* What a step does with the bars.
Still ==
  /\ UNCHANGED <<toAdd, taken, buffer, db, failed, closed>>
  /\ clock' >= clock
  /\ \A s \in Symbol, m \in Minute :
       \/ onTime'[s][m] = onTime[s][m] /\ builders'[s][m] >= builders[s][m]
       \/ /\ m = clock
          /\ onTime'[s][m] = onTime[s][m] + 1
          /\ builders'[s][m] = builders[s][m] + 1

Move(src, dst, bars) ==
  /\ src \in Places \ {<<"db">>, <<"failed">>} /\ dst \in Places /\ src # dst
  /\ bars \subseteq At(src)
  /\ At(src)' = At(src) \ bars
  /\ At(dst)' = At(dst) \cup bars
  /\ \A pl \in Places \ {src, dst} : At(pl)' = At(pl)
  /\ UNCHANGED <<closed, builders, clock, onTime>>

Built(p) ==
  /\ toAdd[p] = {}
  /\ FlushAll(p)
  /\ UNCHANGED <<taken, buffer, db, failed, clock, onTime>>

\* The places.
LEMMA PlaceList ==
  /\ \A p \in Adder : <<"add", p>> \in Places
  /\ \A f \in Flusher : <<"taken", f>> \in Places
  /\ <<"buffer">> \in Places /\ <<"db">> \in Places /\ <<"failed">> \in Places
  /\ \A pl \in Places : \/ \E p \in Adder : pl = <<"add", p>>
                        \/ \E f \in Flusher : pl = <<"taken", f>>
                        \/ pl \in {<<"buffer">>, <<"db">>, <<"failed">>}
BY DEF Places

LEMMA AtPlaces ==
  /\ \A p \in Adder : At(<<"add", p>>) = toAdd[p] /\ At(<<"add", p>>)' = toAdd'[p]
  /\ \A f \in Flusher : At(<<"taken", f>>) = taken[f] /\ At(<<"taken", f>>)' = taken'[f]
  /\ At(<<"buffer">>) = buffer /\ At(<<"buffer">>)' = buffer'
  /\ At(<<"db">>) = db /\ At(<<"db">>)' = db'
  /\ At(<<"failed">>) = failed /\ At(<<"failed">>)' = failed'
BY DEF At

LEMMA PlacesDiffer ==
  /\ \A p, q \in Adder : p # q => <<"add", p>> # <<"add", q>>
  /\ \A f, g \in Flusher : f # g => <<"taken", f>> # <<"taken", g>>
  /\ \A p \in Adder, f \in Flusher : <<"add", p>> # <<"taken", f>>
  /\ \A p \in Adder : /\ <<"add", p>> # <<"buffer">>
                      /\ <<"add", p>> # <<"db">>
                      /\ <<"add", p>> # <<"failed">>
  /\ <<"buffer">> # <<"db">> /\ <<"buffer">> # <<"failed">> /\ <<"db">> # <<"failed">>
  /\ \A f \in Flusher : /\ <<"taken", f>> # <<"buffer">>
                        /\ <<"taken", f>> # <<"db">>
                        /\ <<"taken", f>> # <<"failed">>
OBVIOUS

LEMMA BarsAt == /\ \A b : b \in Bars <=> \E pl \in Places : b \in At(pl)
                /\ \A b : b \in Bars' <=> \E pl \in Places : b \in At(pl)'
BY DEF Bars, Places

LEMMA BarTypes ==
  ASSUME TypeOK
  PROVE  Bars \subseteq BarRec
<1>1. ASSUME NEW pl \in Places PROVE At(pl) \subseteq BarRec
  <2>1. CASE \E p \in Adder : pl = <<"add", p>>
    BY <2>1, AtPlaces DEF TypeOK
  <2>2. CASE \E f \in Flusher : pl = <<"taken", f>>
    BY <2>2, AtPlaces DEF TypeOK
  <2>3. CASE pl \in {<<"buffer">>, <<"db">>, <<"failed">>}
    BY <2>3, AtPlaces DEF TypeOK
  <2> QED
    BY <2>1, <2>2, <2>3, PlaceList
<1> QED
  BY <1>1, BarsAt

\* Add moves bars from the adder to the buffer.
LEMMA AddMoves ==
  ASSUME TypeOK, NEW p \in Adder, NEW s \in Symbol, Add(p, s), UNCHANGED <<taken, db, failed, closed, builders, clock, onTime>>
  PROVE  Move(<<"add", p>>, <<"buffer">>, OfSymbol(toAdd[p], s))
<1>1. /\ toAdd' = [toAdd EXCEPT ![p] = @ \ OfSymbol(toAdd[p], s)]
      /\ buffer' = buffer \cup OfSymbol(toAdd[p], s)
  BY AddEffect
<1>2. toAdd'[p] = toAdd[p] \ OfSymbol(toAdd[p], s) /\ \A q \in Adder \ {p} : toAdd'[q] = toAdd[q]
  BY <1>1 DEF TypeOK
<1>3. \A pl \in Places \ {<<"add", p>>, <<"buffer">>} : At(pl)' = At(pl)
  BY <1>2, PlaceList, AtPlaces
<1>4. OfSymbol(toAdd[p], s) \subseteq At(<<"add", p>>)
  BY AtPlaces DEF OfSymbol
<1> QED
  BY <1>1, <1>2, <1>3, <1>4, PlaceList, PlacesDiffer, AtPlaces DEF Move

LEMMA StepKinds ==
  ASSUME TypeOK, Control, [Next]_vars
  PROVE  \/ Still
         \/ \E src, dst \in Places, bars \in SUBSET Bars : Move(src, dst, bars)
         \/ \E p \in Adder : Built(p)
<1>1. ASSUME NEW p \in Adder, NEW s \in Symbol, Add(p, s), UNCHANGED <<taken, db, failed, closed, builders, clock, onTime>>
      PROVE  \E src, dst \in Places, bars \in SUBSET Bars : Move(src, dst, bars)
  <2>1. Move(<<"add", p>>, <<"buffer">>, OfSymbol(toAdd[p], s))
    BY <1>1, AddMoves
  <2>2. OfSymbol(toAdd[p], s) \in SUBSET Bars
    BY <2>1, BarsAt, PlaceList DEF Move
  <2> QED
    BY <2>1, <2>2, PlaceList
<1>2. CASE BarTickerFire
  <2>1. toAdd["barTicker"] = {}
    BY <1>2 DEF Control, BarTickerFire, Adder
  <2> QED
    BY <1>2, <2>1 DEF BarTickerFire, Built, Adder
<1>3. CASE ShutdownFlushAll
  <2>1. toAdd["main"] = {}
    BY <1>3 DEF Control, ShutdownFlushAll, Adder
  <2> QED
    BY <1>3, <2>1 DEF ShutdownFlushAll, Built, Adder
<1>4. ASSUME NEW f \in Flusher, FlushSwap(f)
      PROVE  \E src, dst \in Places, bars \in SUBSET Bars : Move(src, dst, bars)
  <2>1. taken' = [taken EXCEPT ![f] = buffer] /\ buffer' = {}
        /\ UNCHANGED <<toAdd, db, failed, closed, builders, clock, onTime>>
    BY <1>4 DEF FlushSwap, TakeBuffer
  <2>2. taken[f] = {}
    BY <1>4, Names DEF Control, FlushSwap, MayFlush
  <2>3. taken'[f] = buffer /\ \A g \in Flusher \ {f} : taken'[g] = taken[g]
    BY <2>1 DEF TypeOK
  <2>4. \A pl \in Places \ {<<"taken", f>>, <<"buffer">>} : At(pl)' = At(pl)
    BY <2>1, <2>3, PlaceList, AtPlaces
  <2>5. Move(<<"buffer">>, <<"taken", f>>, buffer)
    BY <2>1, <2>2, <2>3, <2>4, PlaceList, PlacesDiffer, AtPlaces DEF Move
  <2>6. buffer \in SUBSET Bars
    BY BarsAt, PlaceList, AtPlaces
  <2> QED
    BY <2>5, <2>6, PlaceList
<1>5. ASSUME NEW f \in Flusher, NEW s \in Symbol, FlushInsert(f, s)
      PROVE  \E src, dst \in Places, bars \in SUBSET Bars : Move(src, dst, bars)
  <2> DEFINE bars == OfSymbol(taken[f], s)
  <2>1. /\ taken' = [taken EXCEPT ![f] = @ \ bars]
        /\ \/ db' = db \cup bars /\ UNCHANGED failed
           \/ failed' = failed \cup bars /\ UNCHANGED db
        /\ UNCHANGED <<toAdd, buffer, closed, builders, clock, onTime>>
    BY <1>5 DEF FlushInsert, history
  <2>2. bars \subseteq At(<<"taken", f>>)
    BY AtPlaces DEF OfSymbol
  <2>3. bars \in SUBSET Bars
    BY <2>2, BarsAt, PlaceList
  <2> HIDE DEF bars
  <2>4. taken'[f] = taken[f] \ bars /\ \A g \in Flusher \ {f} : taken'[g] = taken[g]
    BY <2>1 DEF TypeOK
  <2>5. CASE db' = db \cup bars /\ UNCHANGED failed
    <3>1. \A pl \in Places \ {<<"taken", f>>, <<"db">>} : At(pl)' = At(pl)
      BY <2>1, <2>4, <2>5, PlaceList, AtPlaces
    <3>2. Move(<<"taken", f>>, <<"db">>, bars)
      BY <2>1, <2>2, <2>4, <2>5, <3>1, PlaceList, PlacesDiffer, AtPlaces DEF Move
    <3> QED
      BY <2>3, <3>2, PlaceList
  <2>6. CASE failed' = failed \cup bars /\ UNCHANGED db
    <3>1. \A pl \in Places \ {<<"taken", f>>, <<"failed">>} : At(pl)' = At(pl)
      BY <2>1, <2>4, <2>6, PlaceList, AtPlaces
    <3>2. Move(<<"taken", f>>, <<"failed">>, bars)
      BY <2>1, <2>2, <2>4, <2>6, <3>1, PlaceList, PlacesDiffer, AtPlaces DEF Move
    <3> QED
      BY <2>3, <3>2, PlaceList
  <2> QED
    BY <2>1, <2>5, <2>6
<1>6. CASE \E s \in Symbol : BarTickerAdd(s)
  BY <1>1, <1>6 DEF BarTickerAdd, Adder, history
<1>7. CASE \E s \in Symbol : ShutdownAdd(s)
  BY <1>1, <1>7 DEF ShutdownAdd, Adder, history
<1>8. CASE Tick
  <2>1. \A t \in Symbol, k \in Minute : builders'[t][k] = builders[t][k] /\ builders[t][k] \in Nat
                                      /\ onTime'[t][k] = onTime[t][k]
    BY <1>8 DEF Tick, TypeOK
  <2>2. clock' >= clock /\ UNCHANGED <<toAdd, taken, buffer, db, failed, closed>>
    BY <1>8 DEF Tick, TypeOK, Minute
  <2> QED
    BY <2>1, <2>2 DEF Still
<1>9. ASSUME NEW s \in Symbol, NEW m \in Minute, ProcessEvent(s, m) PROVE Still
  <2>1. /\ builders' = [builders EXCEPT ![s][m] = @ + 1]
        /\ onTime' = IF m = clock THEN [onTime EXCEPT ![s][m] = @ + 1] ELSE onTime
        /\ UNCHANGED <<toAdd, taken, buffer, db, failed, closed, clock>>
    BY <1>9 DEF ProcessEvent
  <2>2. \A t \in Symbol, k \in Minute : builders[t][k] \in Nat /\ onTime[t][k] \in Nat
    BY DEF TypeOK
  <2>3. \A t \in Symbol, k \in Minute :
          builders'[t][k] = IF t = s /\ k = m THEN builders[t][k] + 1 ELSE builders[t][k]
    BY <2>1 DEF TypeOK
  <2>4. \A t \in Symbol, k \in Minute :
          onTime'[t][k] = IF t = s /\ k = m /\ m = clock THEN onTime[t][k] + 1 ELSE onTime[t][k]
    BY <2>1 DEF TypeOK
  <2>5. clock' >= clock
    BY <2>1 DEF TypeOK, Minute
  <2> QED
    BY <2>1, <2>2, <2>3, <2>4, <2>5 DEF Still
<1>10. ASSUME UNCHANGED <<toAdd, taken, buffer, db, failed, closed, clock, builders, onTime>>
       PROVE  Still
  <2>1. \A t \in Symbol, k \in Minute : builders'[t][k] = builders[t][k] /\ builders[t][k] \in Nat
                                      /\ onTime'[t][k] = onTime[t][k]
    BY <1>10 DEF TypeOK
  <2>2. clock' >= clock
    BY <1>10 DEF TypeOK, Minute
  <2> QED
    BY <1>10, <2>1, <2>2 DEF Still
<1>11. CASE (\E up \in BOOLEAN : SetLiquidationFeedAvailable(up))
           \/ BarTickerRearm \/ BarTickerExit \/ (\E f \in Flusher : FlushEnd(f)) \/ FlushTickerExit
           \/ Signal \/ ClientsClose \/ ShutdownFlush \/ Return \/ Terminated \/ UNCHANGED vars
  BY <1>10, <1>11
     DEF SetLiquidationFeedAvailable, BarTickerRearm, BarTickerExit, FlushEnd, FlushTickerExit,
         Signal, ClientsClose, ShutdownFlush, Return, Terminated, vars, history
<1> QED
  BY <1>2, <1>3, <1>4, <1>5, <1>6, <1>7, <1>8, <1>9, <1>11 DEF Next, BarTickerStep, FlushStep

-----------------------------------------------------------------------------
\* Identities: the parts of an identity can be told apart.
LEMMA Ids ==
  ASSUME NEW b, NEW c, Id(b) = Id(c)
  PROVE  b.sym = c.sym /\ b.min = c.min /\ b.part = c.part
BY DEF Id

\* A move changes which place a bar is in, not which bars there are.
LEMMA MoveBars ==
  ASSUME NEW src \in Places, NEW dst \in Places, NEW bars, Move(src, dst, bars)
  PROVE  Bars' = Bars
<1>1. ASSUME NEW b \in Bars PROVE b \in Bars'
  <2>1. PICK pl \in Places : b \in At(pl)
    BY BarsAt
  <2>2. CASE b \in bars
    BY <2>2, BarsAt DEF Move
  <2>3. CASE b \notin bars
    BY <2>1, <2>3, BarsAt DEF Move
  <2> QED
    BY <2>2, <2>3
<1>2. ASSUME NEW b \in Bars' PROVE b \in Bars
  <2>1. PICK pl \in Places : b \in At(pl)'
    BY <1>2, BarsAt
  <2>2. b \in At(pl) \/ b \in At(src)
    BY <2>1 DEF Move
  <2> QED
    BY <2>1, <2>2, BarsAt
<1> QED
  BY <1>1, <1>2

\* A bar that is in a place after a move was there before, or was moved.
LEMMA MoveApart ==
  ASSUME Apart, NEW src \in Places, NEW dst \in Places, NEW bars, Move(src, dst, bars)
  PROVE  Apart'
<1>1. \A pl \in Places : \A b \in At(pl)' :
         IF b \in bars THEN pl = dst /\ b \in At(src)
                       ELSE b \in At(pl)
  <2> SUFFICES ASSUME NEW pl \in Places, NEW b \in At(pl)'
               PROVE  IF b \in bars THEN pl = dst /\ b \in At(src) ELSE b \in At(pl)
    OBVIOUS
  <2>1. CASE pl = src
    BY <2>1 DEF Move
  <2>2. CASE pl = dst
    BY <2>2 DEF Move
  <2>3. CASE pl \notin {src, dst}
    BY <2>3 DEF Move, Apart
  <2> QED
    BY <2>1, <2>2, <2>3
<1>2. ASSUME NEW p \in Places, NEW q \in Places, NEW b \in At(p)', NEW c \in At(q)', Id(b) = Id(c)
      PROVE  p = q /\ b = c
  <2>1. CASE b \in bars /\ c \in bars
    BY <1>1, <1>2, <2>1 DEF Apart
  <2>2. CASE b \notin bars /\ c \notin bars
    BY <1>1, <1>2, <2>2 DEF Apart
  <2>3. CASE b \in bars /\ c \notin bars
    BY <1>1, <1>2, <2>3 DEF Apart
  <2>4. CASE b \notin bars /\ c \in bars
    BY <1>1, <1>2, <2>4 DEF Apart
  <2> QED
    BY <2>1, <2>2, <2>3, <2>4
<1> QED
  BY <1>2 DEF Apart, Places, Id

\* What building adds: one bar for each builder that was due, all with the adder.
LEMMA BuiltEffect ==
  ASSUME TypeOK, NEW p \in Adder, Built(p)
  PROVE  /\ \A pl \in Places : \A b \in At(pl)' :
              b \in At(pl) \/ (pl = <<"add", p>> /\ \E d \in Due : b = Finalize(d))
         /\ \A b \in Bars : b \in Bars'
         /\ \A d \in Due : Finalize(d) \in Bars'
         /\ \A b \in Bars' : b \in Bars \/ \E d \in Due : b = Finalize(d)
         /\ \A s \in Symbol, m \in Minute :
              /\ closed'[s][m] = IF <<s, m>> \in Due THEN closed[s][m] + 1 ELSE closed[s][m]
              /\ builders'[s][m] = IF <<s, m>> \in Due THEN 0 ELSE builders[s][m]
         /\ clock' = clock /\ onTime' = onTime
<1>1. toAdd'[p] = {Finalize(d) : d \in Due} /\ \A q \in Adder \ {p} : toAdd'[q] = toAdd[q]
  BY DEF Built, FlushAll, TypeOK
<1>2. toAdd[p] = {} /\ UNCHANGED <<taken, buffer, db, failed, clock, onTime>>
  BY DEF Built
<1>3. ASSUME NEW pl \in Places, pl # <<"add", p>> PROVE At(pl)' = At(pl)
  BY <1>1, <1>2, <1>3, PlaceList, AtPlaces
<1>4. At(<<"add", p>>)' = {Finalize(d) : d \in Due} /\ At(<<"add", p>>) = {}
  BY <1>1, <1>2, AtPlaces
<1>5. \A pl \in Places : \A b \in At(pl)' :
        b \in At(pl) \/ (pl = <<"add", p>> /\ \E d \in Due : b = Finalize(d))
  BY <1>3, <1>4
<1>6. \A pl \in Places : At(pl) \subseteq At(pl)'
  BY <1>3, <1>4
<1>7. \A b \in Bars : b \in Bars'
  BY <1>6, BarsAt
<1>8. \A d \in Due : Finalize(d) \in Bars'
  BY <1>4, BarsAt, PlaceList
<1>9. \A b \in Bars' : b \in Bars \/ \E d \in Due : b = Finalize(d)
  BY <1>5, BarsAt
<1>10. \A s \in Symbol, m \in Minute :
         /\ closed'[s][m] = IF <<s, m>> \in Due THEN closed[s][m] + 1 ELSE closed[s][m]
         /\ builders'[s][m] = IF <<s, m>> \in Due THEN 0 ELSE builders[s][m]
  BY DEF Built, FlushAll
<1> QED
  BY <1>2, <1>5, <1>7, <1>8, <1>9, <1>10

LEMMA NumberedStep ==
  ASSUME TypeOK, Numbered, \/ Still
                           \/ \E src, dst \in Places, bars \in SUBSET Bars : Move(src, dst, bars)
                           \/ \E p \in Adder : Built(p)
  PROVE  Numbered'
<1>1. CASE Still
  BY <1>1 DEF Still, Numbered, Bars, Places, At
<1>2. CASE \E src, dst \in Places, bars \in SUBSET Bars : Move(src, dst, bars)
  <2>1. Bars' = Bars /\ closed' = closed
    BY <1>2, MoveBars DEF Move
  <2> QED
    BY <2>1 DEF Numbered
<1>3. ASSUME NEW p \in Adder, Built(p) PROVE Numbered'
  <2>1. ASSUME NEW b \in Bars PROVE b.part \in 1..closed'[b.sym][b.min]
    <3>1. b.sym \in Symbol /\ b.min \in Minute
      BY <2>1, BarTypes DEF BarRec
    <3>2. closed'[b.sym][b.min] \in {closed[b.sym][b.min], closed[b.sym][b.min] + 1}
      BY <1>3, <3>1, BuiltEffect
    <3>3. closed[b.sym][b.min] \in Nat
      BY <3>1 DEF TypeOK
    <3> QED
      BY <2>1, <3>2, <3>3 DEF Numbered
  <2>2. ASSUME NEW d \in Due PROVE Finalize(d).part \in 1..closed'[Finalize(d).sym][Finalize(d).min]
    <3>1. closed'[d[1]][d[2]] = closed[d[1]][d[2]] + 1 /\ closed[d[1]][d[2]] \in Nat
      BY <1>3, <2>2, BuiltEffect, Finalized DEF TypeOK
    <3>2. Finalize(d).sym = d[1] /\ Finalize(d).min = d[2] /\ Finalize(d).part = closed[d[1]][d[2]] + 1
      BY <2>2, Finalized
    <3> HIDE DEF Finalize
    <3> QED
      BY <3>1, <3>2
  <2> HIDE DEF Finalize
  <2> QED
    BY <1>3, <2>1, <2>2, BuiltEffect DEF Numbered
<1> QED
  BY <1>1, <1>2, <1>3

LEMMA UsedStep ==
  ASSUME TypeOK, Used, \/ Still
                       \/ \E src, dst \in Places, bars \in SUBSET Bars : Move(src, dst, bars)
                       \/ \E p \in Adder : Built(p)
  PROVE  Used'
<1>1. CASE Still
  BY <1>1 DEF Still, Used, Bars, Places, At
<1>2. CASE \E src, dst \in Places, bars \in SUBSET Bars : Move(src, dst, bars)
  <2>1. Bars' = Bars /\ closed' = closed
    BY <1>2, MoveBars DEF Move
  <2> QED
    BY <2>1 DEF Used
<1>3. ASSUME NEW p \in Adder, Built(p) PROVE Used'
  <2>1. SUFFICES ASSUME NEW s \in Symbol, NEW m \in Minute, NEW k \in 1..closed'[s][m]
                 PROVE  \E b \in Bars' : Id(b) = <<s, m, k>>
    BY DEF Used, Id
  <2>2. closed[s][m] \in Nat
    BY DEF TypeOK
  <2>3. CASE k <= closed[s][m]
    BY <1>3, <2>2, <2>3, BuiltEffect DEF Used
  <2>4. CASE k > closed[s][m]
    <3>1. <<s, m>> \in Due /\ k = closed[s][m] + 1
      BY <1>3, <2>2, <2>4, BuiltEffect
    <3>2. Id(Finalize(<<s, m>>)) = <<s, m, k>>
      BY <3>1, Finalized DEF Id
    <3> QED
      BY <1>3, <3>1, <3>2, BuiltEffect
  <2> QED
    BY <2>2, <2>3, <2>4
<1> QED
  BY <1>1, <1>2, <1>3

LEMMA ApartStep ==
  ASSUME TypeOK, Numbered, Apart,
         \/ Still
         \/ \E src, dst \in Places, bars \in SUBSET Bars : Move(src, dst, bars)
         \/ \E p \in Adder : Built(p)
  PROVE  Apart'
<1>1. CASE Still
  BY <1>1 DEF Still, Apart, Places, At, Id
<1>2. CASE \E src, dst \in Places, bars \in SUBSET Bars : Move(src, dst, bars)
  BY <1>2, MoveApart
<1>3. ASSUME NEW p \in Adder, Built(p) PROVE Apart'
  <2>1. ASSUME NEW d \in Due, NEW b \in Bars PROVE Id(b) # Id(Finalize(d))
    <3>1. SUFFICES ASSUME Id(b) = Id(Finalize(d)) PROVE FALSE
      OBVIOUS
    <3>2. b.sym = d[1] /\ b.min = d[2] /\ b.part = closed[d[1]][d[2]] + 1 /\ closed[d[1]][d[2]] \in Nat
      BY <2>1, <3>1, Ids, Finalized DEF TypeOK
    <3> QED
      BY <3>2 DEF Numbered
  <2>2. ASSUME NEW d \in Due, NEW e \in Due, Id(Finalize(d)) = Id(Finalize(e)) PROVE d = e
    <3>1. /\ d = <<d[1], d[2]>> /\ Finalize(d).sym = d[1] /\ Finalize(d).min = d[2]
          /\ e = <<e[1], e[2]>> /\ Finalize(e).sym = e[1] /\ Finalize(e).min = e[2]
      BY <2>2, Finalized
    <3> QED
      BY <2>2, <3>1, Ids
  <2>3. ASSUME NEW x \in Places, NEW y \in Places, NEW b \in At(x)', NEW c \in At(y)', Id(b) = Id(c)
        PROVE  x = y /\ b = c
    <3>1. /\ b \in At(x) \/ (x = <<"add", p>> /\ \E d \in Due : b = Finalize(d))
          /\ c \in At(y) \/ (y = <<"add", p>> /\ \E d \in Due : c = Finalize(d))
      BY <1>3, <2>3, BuiltEffect
    <3>2. CASE b \in At(x) /\ c \in At(y)
      BY <2>3, <3>2 DEF Apart
    <3>3. CASE b \in At(x) /\ \E d \in Due : c = Finalize(d)
      BY <2>1, <2>3, <3>3, BarsAt
    <3>4. CASE c \in At(y) /\ \E d \in Due : b = Finalize(d)
      BY <2>1, <2>3, <3>4, BarsAt
    <3>5. CASE /\ x = <<"add", p>> /\ \E d \in Due : b = Finalize(d)
               /\ y = <<"add", p>> /\ \E d \in Due : c = Finalize(d)
      BY <2>2, <2>3, <3>5
    <3> QED
      BY <3>1, <3>2, <3>3, <3>4, <3>5
  <2> QED
    BY <2>3 DEF Apart, Places, Id
<1> QED
  BY <1>1, <1>2, <1>3

-----------------------------------------------------------------------------
\* What bars and builders hold.
LEMMA OpenStep ==
  ASSUME TypeOK, TypeOK', Open,
         \/ Still
         \/ \E src, dst \in Places, bars \in SUBSET Bars : Move(src, dst, bars)
         \/ \E p \in Adder : Built(p)
  PROVE  Open'
<1>1. SUFFICES ASSUME NEW s \in Symbol, NEW m \in Minute
               PROVE  /\ closed'[s][m] > 0 => m < clock'
                      /\ closed'[s][m] = 0 => builders'[s][m] >= onTime'[s][m]
  BY DEF Open
<1>2. closed[s][m] \in Nat /\ builders[s][m] \in Nat /\ onTime[s][m] \in Nat
  BY DEF TypeOK
<1>3. m \in Nat /\ clock \in Nat /\ clock' \in Nat /\ builders'[s][m] \in Nat
  BY Minutes DEF TypeOK
<1>4. /\ closed[s][m] > 0 => m < clock
      /\ closed[s][m] = 0 => builders[s][m] >= onTime[s][m]
  BY DEF Open
<1>5. CASE Still
  <2>1. closed' = closed /\ clock' >= clock
    BY <1>5 DEF Still
  <2>2. \/ onTime'[s][m] = onTime[s][m] /\ builders'[s][m] >= builders[s][m]
        \/ onTime'[s][m] = onTime[s][m] + 1 /\ builders'[s][m] = builders[s][m] + 1
    BY <1>5 DEF Still
  <2> QED
    BY <1>2, <1>3, <1>4, <2>1, <2>2
<1>6. CASE \E src, dst \in Places, bars \in SUBSET Bars : Move(src, dst, bars)
  BY <1>4, <1>6 DEF Move
<1>7. ASSUME NEW p \in Adder, Built(p)
      PROVE  /\ closed'[s][m] > 0 => m < clock'
             /\ closed'[s][m] = 0 => builders'[s][m] >= onTime'[s][m]
  <2>1. /\ closed'[s][m] = IF <<s, m>> \in Due THEN closed[s][m] + 1 ELSE closed[s][m]
        /\ builders'[s][m] = IF <<s, m>> \in Due THEN 0 ELSE builders[s][m]
        /\ clock' = clock /\ onTime' = onTime
    BY <1>7, BuiltEffect
  <2>2. CASE <<s, m>> \in Due
    <3>1. m <= clock - 1
      BY <2>2 DEF Due, FlushUpTo
    <3> QED
      BY <1>2, <1>3, <2>1, <2>2, <3>1
  <2>3. CASE <<s, m>> \notin Due
    BY <1>4, <2>1, <2>3
  <2> QED
    BY <2>2, <2>3
<1> QED
  BY <1>5, <1>6, <1>7

LEMMA OnTimeStep ==
  ASSUME TypeOK, TypeOK', Open, OnTimeEventsTogether,
         \/ Still
         \/ \E src, dst \in Places, bars \in SUBSET Bars : Move(src, dst, bars)
         \/ \E p \in Adder : Built(p)
  PROVE  OnTimeEventsTogether'
<1>1. \A b \in Bars : b.sym \in Symbol /\ b.min \in Nat /\ b.min \in Minute
  BY BarTypes, Minutes DEF BarRec
<1>2. clock \in Nat /\ clock' \in Nat
  BY Minutes DEF TypeOK
<1>3. CASE Still
  <2>1. Bars' = Bars
    BY <1>3 DEF Still, Bars, Places, At
  <2>2. ASSUME NEW b \in Bars PROVE b.min < clock' /\ (b.part = 1 => b.n >= onTime'[b.sym][b.min])
    <3>1. b.min < clock /\ clock' >= clock
      BY <1>3 DEF Still, OnTimeEventsTogether
    <3>2. onTime'[b.sym][b.min] = onTime[b.sym][b.min]
      BY <1>1, <1>2, <1>3, <3>1 DEF Still
    <3> QED
      BY <1>1, <1>2, <3>1, <3>2 DEF OnTimeEventsTogether
  <2> QED
    BY <2>1, <2>2 DEF OnTimeEventsTogether
<1>4. CASE \E src, dst \in Places, bars \in SUBSET Bars : Move(src, dst, bars)
  <2>1. Bars' = Bars /\ UNCHANGED <<clock, onTime>>
    BY <1>4, MoveBars DEF Move
  <2> QED
    BY <2>1 DEF OnTimeEventsTogether
<1>5. ASSUME NEW p \in Adder, Built(p) PROVE OnTimeEventsTogether'
  <2>1. clock' = clock /\ onTime' = onTime
    BY <1>5, BuiltEffect
  <2>2. ASSUME NEW d \in Due
        PROVE  /\ Finalize(d).min < clock
               /\ Finalize(d).part = 1 => Finalize(d).n >= onTime[Finalize(d).sym][Finalize(d).min]
    <3>1. /\ d[1] \in Symbol /\ d[2] \in Minute
          /\ Finalize(d).sym = d[1] /\ Finalize(d).min = d[2]
          /\ Finalize(d).part = closed[d[1]][d[2]] + 1
          /\ Finalize(d).n = builders[d[1]][d[2]]
          /\ d[2] <= clock - 1
      BY <2>2, Finalized
    <3>2. closed[d[1]][d[2]] \in Nat /\ d[2] \in Nat
      BY <3>1, Minutes DEF TypeOK
    <3>3. closed[d[1]][d[2]] = 0 => builders[d[1]][d[2]] >= onTime[d[1]][d[2]]
      BY <3>1 DEF Open
    <3> HIDE DEF Finalize
    <3> QED
      BY <1>2, <3>1, <3>2, <3>3
  <2> QED
    BY <1>5, <2>1, <2>2, BuiltEffect DEF OnTimeEventsTogether
<1> QED
  BY <1>3, <1>4, <1>5

-----------------------------------------------------------------------------
\* After a quiet swap.
LEMMA QuietedStep ==
  ASSUME TypeOK, Control, Quieted, [Next]_vars
  PROVE  Quieted'
<1> USE DEF Quieted
<1>1. ASSUME UNCHANGED <<pc, quiet, buffer>> PROVE Quieted'
  BY <1>1 DEF OthersQuiet
<1>2. ASSUME NEW f \in Flusher, FlushSwap(f) PROVE Quieted'
  <2>1. CASE f = "main"
    <3>1. pc' = [pc EXCEPT !["main"] = "insert"] /\ buffer' = {} /\ quiet' = OthersQuiet
      BY <1>2, <2>1 DEF FlushSwap, TakeBuffer
    <3>2. OthersQuiet => OthersQuiet'
      BY <3>1, Names DEF OthersQuiet, TypeOK, Proc, Adder
    <3>3. pc'["main"] = "insert"
      BY <3>1 DEF TypeOK, Proc, Adder
    <3> QED
      BY <3>1, <3>2, <3>3
  <2>2. CASE f # "main"
    <3>1. pc[f] = (IF f = "flushTicker" THEN "wait" ELSE "flush") /\ quiet' = quiet
      BY <1>2, <2>2 DEF FlushSwap, MayFlush
    <3>2. ~ quiet
      BY <2>2, <3>1 DEF OthersQuiet, Flusher
    <3> QED
      BY <3>1, <3>2
  <2> QED
    BY <2>1, <2>2
<1>3. ASSUME NEW f \in Flusher, FlushEnd(f) PROVE Quieted'
  <2>1. pc[f] = "insert" /\ UNCHANGED <<quiet, buffer>>
    BY <1>3 DEF FlushEnd, history
  <2>2. CASE f = "main"
    <3>1. pc' = [pc EXCEPT !["main"] = "closed"]
      BY <1>3, <2>2 DEF FlushEnd
    <3> QED
      BY <2>1, <3>1, Names DEF OthersQuiet, TypeOK, Proc, Adder
  <2>3. CASE f # "main"
    <3>1. ~ quiet
      BY <2>1, <2>3 DEF OthersQuiet, Flusher
    <3> QED
      BY <2>1, <3>1
  <2> QED
    BY <2>2, <2>3
<1>4. CASE Return
  <2>1. pc' = [pc EXCEPT !["main"] = "exit"] /\ UNCHANGED <<quiet, buffer>>
    BY <1>4 DEF Return, history
  <2> QED
    BY <2>1, Names DEF OthersQuiet, TypeOK, Proc, Adder
<1>5. CASE BarTickerFire \/ (\E s \in Symbol : BarTickerAdd(s)) \/ BarTickerRearm \/ BarTickerExit
           \/ FlushTickerExit \/ Signal \/ ShutdownFlushAll \/ (\E s \in Symbol : ShutdownAdd(s))
           \/ ShutdownFlush
  <2>1. ~ quiet
    BY <1>5 DEF OthersQuiet, BarTickerFire, BarTickerAdd, BarTickerRearm, BarTickerExit,
                FlushTickerExit, Signal, ShutdownFlushAll, ShutdownAdd, ShutdownFlush
  <2>2. quiet' = quiet
    BY <1>5 DEF BarTickerFire, BarTickerAdd, BarTickerRearm, BarTickerExit, FlushTickerExit,
                Signal, ShutdownFlushAll, ShutdownAdd, ShutdownFlush, history
  <2> QED
    BY <2>1, <2>2
<1>6. CASE Tick \/ (\E s \in Symbol, m \in Minute : ProcessEvent(s, m))
           \/ (\E up \in BOOLEAN : SetLiquidationFeedAvailable(up)) \/ ClientsClose
           \/ (\E f \in Flusher, s \in Symbol : FlushInsert(f, s))
           \/ Terminated \/ UNCHANGED vars
  BY <1>1, <1>6 DEF Tick, ProcessEvent, SetLiquidationFeedAvailable, ClientsClose, FlushInsert,
                    Terminated, vars, history
<1> QED
  BY <1>2, <1>3, <1>4, <1>5, <1>6 DEF Next, BarTickerStep, FlushStep

-----------------------------------------------------------------------------
\* The invariant.
LEMMA InitBars ==
  ASSUME Init
  PROVE  Bars = {}
<1>1. \A pl \in Places : At(pl) = {}
  <2> SUFFICES ASSUME NEW pl \in Places PROVE At(pl) = {}
    OBVIOUS
  <2>1. CASE \E p \in Adder : pl = <<"add", p>>
    BY <2>1, AtPlaces DEF Init
  <2>2. CASE \E f \in Flusher : pl = <<"taken", f>>
    BY <2>2, AtPlaces DEF Init
  <2>3. CASE pl \in {<<"buffer">>, <<"db">>, <<"failed">>}
    BY <2>3, AtPlaces DEF Init
  <2> QED
    BY <2>1, <2>2, <2>3, PlaceList
<1> QED
  BY <1>1, BarsAt

LEMMA InitInv ==
  ASSUME Init
  PROVE  IInv
<1>1. TypeOK
  <2>1. pc \in [Proc -> {"wait", "add", "flush", "insert", "idle", "exit", "run", "drain", "closed"}]
    BY DEF Init
  <2>2. clock \in Minute /\ armed \in Minute /\ budget \in 0..MaxEvents
    BY Minutes DEF Init, Minute
  <2> QED
    BY <2>1, <2>2 DEF Init, TypeOK
<1>2. Control /\ OneAsyncFlush
  BY Names DEF Init, Control, OneAsyncFlush, Proc, Adder, Flusher
<1>3. Bars = {}
  BY InitBars
<1>4. Numbered /\ OnTimeEventsTogether
  BY <1>3 DEF Numbered, OnTimeEventsTogether
<1>5. Apart
  BY <1>3, BarsAt DEF Apart
<1>6. Used /\ Open
  BY DEF Init, Used, Open
<1>7. Quieted
  BY DEF Init, Quieted
<1> QED
  BY <1>1, <1>2, <1>4, <1>5, <1>6, <1>7 DEF IInv

LEMMA StepInv ==
  ASSUME IInv, [Next]_vars
  PROVE  IInv'
<1>1. TypeOK /\ Control /\ OneAsyncFlush /\ Numbered /\ Used /\ Apart /\ Open
      /\ OnTimeEventsTogether /\ Quieted
  BY DEF IInv
<1>2. TypeOK' /\ Control' /\ OneAsyncFlush' /\ Quieted'
  BY <1>1, TypeStep, ControlStep, AsyncStep, QuietedStep
<1>3. \/ Still
      \/ \E src, dst \in Places, bars \in SUBSET Bars : Move(src, dst, bars)
      \/ \E p \in Adder : Built(p)
  BY <1>1, StepKinds
<1>4. Numbered' /\ Used' /\ Apart' /\ Open' /\ OnTimeEventsTogether'
  BY <1>1, <1>2, <1>3, NumberedStep, UsedStep, ApartStep, OpenStep, OnTimeStep
<1> QED
  BY <1>2, <1>4 DEF IInv

THEOREM Invariance == Spec => []IInv
BY InitInv, StepInv, PTL DEF Spec

\* The variables keep their types: in particular every bar anywhere is a bar
\* of a known symbol and minute.
THEOREM TypeCorrect == Spec => []TypeOK
<1>1. IInv => TypeOK
  BY DEF IInv
<1> QED
  BY <1>1, Invariance, PTL

\* At most one asynchronous flush runs, and Flusher.flushing says whether one
\* does, however many goroutines Add starts over time.
THEOREM AsyncFlushAlone == Spec => []OneAsyncFlush
<1>1. IInv => OneAsyncFlush
  BY DEF IInv
<1> QED
  BY <1>1, Invariance, PTL

\* Every bar FlushAll built is in exactly one place: no interleaving of the
\* tickers, the flushes and Shutdown loses one or holds one twice.
THEOREM BarsInOnePlace == Spec => []EveryBarInOnePlace
<1>1. ASSUME Used, Apart PROVE EveryBarInOnePlace
  <2>1. SUFFICES ASSUME NEW s \in Symbol, NEW m \in Minute, NEW k \in 1..closed[s][m]
                 PROVE  \E pl \in Places :
                          /\ \E b \in At(pl) : Id(b) = <<s, m, k>>
                          /\ \A q \in Places \ {pl} : \A b \in At(q) : Id(b) # <<s, m, k>>
    BY DEF EveryBarInOnePlace
  <2>2. PICK b \in Bars : Id(b) = <<s, m, k>>
    BY <1>1 DEF Used
  <2>3. PICK pl \in Places : b \in At(pl)
    BY BarsAt
  <2>4. \A q \in Places \ {pl} : \A c \in At(q) : Id(c) # <<s, m, k>>
    BY <1>1, <2>2, <2>3 DEF Apart
  <2> QED
    BY <2>2, <2>3, <2>4
<1>2. IInv => EveryBarInOnePlace
  BY <1>1 DEF IInv
<1> QED
  BY <1>2, Invariance, PTL

\* FlushAll builds only minutes that are over, so the first bar of a minute
\* has every event that came in time.
THEOREM FirstBarHasOnTimeEvents == Spec => []OnTimeEventsTogether
<1>1. IInv => OnTimeEventsTogether
  BY DEF IInv
<1> QED
  BY <1>1, Invariance, PTL

\* If the tickers have ended and no flush is under way when Shutdown swaps the
\* buffer, every bar is inserted or was refused when main returns.
THEOREM QuietShutdown == Spec => []QuietShutdownKeepsAll
<1>1. ASSUME Control, Quieted, ~ Running, quiet PROVE Bars = db \cup failed
  <2>1. pc["main"] = "exit" /\ OthersQuiet /\ buffer = {}
    BY <1>1 DEF Running, Quieted
  <2>2. \A p \in Adder : toAdd[p] = {}
    BY <1>1, <2>1 DEF Control, OthersQuiet, Adder
  <2>3. \A f \in Flusher : taken[f] = {}
    BY <1>1, <2>1 DEF Control, OthersQuiet, Flusher
  <2>4. ASSUME NEW pl \in Places, NEW b \in At(pl) PROVE b \in db \cup failed
    BY <2>1, <2>2, <2>3, <2>4, PlaceList, AtPlaces
  <2> QED
    BY <2>4, BarsAt, PlaceList, AtPlaces
<1>2. IInv => QuietShutdownKeepsAll
  BY <1>1 DEF IInv, QuietShutdownKeepsAll
<1> QED
  BY <1>2, Invariance, PTL

\* What the fair specification of the runs allows, Spec allows: the theorems
\* hold of it too.
LEMMA FairIsSpec == FairSpec => Spec
<1>1. PromptNext => Next
  BY DEF PromptNext
<1> QED
  BY <1>1, PTL DEF FairSpec, Spec

-----------------------------------------------------------------------------
\* The ledger.
LEMMA LedgerStep ==
  ASSUME IInv, IInv', [Next]_vars
  PROVE  [Ledger!Next]_(Ledger!vars)
<1>1. TypeOK /\ Control /\ Apart /\ Apart'
  BY DEF IInv
<1>2. \/ Still
      \/ \E src, dst \in Places, bars \in SUBSET Bars : Move(src, dst, bars)
      \/ \E p \in Adder : Built(p)
  BY <1>1, StepKinds
<1>3. CASE Still
  <2>1. Bars' = Bars /\ db' = db /\ failed' = failed
    BY <1>3 DEF Still, Bars, Places, At
  <2> QED
    BY <2>1 DEF Ledger!vars
<1>4. ASSUME NEW src \in Places, NEW dst \in Places, NEW bars \in SUBSET Bars, Move(src, dst, bars)
      PROVE  Ledger!Next
  <2>1. Bars' = Bars
    BY <1>4, MoveBars
  <2>2. /\ db' = db \/ db' = db \cup bars
        /\ failed' = failed \/ failed' = failed \cup bars
    <3>1. \A pl \in Places \ {src} : At(pl)' = At(pl) \/ At(pl)' = At(pl) \cup bars
      BY <1>4 DEF Move
    <3>2. <<"db">> \in Places \ {src} /\ <<"failed">> \in Places \ {src}
      BY <1>4, PlaceList DEF Move
    <3> QED
      BY <3>1, <3>2, AtPlaces
  <2>3. \A b \in bars : b \in Bars /\ b \notin db /\ b \notin failed
    <3>1. \A b \in bars : b \in At(src)
      BY <1>4 DEF Move
    <3>2. src # <<"db">> /\ src # <<"failed">>
      BY <1>4 DEF Move
    <3> QED
      BY <1>1, <3>1, <3>2, PlaceList, AtPlaces DEF Apart
  <2>4. db' \cap failed' = {}
    <3>1. \A b \in At(<<"db">>)' : b \notin At(<<"failed">>)'
      BY <1>1, PlaceList, PlacesDiffer DEF Apart, Places, Id
    <3> QED
      BY <3>1, AtPlaces
  <2>5. Ledger!Settle
    BY <2>1, <2>2, <2>3, <2>4 DEF Ledger!Settle
  <2> QED
    BY <2>5 DEF Ledger!Next
<1>5. ASSUME NEW p \in Adder, Built(p) PROVE Ledger!Next
  <2>1. \A b \in Bars : b \in Bars'
    BY <1>1, <1>5, BuiltEffect
  <2>2. ASSUME NEW b \in Bars', NEW c \in Bars', Id(b) = Id(c) PROVE b = c
    <3>1. PICK x \in Places : b \in At(x)'
      BY <2>2, BarsAt
    <3>2. PICK y \in Places : c \in At(y)'
      BY <2>2, BarsAt
    <3> QED
      BY <1>1, <2>2, <3>1, <3>2 DEF Apart, Places, Id
  <2>3. db' = db /\ failed' = failed
    BY <1>5 DEF Built
  <2>4. Ledger!Build
    BY <2>1, <2>2, <2>3 DEF Ledger!Build
  <2> QED
    BY <2>4 DEF Ledger!Next
<1> QED
  BY <1>2, <1>3, <1>4, <1>5

\* The live path implements the ledger: the whole system of readers, tickers,
\* flushes and Shutdown only ever builds new bars and settles each one once.
THEOREM ImplementsLedger == Spec => KeepsLedger
<1>1. Init => Ledger!Init
  <2> SUFFICES ASSUME Init PROVE Ledger!Init
    OBVIOUS
  <2> QED
    BY InitBars DEF Init, Ledger!Init
<1>2. IInv /\ IInv' /\ [Next]_vars => [Ledger!Next]_(Ledger!vars)
  BY LedgerStep
<1> QED
  BY <1>1, <1>2, Invariance, PTL DEF Spec, KeepsLedger, Ledger!Spec
===============================================================================
