---------------------------- MODULE PipelineProofs ----------------------------
(***************************************************************************)
(* Proofs about Pipeline: its inductive invariant, in five parts that the  *)
(* actions disturb for different reasons, and from it the types and limits *)
(* of the queues, why a plugin is killed, the order of the ticks, and that *)
(* every relay gets the point that Broadcast took. On top of it FlightInv  *)
(* gives the order of the points that a plugin prints, and SendInv that    *)
(* the server reads what was sent.                                         *)
(***************************************************************************)
EXTENDS Pipeline, SeqLemmas, FiniteSetTheorems

\* The parts of the invariant.
Places ==
    /\ HandInv /\ HeapInv
    /\ mpc \in {"read", "point", "error", "eof", "done"} /\ mobj \in Objs \cup {None}
    /\ dpc \in {"select", "put", "gone"} /\ dobj \in Objs \cup {None}
    /\ w \in Seq(Objs) /\ Len(w) <= MaxQueue
    /\ xpc \in {"wait", "int", "map", "entry", "nextentry"} /\ xobj \in Objs \cup {None}
    /\ bpc \in {"next", "submit", "drop"} /\ bobj \in Objs \cup {None}

Decoding ==
    /\ DecoderInv /\ Cardinality(DOMAIN dec.bySeries) <= MaxSeries
    /\ dec.countdown \in 1..CleanupEveryN

Queues ==
    /\ QueueInv /\ \A r \in Relays : Len(queue[r]) <= MaxRelayQueue
    /\ bi \in DOMAIN RelaySeq /\ xleft \subseteq errors /\ errors \subseteq Relays
    /\ Len(hold) <= 1 /\ server \in 0..MaxServerQueue

LEMMA Parts == IInv <=> Places /\ TickInv /\ IdleInv /\ Decoding /\ Queues
  <1>1. TickInv => tick.armed \in BOOLEAN /\ tick.tt \in Nat /\ tick.last \in Nat
    BY DEF TickInv
  <1>2. IdleInv => timer.at \in Nat \cup {None} /\ timer.fired \in BOOLEAN
    BY DEF IdleInv
  <1> QED BY <1>1, <1>2 DEF IInv, TypeOK, Places, Decoding, Queues

-------------------------------------------------------------------------------
(* Ticks.                                                                    *)

LEMMA TickStep ==
    ASSUME TickInv, [Next]_vars
    PROVE  TickInv'
  <1> DEFINE T == [tt : Nat, armed : BOOLEAN, last : Nat]
  <1>1. /\ clock \in Nat /\ back \in Nat /\ budget \in Bounds /\ Start \in Nat
        /\ Start <= clock /\ back + budget.back < Start
        /\ tick \in T /\ skewed \in BOOLEAN
        /\ tick.armed /\ ~skewed => tick.last < tick.tt /\ tick.tt <= clock - back
    BY PipelineAssumption DEF TickInv, Now
  <1>2. /\ budget.lines \in Nat /\ budget.restarts \in Nat /\ budget.seconds \in Nat
        /\ budget.back \in Nat /\ budget.ticks \in Nat
    BY <1>1 DEF Bounds
  <1>3. ASSUME UNCHANGED <<boundVars, tickVars>> PROVE TickInv'
    BY <1>1, <1>3 DEF boundVars, tickVars, TickInv, Now
  <1>4. ASSUME NEW line \in Lines, ReadLine(line) PROVE TickInv'
    <2>1. /\ budget.lines > 0 /\ budget' = [budget EXCEPT !.lines = @ - 1]
          /\ UNCHANGED <<clock, back, tick, skewed>>
      BY <1>4 DEF ReadLine, tickVars
    <2>2. budget' \in Bounds /\ budget'.back = budget.back
      BY <1>1, <1>2, <2>1 DEF Bounds
    <2> QED BY <1>1, <2>1, <2>2 DEF TickInv, Now
  <1>5. CASE StartProcess
    <2>1. /\ budget.restarts > 0 /\ budget' = [budget EXCEPT !.restarts = @ - 1]
          /\ UNCHANGED <<clock, back, tick, skewed>>
      BY <1>5 DEF StartProcess, tickVars
    <2>2. budget' \in Bounds /\ budget'.back = budget.back
      BY <1>1, <1>2, <2>1 DEF Bounds
    <2> QED BY <1>1, <2>1, <2>2 DEF TickInv, Now
  <1>6. CASE Advance
    <2>1. /\ budget.seconds > 0 /\ budget' = [budget EXCEPT !.seconds = @ - 1]
          /\ clock' = clock + 1 /\ UNCHANGED <<back, tick, skewed>>
      BY <1>6 DEF Advance, tickVars
    <2>2. budget' \in Bounds /\ budget'.back = budget.back
      BY <1>1, <1>2, <2>1 DEF Bounds
    <2>3. tick.tt \in Nat
      BY <1>1
    <2> QED BY <1>1, <2>1, <2>2, <2>3 DEF TickInv, Now
  <1>7. CASE SetClockBack
    <2>1. /\ budget.back > 0 /\ budget' = [budget EXCEPT !.back = @ - 1]
          /\ back' = back + 1 /\ skewed' = (skewed \/ tick.armed) /\ UNCHANGED <<clock, tick>>
      BY <1>7 DEF SetClockBack
    <2>2. budget' \in Bounds /\ budget'.back = budget.back - 1
      BY <1>1, <1>2, <2>1 DEF Bounds
    <2>3. back' \in Nat /\ back' + budget'.back < Start
      BY <1>1, <1>2, <2>1, <2>2
    <2>4. skewed' \in BOOLEAN /\ ~(tick'.armed /\ ~skewed')
      BY <1>1, <2>1
    <2> QED BY <1>1, <2>1, <2>2, <2>3, <2>4 DEF TickInv
  <1>8. CASE OSTick
    <2>1. /\ budget.ticks > 0 /\ budget' = [budget EXCEPT !.ticks = @ - 1]
          /\ tick' = [tick EXCEPT !.tt = clock - back, !.armed = tick.armed \/ clock - back > tick.last]
          /\ UNCHANGED <<clock, back, skewed>>
      BY <1>8 DEF OSTick, Now
    <2>2. budget' \in Bounds /\ budget'.back = budget.back
      BY <1>1, <1>2, <2>1 DEF Bounds
    <2>3. clock - back \in Nat
      BY <1>1, <1>2
    <2> DEFINE a == tick.armed \/ clock - back > tick.last
    <2>4. a \in BOOLEAN /\ (a /\ ~skewed => clock - back > tick.last)
      BY <1>1, <2>3
    <2> HIDE DEF a
    <2>5. tick' \in T /\ tick'.tt = clock - back /\ tick'.armed = a /\ tick'.last = tick.last
      BY <1>1, <2>1, <2>3, <2>4 DEF a
    <2> QED BY <1>1, <2>1, <2>2, <2>3, <2>4, <2>5 DEF TickInv, Now
  <1>9. CASE ExportTick
    <2>1. /\ tick' = [tick EXCEPT !.armed = FALSE, !.last = tick.tt]
          /\ UNCHANGED <<clock, back, budget, skewed>>
      BY <1>9 DEF ExportTick, boundVars
    <2>2. tick' \in T /\ ~tick'.armed
      BY <1>1, <2>1
    <2> QED BY <1>1, <2>1, <2>2 DEF TickInv
  <1>10. CASE ReadEOF \/ TakePoint \/ TakeError \/ Timeout \/ Enqueue \/ ExportMap
    BY <1>3, <1>10 DEF ReadEOF, TakePoint, TakeError, Timeout, Enqueue, ExportMap
  <1>11. CASE NextFromPlugins \/ NextFromSelf \/ Submit \/ Drop
    BY <1>3, <1>11 DEF NextFromPlugins, NextFromSelf, Submit, Drop
  <1>12. CASE (\E r \in Relays : Sent(r)) \/ ServerRead \/ ServerEnqueue \/ ServerBroadcast
    BY <1>3, <1>12 DEF Sent, ServerRead, ServerEnqueue, ServerBroadcast
  <1>13. CASE UNCHANGED vars
    BY <1>3, <1>13 DEF vars
  <1> QED
    BY <1>4, <1>5, <1>6, <1>7, <1>8, <1>9, <1>10, <1>11, <1>12, <1>13 DEF Next

-------------------------------------------------------------------------------
(* The idle timer.                                                           *)

LEMMA MaxOfTwo ==
    ASSUME NEW a \in Int, NEW b \in Int
    PROVE  Max({a, b}) \in {a, b} /\ Max({a, b}) >= a /\ Max({a, b}) >= b
  <1> DEFINE P(x) == x \in {a, b} /\ \A y \in {a, b} : x >= y
  <1>1. \E x : P(x)
    <2>1. CASE a >= b
      BY <2>1
    <2>2. CASE ~(a >= b)
      <3>1. P(b)
        BY <2>2
      <3> QED BY <3>1
    <2> QED BY <2>1, <2>2
  <1>2. Max({a, b}) = CHOOSE x \in {a, b} : \A y \in {a, b} : x >= y
    BY DEF Max
  <1> DEFINE m == CHOOSE x : P(x)
  <1>3. P(m)
    <2> HIDE DEF P
    <2> QED BY <1>1
  <1>4. Max({a, b}) = m
    BY <1>2
  <1> QED BY <1>3, <1>4

\* Reset: what was late is forgotten unless a tick is waiting.
LEMMA ResetIdle ==
    ASSUME TickInv, IdleInv, dpc # "gone", ResetTimer, UNCHANGED <<clock, lastLine, killed>>
    PROVE  IdleInv'
  <1>1. /\ timer \in [at : Nat \cup {None}, fired : BOOLEAN] /\ clock \in Nat /\ IdleTimeout \in Nat
        /\ lastLine \in Nat /\ lastLine <= clock /\ gap \in Nat /\ slow \in BOOLEAN
        /\ killed = FALSE /\ (timer.fired => Late)
    BY PipelineAssumption DEF TickInv, IdleInv
  <1>2. /\ timer' = [timer EXCEPT !.at = clock + IdleTimeout]
        /\ slow' = (slow /\ timer.fired) /\ gap' = IF timer.fired THEN gap ELSE 0
    BY DEF ResetTimer
  <1>3. /\ timer' \in [at : Nat \cup {None}, fired : BOOLEAN]
        /\ timer'.at = clock + IdleTimeout /\ timer'.fired = timer.fired
    BY <1>1, <1>2
  <1>4. lastLine' + IdleTimeout <= timer'.at
    BY <1>1, <1>3
  <1>5. slow' \in BOOLEAN /\ gap' \in Nat
    BY <1>1, <1>2
  <1>6. timer'.fired => Late'
    <2> SUFFICES ASSUME timer.fired PROVE Late'
      BY <1>3
    <2>1. slow' = slow /\ gap' = gap /\ Late
      BY <1>1, <1>2
    <2> QED BY <2>1 DEF Late
  <1> QED BY <1>1, <1>3, <1>4, <1>5, <1>6 DEF IdleInv

LEMMA IdleStep ==
    ASSUME TickInv, IdleInv, HandInv, [Next]_vars
    PROVE  IdleInv'
  <1> DEFINE T == [at : Nat \cup {None}, fired : BOOLEAN]
  <1>1. /\ timer \in T /\ clock \in Nat /\ IdleTimeout \in Nat
        /\ lastLine \in Nat /\ lastLine <= clock /\ gap \in Nat /\ slow \in BOOLEAN
        /\ killed \in BOOLEAN /\ (timer.fired => Late) /\ (killed => dpc = "gone" /\ Late)
    BY PipelineAssumption DEF TickInv, IdleInv
  <1>2. timer.at # None => \/ slow \/ lastLine + IdleTimeout <= timer.at
                           \/ mpc # "read" \/ dpc = "put"
    BY DEF IdleInv
  <1>3. ASSUME UNCHANGED <<clock, mpc, dpc, timer, idleVars>> PROVE IdleInv'
    BY <1>1, <1>2, <1>3 DEF IdleInv, Late, idleVars
  <1>4. ASSUME NEW line \in Lines, ReadLine(line) PROVE IdleInv'
    <2>1. /\ mpc = "read" /\ mpc' # "read" /\ UNCHANGED <<clock, dpc, timer, slow, killed>>
          /\ lastLine' = clock /\ gap' = Max({gap, clock - lastLine})
      BY <1>4 DEF ReadLine
    <2>2. gap' \in Nat /\ gap' >= gap /\ gap' >= clock - lastLine
      <3>1. clock - lastLine \in Nat /\ gap \in Int /\ clock - lastLine \in Int
        BY <1>1
      <3>2. /\ Max({gap, clock - lastLine}) \in {gap, clock - lastLine}
            /\ Max({gap, clock - lastLine}) >= gap
            /\ Max({gap, clock - lastLine}) >= clock - lastLine
        BY <3>1, MaxOfTwo
      <3> QED BY <1>1, <2>1, <3>1, <3>2
    <2>3. Late => Late'
      BY <1>1, <2>1, <2>2 DEF Late
    <2> QED BY <1>1, <2>1, <2>2, <2>3 DEF IdleInv
  <1>5. CASE ReadEOF
    <2>1. mpc' = "eof" /\ UNCHANGED <<clock, dpc, timer, lastLine, gap, slow, killed>>
      BY <1>5 DEF ReadEOF, boundVars, idleVars
    <2> QED BY <1>1, <2>1 DEF IdleInv, Late
  <1>6. CASE TakePoint
    <2>1. /\ dpc = "select" /\ dpc' = "put"
          /\ UNCHANGED <<clock, timer, lastLine, gap, slow, killed>>
      BY <1>6 DEF TakePoint, boundVars, idleVars
    <2> QED BY <1>1, <2>1 DEF IdleInv, Late
  <1>7. CASE TakeError
    <2>1. dpc = "select" /\ UNCHANGED <<clock, lastLine, killed>>
      BY <1>7 DEF TakeError, boundVars
    <2>2. CASE ResetTimer
      BY <2>1, <2>2, ResetIdle
    <2>3. CASE ~ResetTimer
      <3>1. mpc' = "done" /\ dpc' = "gone" /\ UNCHANGED <<timer, slow, gap>>
        BY <1>7, <2>3 DEF TakeError
      <3> QED BY <1>1, <2>1, <3>1 DEF IdleInv, Late
    <2> QED BY <2>2, <2>3
  <1>8. CASE Timeout
    <2>1. /\ timer.fired /\ timer' = [timer EXCEPT !.fired = FALSE]
          /\ dpc' = "gone" /\ killed' = TRUE /\ mpc' = "done"
          /\ UNCHANGED <<clock, lastLine, gap, slow>>
      BY <1>8 DEF Timeout, boundVars
    <2>2. timer' \in T /\ ~timer'.fired
      BY <1>1, <2>1
    <2> QED BY <1>1, <2>1, <2>2 DEF IdleInv, Late
  <1>9. CASE Enqueue
    <2>1. dpc = "put" /\ ResetTimer /\ UNCHANGED <<clock, lastLine, killed>>
      BY <1>9 DEF Enqueue, boundVars
    <2> QED BY <2>1, ResetIdle
  <1>10. CASE StartProcess
    <2>1. /\ timer' = [at |-> clock + IdleTimeout, fired |-> FALSE] /\ lastLine' = clock
          /\ gap' = 0 /\ slow' = FALSE /\ killed' = FALSE /\ UNCHANGED clock
      BY <1>10 DEF StartProcess, NewTimer
    <2>2. /\ timer' \in T /\ ~timer'.fired /\ lastLine' + IdleTimeout <= timer'.at
      BY <1>1, <2>1
    <2>3. lastLine' \in Nat /\ lastLine' <= clock' /\ gap' \in Nat
      BY <1>1, <2>1
    <2> QED BY <2>1, <2>2, <2>3 DEF IdleInv
  <1>11. CASE Advance
    <2>1. /\ clock' = clock + 1 /\ slow' = (slow \/ dpc = "put" \/ mpc # "read")
          /\ timer' = IF timer.at # None /\ timer.at <= clock'
                      THEN [at |-> None, fired |-> TRUE] ELSE timer
          /\ UNCHANGED <<mpc, dpc, lastLine, gap, killed>>
      BY <1>11 DEF Advance
    <2>2. Late => Late'
      BY <1>1, <2>1 DEF Late
    <2>3. slow' \in BOOLEAN /\ clock' \in Nat /\ lastLine' <= clock'
      BY <1>1, <2>1
    <2>4. CASE timer.at # None /\ timer.at <= clock'
      <3>1. timer' \in T /\ timer'.at = None /\ timer.at \in Nat
        BY <1>1, <2>1, <2>4
      <3>2. Late'
        <4>1. CASE slow \/ mpc # "read" \/ dpc = "put"
          BY <2>1, <4>1 DEF Late
        <4>2. CASE lastLine + IdleTimeout <= timer.at
          <5>1. clock' - lastLine' >= IdleTimeout
            BY <1>1, <2>1, <2>3, <2>4, <3>1, <4>2
          <5> QED BY <5>1 DEF Late
        <4> QED BY <1>2, <2>4, <4>1, <4>2
      <3> QED BY <1>1, <2>1, <2>2, <2>3, <3>1, <3>2 DEF IdleInv
    <2>5. CASE ~(timer.at # None /\ timer.at <= clock')
      <3>1. timer' = timer
        BY <2>1, <2>5
      <3> QED BY <1>1, <1>2, <2>1, <2>2, <2>3, <3>1 DEF IdleInv
    <2> QED BY <2>4, <2>5
  <1>12. CASE SetClockBack \/ OSTick \/ ExportTick \/ ExportMap
    BY <1>3, <1>12 DEF SetClockBack, OSTick, ExportTick, ExportMap, boundVars, decodeVars
  <1>13. CASE NextFromPlugins \/ NextFromSelf \/ Submit \/ Drop
    BY <1>3, <1>13 DEF NextFromPlugins, NextFromSelf, Submit, Drop, boundVars, decodeVars
  <1>14. CASE (\E r \in Relays : Sent(r)) \/ ServerRead \/ ServerEnqueue \/ ServerBroadcast
    BY <1>3, <1>14 DEF Sent, ServerRead, ServerEnqueue, ServerBroadcast, boundVars, decodeVars
  <1>15. CASE UNCHANGED vars
    BY <1>3, <1>15 DEF vars, boundVars, decodeVars
  <1> QED
    BY <1>4, <1>5, <1>6, <1>7, <1>8, <1>9, <1>10, <1>11, <1>12, <1>13, <1>14, <1>15 DEF Next

-------------------------------------------------------------------------------
(* The decoder.                                                              *)

\* What Decode does to the decoder: no more than MaxSeries series are remembered.
LEMMA DecodeDecoder ==
    ASSUME NEW d, NEW line, NEW now,
           d = [bySeries |-> d.bySeries, countdown |-> d.countdown],
           IsFiniteSet(DOMAIN d.bySeries), Cardinality(DOMAIN d.bySeries) <= MaxSeries,
           d.countdown \in 1..CleanupEveryN
    PROVE  LET e == Decode(d, line, now).dec
           IN  /\ e = [bySeries |-> e.bySeries, countdown |-> e.countdown]
               /\ IsFiniteSet(DOMAIN e.bySeries) /\ Cardinality(DOMAIN e.bySeries) <= MaxSeries
               /\ e.countdown \in 1..CleanupEveryN
  <1> DEFINE Good(x) == /\ x = [bySeries |-> x.bySeries, countdown |-> x.countdown]
                        /\ IsFiniteSet(DOMAIN x.bySeries)
                        /\ Cardinality(DOMAIN x.bySeries) <= MaxSeries
                        /\ x.countdown \in 1..CleanupEveryN
             p  == unmarshalText(line)
             d1 == cleanup(d, now)
             s  == appendSeries(p)
             e  == Decode(d, line, now).dec
  <1>1. MaxSeries \in Nat /\ CleanupEveryN \in Nat \ {0}
    BY DecoderAssumption
  <1>2. Good(d)
    OBVIOUS
  <1>3. Good(d1)
    <2>1. CASE d.countdown > 1
      <3>1. d1 = [d EXCEPT !.countdown = @ - 1]
        BY <2>1 DEF cleanup
      <3>2. d1 = [bySeries |-> d.bySeries, countdown |-> d.countdown - 1]
        BY <1>2, <3>1
      <3>3. d.countdown - 1 \in 1..CleanupEveryN
        BY <1>1, <1>2, <2>1
      <3> QED BY <1>2, <3>2, <3>3
    <2>2. CASE ~(d.countdown > 1)
      <3> DEFINE D == {x \in DOMAIN d.bySeries : d.bySeries[x] > now - MaxAge}
                 f == Restrict(d.bySeries, D)
      <3>1. d1 = [bySeries |-> f, countdown |-> CleanupEveryN]
        BY <2>2 DEF cleanup
      <3>2. DOMAIN f = D
        BY DEF Restrict
      <3>3. IsFiniteSet(D) /\ Cardinality(D) <= Cardinality(DOMAIN d.bySeries)
        BY FS_Subset
      <3>4. Cardinality(D) \in Nat /\ Cardinality(DOMAIN d.bySeries) \in Nat
        BY <3>3, FS_CardinalityType
      <3> HIDE DEF f, D
      <3>5. d1.bySeries = f /\ d1.countdown = CleanupEveryN
        BY <3>1
      <3>6. Cardinality(DOMAIN f) <= MaxSeries
        BY <1>1, <1>2, <3>2, <3>3, <3>4
      <3> QED BY <1>1, <3>1, <3>2, <3>3, <3>5, <3>6
    <2> QED BY <2>1, <2>2
  <1> HIDE DEF d1
  <1>4. e \in {d, d1, [d1 EXCEPT !.bySeries = Assigned(@, s, p.time)]}
    BY DEF Decode, d1
  <1>5. ASSUME InOrder(d1, p) PROVE Good([d1 EXCEPT !.bySeries = Assigned(@, s, p.time)])
    <2> DEFINE f == Assigned(d1.bySeries, s, p.time)
               D == DOMAIN d1.bySeries
    <2>1. [d1 EXCEPT !.bySeries = Assigned(@, s, p.time)] = [bySeries |-> f, countdown |-> d1.countdown]
      BY <1>3
    <2>2. DOMAIN f = D \cup {s}
      BY DEF Assigned
    <2>3. IsFiniteSet(D \cup {s})
      BY <1>3, FS_AddElement
    <2>4. Cardinality(D \cup {s}) <= MaxSeries
      <3>1. CASE s \in D
        <4>1. D \cup {s} = D
          BY <3>1
        <4> QED BY <1>3, <4>1
      <3>2. CASE s \notin D
        <4>1. Cardinality(D) # MaxSeries
          BY <1>5, <3>2 DEF InOrder
        <4>2. Cardinality(D \cup {s}) = Cardinality(D) + 1 /\ Cardinality(D) \in Nat
          BY <1>3, <3>2, FS_AddElement, FS_CardinalityType
        <4> QED BY <1>1, <1>3, <4>1, <4>2
      <3> QED BY <3>1, <3>2
    <2> HIDE DEF f, D
    <2> QED BY <1>3, <2>1, <2>2, <2>3, <2>4
  <1>6. e \in {d, d1} \/ InOrder(d1, p)
    BY DEF Decode, d1
  <1>7. Good(e)
    <2> HIDE DEF Good, e, s, p
    <2> QED BY <1>2, <1>3, <1>4, <1>5, <1>6
  <1> QED BY <1>7

LEMMA DecodingStep ==
    ASSUME Decoding, [Next]_vars
    PROVE  Decoding'
  <1>1. ASSUME UNCHANGED dec PROVE Decoding'
    BY <1>1 DEF Decoding, DecoderInv
  <1>2. ASSUME NEW line \in Lines, ReadLine(line) PROVE Decoding'
    <2>1. dec' = Decode(dec, line, Now).dec
      BY <1>2 DEF ReadLine
    <2> QED BY <2>1, DecodeDecoder DEF Decoding, DecoderInv
  <1>3. CASE StartProcess
    <2>1. dec' = [bySeries |-> <<>>, countdown |-> CleanupEveryN]
      BY <1>3 DEF StartProcess, NewDecoder
    <2>2. DOMAIN dec'.bySeries = {} /\ dec'.countdown = CleanupEveryN
      BY <2>1
    <2>3. IsFiniteSet({}) /\ Cardinality({}) = 0
      BY FS_EmptySet
    <2>4. Cardinality({}) <= MaxSeries /\ CleanupEveryN \in 1..CleanupEveryN
      BY <2>3, DecoderAssumption
    <2> QED BY <2>1, <2>2, <2>3, <2>4 DEF Decoding, DecoderInv
  <1>4. CASE ReadEOF \/ TakePoint \/ TakeError \/ Timeout \/ Enqueue \/ Advance
    BY <1>1, <1>4 DEF ReadEOF, TakePoint, TakeError, Timeout, Enqueue, Advance
  <1>5. CASE SetClockBack \/ OSTick \/ ExportTick \/ ExportMap
    BY <1>1, <1>5 DEF SetClockBack, OSTick, ExportTick, ExportMap, decodeVars
  <1>6. CASE NextFromPlugins \/ NextFromSelf \/ Submit \/ Drop
    BY <1>1, <1>6 DEF NextFromPlugins, NextFromSelf, Submit, Drop, decodeVars
  <1>7. CASE (\E r \in Relays : Sent(r)) \/ ServerRead \/ ServerEnqueue \/ ServerBroadcast
    BY <1>1, <1>7 DEF Sent, ServerRead, ServerEnqueue, ServerBroadcast, decodeVars
  <1>8. CASE UNCHANGED vars
    BY <1>1, <1>8 DEF vars, decodeVars
  <1> QED
    BY <1>2, <1>3, <1>4, <1>5, <1>6, <1>7, <1>8 DEF Next

-------------------------------------------------------------------------------
(* The queues of the relays and of the server.                               *)

LEMMA QueueAppend ==
    ASSUME NEW q, q \in Seq(Range(q)), NEW e
    PROVE  /\ Append(q, e) \in Seq(Range(Append(q, e)))
           /\ Len(Append(q, e)) = Len(q) + 1 /\ Len(q) \in Nat
           /\ Last(Append(q, e)) = e
  <1> DEFINE S == Range(q) \cup {e}
  <1>1. q \in Seq(S)
    <2>1. q \in [1..Len(q) -> Range(q)] /\ Len(q) \in Nat
      BY LenProperties
    <2>2. q \in [1..Len(q) -> S]
      BY <2>1
    <2> QED BY <2>1, <2>2, SeqDef
  <1> HIDE DEF S
  <1>2. e \in S
    BY DEF S
  <1>3. Append(q, e) \in Seq(S) /\ Len(Append(q, e)) = Len(q) + 1 /\ Append(q, e)[Len(q) + 1] = e
        /\ Len(q) \in Nat
    BY <1>1, <1>2, AppendProperties, LenProperties
  <1>4. Append(q, e) \in Seq(Range(Append(q, e)))
    BY <1>3, SeqOfRange
  <1> QED BY <1>3, <1>4 DEF Last

LEMMA QueueTail ==
    ASSUME NEW q, q \in Seq(Range(q)), q # <<>>
    PROVE  /\ Tail(q) \in Seq(Range(Tail(q)))
           /\ Len(Tail(q)) = Len(q) - 1 /\ Len(q) \in Nat
  <1> DEFINE S == Range(q)
  <1> HIDE DEF S
  <1>1. q \in Seq(S)
    BY DEF S
  <1>2. Tail(q) \in Seq(S) /\ Len(Tail(q)) = Len(q) - 1 /\ Len(q) \in Nat
    BY <1>1, HeadTailProperties, EmptySeq, LenProperties
  <1> QED BY <1>2, SeqOfRange

LEMMA RelayIndex ==
    /\ Relays = {RelaySeq[i] : i \in DOMAIN RelaySeq} /\ DOMAIN RelaySeq = 1..Len(RelaySeq)
    /\ Len(RelaySeq) \in Nat /\ 1 \in DOMAIN RelaySeq /\ Aggregator \in Relays
  <1>1. RelaySeq \in Seq(Range(RelaySeq)) /\ Aggregator \in Range(RelaySeq)
    BY PipelineAssumption
  <1>2. DOMAIN RelaySeq = 1..Len(RelaySeq) /\ Len(RelaySeq) \in Nat
    BY <1>1, LenProperties
  <1>3. Relays = {RelaySeq[i] : i \in DOMAIN RelaySeq}
    BY DEF Relays, Range
  <1>4. PICK i \in DOMAIN RelaySeq : Aggregator = RelaySeq[i]
    BY <1>1, <1>3 DEF Relays
  <1> QED BY <1>1, <1>2, <1>3, <1>4 DEF Relays

\* Putting into or taking from the queue of one relay.
LEMMA QueueChange ==
    ASSUME QueueInv, \A r \in Relays : Len(queue[r]) <= MaxRelayQueue,
           NEW r \in Relays, NEW q,
           q \in Seq(Range(q)), Len(q) <= MaxRelayQueue,
           queue' = [queue EXCEPT ![r] = q]
    PROVE  QueueInv' /\ \A x \in Relays : Len(queue'[x]) <= MaxRelayQueue
  BY DEF QueueInv

LEMMA QueuesStep ==
    ASSUME Queues, [Next]_vars
    PROVE  Queues'
  <1>1. /\ QueueInv /\ \A r \in Relays : Len(queue[r]) <= MaxRelayQueue
        /\ bi \in DOMAIN RelaySeq /\ xleft \subseteq errors /\ errors \subseteq Relays
        /\ Len(hold) <= 1 /\ server \in 0..MaxServerQueue
        /\ MaxRelayQueue \in Nat /\ MaxServerQueue \in Nat
    BY PipelineAssumption DEF Queues
  <1>2. ASSUME UNCHANGED <<queue, bi, xleft, errors, hold, server>> PROVE Queues'
    BY <1>1, <1>2 DEF Queues, QueueInv
  <1>3. CASE ExportMap
    <2>1. xleft' \subseteq errors
      BY <1>1, <1>3 DEF ExportMap, ExportKey
    <2>2. UNCHANGED <<queue, bi, errors, hold, server>>
      BY <1>3 DEF ExportMap, relayVars, castVars, serverVars
    <2> QED BY <1>1, <2>1, <2>2 DEF Queues, QueueInv
  <1>4. CASE NextFromPlugins \/ NextFromSelf
    <2>1. bi' = 1 \/ bi' = bi
      BY <1>4 DEF NextFromPlugins, NextFromSelf, Filtered, castVars
    <2>2. UNCHANGED <<queue, xleft, errors, hold, server>>
      BY <1>4 DEF NextFromPlugins, NextFromSelf, relayVars, exportVars, serverVars
    <2> QED BY <1>1, <2>1, <2>2, RelayIndex DEF Queues, QueueInv
  <1>5. ASSUME SubmitDone PROVE bi' \in DOMAIN RelaySeq
    <2>1. CASE bi < Len(RelaySeq)
      BY <1>1, <1>5, <2>1, RelayIndex DEF SubmitDone
    <2>2. CASE ~(bi < Len(RelaySeq))
      BY <1>1, <1>5, <2>2, RelayIndex DEF SubmitDone
    <2> QED BY <2>1, <2>2
  <1>6. CASE Submit
    <2> DEFINE r == RelaySeq[bi]
    <2>1. r \in Relays /\ UNCHANGED <<xleft, errors, hold, server>>
      BY <1>1, <1>6, RelayIndex DEF Submit, exportVars, serverVars
    <2>2. CASE Len(queue[r]) < MaxRelayQueue
      <3>1. queue' = [queue EXCEPT ![r] = Append(queue[r], heap[bobj])] /\ SubmitDone
        BY <1>6, <2>2 DEF Submit
      <3>2. queue[r] \in Seq(Range(queue[r]))
        BY <1>1, <2>1 DEF QueueInv
      <3> DEFINE q == Append(queue[r], heap[bobj])
      <3>3. q \in Seq(Range(q)) /\ Len(q) = Len(queue[r]) + 1 /\ Len(queue[r]) \in Nat
        BY <3>2, QueueAppend
      <3>4. Len(q) <= MaxRelayQueue
        BY <1>1, <2>2, <3>3
      <3> HIDE DEF q
      <3>5. queue' = [queue EXCEPT ![r] = q]
        BY <3>1 DEF q
      <3> HIDE DEF r
      <3>6. QueueInv' /\ \A x \in Relays : Len(queue'[x]) <= MaxRelayQueue
        BY <1>1, <2>1, <3>3, <3>4, <3>5, QueueChange
      <3> QED BY <1>1, <1>5, <2>1, <3>1, <3>6 DEF Queues
    <2>3. CASE ~(Len(queue[r]) < MaxRelayQueue)
      <3>1. UNCHANGED <<queue, bi>>
        BY <1>6, <2>3 DEF Submit
      <3> QED BY <1>2, <2>1, <3>1
    <2> QED BY <2>2, <2>3
  <1>7. CASE Drop
    <2>1. RelaySeq[bi] \in Relays
      BY <1>1, RelayIndex
    <2>2. /\ errors' = errors \cup {RelaySeq[bi]} /\ SubmitDone
          /\ UNCHANGED <<queue, xleft, hold, server>>
      BY <1>7 DEF Drop, exportVars, serverVars
    <2> QED BY <1>1, <1>5, <2>1, <2>2 DEF Queues, QueueInv
  <1>8. ASSUME NEW r \in Relays, queue[r] # <<>>, queue' = [queue EXCEPT ![r] = Tail(queue[r])]
        PROVE  QueueInv' /\ \A x \in Relays : Len(queue'[x]) <= MaxRelayQueue
    <2> DEFINE q == Tail(queue[r])
    <2>1. queue[r] \in Seq(Range(queue[r])) /\ Len(queue[r]) <= MaxRelayQueue
      BY <1>1 DEF QueueInv
    <2>2. q \in Seq(Range(q)) /\ Len(q) = Len(queue[r]) - 1 /\ Len(queue[r]) \in Nat
      BY <1>8, <2>1, QueueTail
    <2>3. Len(q) <= MaxRelayQueue
      BY <1>1, <2>1, <2>2
    <2>4. queue' = [queue EXCEPT ![r] = q]
      BY <1>8
    <2> HIDE DEF q
    <2> QED BY <1>1, <2>2, <2>3, <2>4, QueueChange
  <1>9. ASSUME NEW r \in Relays, Sent(r) PROVE Queues'
    <2>1. /\ queue[r] # <<>> /\ queue' = [queue EXCEPT ![r] = Tail(queue[r])]
          /\ UNCHANGED <<bi, xleft, errors, hold, server>>
      BY <1>9 DEF Sent, castVars, exportVars, serverVars
    <2>2. QueueInv' /\ \A x \in Relays : Len(queue'[x]) <= MaxRelayQueue
      BY <1>8, <2>1
    <2> QED BY <1>1, <2>1, <2>2 DEF Queues
  <1>10. CASE ServerRead
    <2>1. /\ queue[Aggregator] # <<>>
          /\ queue' = [queue EXCEPT ![Aggregator] = Tail(queue[Aggregator])]
          /\ UNCHANGED <<bi, xleft, errors, server>>
      BY <1>10 DEF ServerRead, castVars, exportVars
    <2>2. QueueInv' /\ \A x \in Relays : Len(queue'[x]) <= MaxRelayQueue
      BY <1>8, <2>1, RelayIndex
    <2>3. Len(hold') <= 1
      <3>1. CASE hold' = hold
        BY <1>1, <3>1
      <3>2. CASE \E x : hold' = <<x>>
        <4>1. PICK x : hold' = <<x>>
          BY <3>2
        <4>2. Len(<<x>>) = 1
          OBVIOUS
        <4> QED BY <4>1, <4>2
      <3> QED BY <1>10, <3>1, <3>2 DEF ServerRead
    <2> QED BY <1>1, <2>1, <2>2, <2>3 DEF Queues
  <1>11. CASE ServerEnqueue
    <2>1. /\ server < MaxServerQueue /\ server' = server + 1 /\ hold' = <<>>
          /\ UNCHANGED <<queue, bi, xleft, errors>>
      BY <1>11 DEF ServerEnqueue, castVars, exportVars, relayVars
    <2> QED BY <1>1, <2>1 DEF Queues, QueueInv
  <1>12. CASE ServerBroadcast
    <2>1. server > 0 /\ server' = server - 1 /\ UNCHANGED <<queue, bi, xleft, errors, hold>>
      BY <1>12 DEF ServerBroadcast, castVars, exportVars, relayVars
    <2> QED BY <1>1, <2>1 DEF Queues, QueueInv
  <1>13. CASE \/ ReadEOF \/ TakePoint \/ TakeError \/ Timeout \/ Enqueue
              \/ StartProcess \/ \E line \in Lines : ReadLine(line)
    BY <1>2, <1>13 DEF ReadEOF, TakePoint, TakeError, Timeout, Enqueue, StartProcess, ReadLine,
                       relayVars, castVars, exportVars, serverVars
  <1>14. CASE Advance \/ SetClockBack \/ OSTick \/ ExportTick
    BY <1>2, <1>14 DEF Advance, SetClockBack, OSTick, ExportTick,
                       relayVars, castVars, exportVars, serverVars
  <1>15. CASE UNCHANGED vars
    BY <1>2, <1>15 DEF vars, relayVars, castVars, exportVars, serverVars
  <1> QED
    BY <1>3, <1>4, <1>6, <1>7, <1>9, <1>10, <1>11, <1>12, <1>13, <1>14, <1>15 DEF Next

-------------------------------------------------------------------------------
(* The structs.                                                              *)

LEMMA AddAtMost ==
    ASSUME NEW S, IsFiniteSet(S), NEW x, NEW n \in Nat, Cardinality(S) <= n
    PROVE  IsFiniteSet(S \cup {x}) /\ Cardinality(S \cup {x}) <= n + 1
  <1>1. Cardinality(S) \in Nat
    BY FS_CardinalityType
  <1>2. /\ IsFiniteSet(S \cup {x})
        /\ Cardinality(S \cup {x}) = IF x \in S THEN Cardinality(S) ELSE Cardinality(S) + 1
    BY FS_AddElement
  <1> QED BY <1>1, <1>2

LEMMA RangeSize ==
    ASSUME NEW S, NEW s \in Seq(S)
    PROVE  IsFiniteSet(Range(s)) /\ Cardinality(Range(s)) <= Len(s) /\ Len(s) \in Nat
  <1>1. Len(s) \in Nat /\ DOMAIN s = 1..Len(s) /\ Range(s) = {s[i] : i \in 1..Len(s)}
    BY LenProperties, RangeEquality
  <1>2. IsFiniteSet(1..Len(s)) /\ Cardinality(1..Len(s)) = Len(s)
    BY <1>1, FS_Interval
  <1>3. s \in [1..Len(s) -> Range(s)]
    BY LenProperties, SeqOfRange
  <1>4. s \in Surjection(1..Len(s), Range(s))
    BY <1>1, <1>3 DEF Surjection
  <1>5. IsFiniteSet(Range(s)) /\ Cardinality(Range(s)) <= Cardinality(1..Len(s))
    BY <1>2, <1>4, FS_Surjection
  <1> QED BY <1>1, <1>2, <1>5

\* A goroutine that takes a struct from the pool always finds one, for it has none:
\* the others and Pool.C hold at most MaxQueue + 3 of them.
LEMMA FreeObj ==
    ASSUME Places, mobj = None \/ xobj = None
    PROVE  Obj \in Objs /\ heap[Obj] = <<>> /\ Obj \notin Owned
  <1>1. IsFiniteSet(Objs) /\ Cardinality(Objs) >= MaxQueue + 4 /\ MaxQueue \in Nat
    BY PipelineAssumption
  <1> DEFINE R == Range(w)
             y == IF mobj = None THEN xobj ELSE mobj
             A == R \cup {dobj}
             B == A \cup {bobj}
             C == B \cup {y}
  <1>2. IsFiniteSet(R) /\ Cardinality(R) <= Len(w) /\ Len(w) \in Nat /\ Len(w) <= MaxQueue
    BY RangeSize DEF Places
  <1> HIDE DEF R
  <1>11. Len(w) + 1 \in Nat /\ Len(w) + 1 + 1 \in Nat
    BY <1>2
  <1>3. IsFiniteSet(A) /\ Cardinality(A) <= Len(w) + 1
    BY <1>2, AddAtMost
  <1> HIDE DEF A
  <1>4. IsFiniteSet(B) /\ Cardinality(B) <= Len(w) + 1 + 1
    BY <1>3, <1>11, AddAtMost
  <1> HIDE DEF B
  <1>5. IsFiniteSet(C) /\ Cardinality(C) <= Len(w) + 1 + 1 + 1
    BY <1>4, <1>11, AddAtMost
  <1>6. Owned \subseteq C
    BY DEF Owned, A, B, R
  <1> HIDE DEF C
  <1>7. ~(Objs \subseteq C)
    <2> SUFFICES ASSUME Objs \in SUBSET C PROVE FALSE
      OBVIOUS
    <2>1. Cardinality(Objs) <= Cardinality(C)
      BY <1>5, FS_Subset
    <2>2. Cardinality(Objs) \in Nat /\ Cardinality(C) \in Nat
      BY <1>1, <1>5, FS_CardinalityType
    <2> QED BY <1>1, <1>2, <1>5, <2>1, <2>2
  <1>8. PICK o \in Objs : o \notin Owned
    BY <1>6, <1>7
  <1>9. heap[o] = <<>>
    BY <1>8 DEF Places, HeapInv
  <1>10. Obj \in Objs /\ heap[Obj] = <<>>
    BY <1>9 DEF Obj
  <1> QED BY <1>10 DEF Places, HeapInv

LEMMA ReadLinePlaces ==
    ASSUME Places, NEW line \in Lines, ReadLine(line)
    PROVE  Places'
  <1>1. mpc = "read" /\ UNCHANGED <<dpc, dobj, w, xpc, xobj, bpc, bobj, cast>>
    BY DEF ReadLine, exportVars, castVars
  <1>2. mobj = None
    BY <1>1 DEF Places, HandInv
  <1>3. CASE mpc' = "error" /\ UNCHANGED <<mobj, heap>>
    BY <1>1, <1>3 DEF Places, HandInv, HeapInv, Owned
  <1>4. CASE ~(mpc' = "error" /\ UNCHANGED <<mobj, heap>>)
    <2>1. /\ mpc' = "point" /\ mobj' = Obj
          /\ \E c : heap' = [heap EXCEPT ![Obj] = <<c>>]
      BY <1>4 DEF ReadLine, getPoint
    <2>2. PICK c : heap' = [heap EXCEPT ![Obj] = <<c>>]
      BY <2>1
    <2> DEFINE o == Obj
    <2>3. o \in Objs /\ heap[o] = <<>> /\ o \notin Owned /\ o # None
      BY <1>2, FreeObj, PipelineAssumption
    <2>4. /\ mobj' = o /\ heap' = [heap EXCEPT ![o] = <<c>>]
      BY <2>1, <2>2
    <2> HIDE DEF o
    <2>5. Owned' = Owned \cup {o}
      BY <1>1, <1>2, <2>3, <2>4 DEF Owned
    <2>6. HeapInv'
      BY <1>1, <1>2, <2>3, <2>4, <2>5 DEF Places, HeapInv, Owned
    <2>7. HandInv'
      BY <1>1, <2>1, <2>3, <2>4 DEF Places, HandInv
    <2> QED BY <1>1, <2>1, <2>3, <2>4, <2>6, <2>7 DEF Places
  <1> QED BY <1>3, <1>4

LEMMA ExportPlaces ==
    ASSUME Places, xobj = None, NEW c, heap' = [heap EXCEPT ![Obj] = <<c>>], xobj' = Obj,
           xpc' \in {"int", "entry"},
           UNCHANGED <<mpc, mobj, dpc, dobj, w, bpc, bobj, cast>>
    PROVE  Places'
  <1> DEFINE o == Obj
  <1>1. o \in Objs /\ heap[o] = <<>> /\ o \notin Owned /\ o # None
    BY FreeObj, PipelineAssumption
  <1>2. xobj' = o /\ heap' = [heap EXCEPT ![o] = <<c>>]
    OBVIOUS
  <1> HIDE DEF o
  <1>3. Owned' = Owned \cup {o}
    BY <1>1, <1>2 DEF Owned
  <1>4. HeapInv'
    BY <1>1, <1>2, <1>3 DEF Places, HeapInv, Owned
  <1>5. HandInv'
    BY <1>1, <1>2 DEF Places, HandInv
  <1> QED BY <1>1, <1>2, <1>4, <1>5 DEF Places

LEMMA TakePlaces ==
    ASSUME Places, TakePoint
    PROVE  Places'
  <1>1. /\ dpc = "select" /\ mpc = "point" /\ dpc' = "put" /\ dobj' = mobj /\ mpc' = "read"
        /\ mobj' = None /\ UNCHANGED <<w, xpc, xobj, bpc, bobj, cast, heap>>
    BY DEF TakePoint, exportVars, castVars
  <1>2. dobj = None /\ mobj # None
    BY <1>1 DEF Places, HandInv
  <1>3. Owned' = Owned
    BY <1>1, <1>2 DEF Owned
  <1>4. HeapInv'
    BY <1>1, <1>2, <1>3 DEF Places, HeapInv, Owned
  <1> QED BY <1>1, <1>2, <1>4 DEF Places, HandInv

LEMMA TimeoutPlaces ==
    ASSUME Places, Timeout
    PROVE  Places'
  <1>1. /\ dpc = "select" /\ dpc' = "gone" /\ mpc' = "done" /\ mobj' = None
        /\ IF mobj = None THEN UNCHANGED heap ELSE heap' = [heap EXCEPT ![mobj] = <<>>]
        /\ UNCHANGED <<dobj, w, xpc, xobj, bpc, bobj, cast>>
    BY DEF Timeout, Free, exportVars, castVars
  <1>2. HandInv'
    BY <1>1 DEF Places, HandInv
  <1>3. CASE mobj = None
    BY <1>1, <1>2, <1>3 DEF Places, HeapInv, Owned
  <1>4. CASE mobj # None
    <2>1. mobj \in Objs /\ heap' = [heap EXCEPT ![mobj] = <<>>]
      BY <1>1, <1>4 DEF Places
    <2>2. Owned' = Owned \ {mobj}
      BY <1>1, <1>4 DEF Owned, Places, HeapInv
    <2>3. HeapInv'
      BY <1>1, <1>4, <2>1, <2>2 DEF Places, HeapInv, Owned
    <2> QED BY <1>1, <1>2, <2>3 DEF Places
  <1> QED BY <1>3, <1>4

LEMMA EnqueuePlaces ==
    ASSUME Places, Enqueue
    PROVE  Places'
  <1>1. /\ dpc = "put" /\ Len(w) < MaxQueue /\ w' = Append(w, dobj) /\ dobj' = None
        /\ dpc' = "select" /\ UNCHANGED <<mpc, mobj, xpc, xobj, bpc, bobj, cast, heap>>
    BY DEF Enqueue, ResetTimer, exportVars, castVars
  <1>2. /\ dobj \in Objs /\ w \in Seq(Objs) /\ IsInjective(w) /\ dobj \notin Range(w)
        /\ MaxQueue \in Nat
    BY <1>1, PipelineAssumption DEF Places, HandInv, HeapInv
  <1>3. /\ w' \in Seq(Objs) /\ Len(w') = Len(w) + 1 /\ Len(w) \in Nat
        /\ Range(w') = Range(w) \cup {dobj} /\ IsInjective(w')
    BY <1>1, <1>2, AppendProperties, LenProperties, RangeAppend, InjectiveAppend
  <1>4. Owned' = Owned
    BY <1>1, <1>2, <1>3, PipelineAssumption DEF Owned
  <1>5. HeapInv'
    BY <1>1, <1>2, <1>3, <1>4 DEF Places, HeapInv, Owned
  <1>6. HandInv'
    BY <1>1 DEF Places, HandInv
  <1>7. Len(w') <= MaxQueue
    BY <1>1, <1>2, <1>3
  <1> QED BY <1>1, <1>3, <1>5, <1>6, <1>7 DEF Places

LEMMA SubmitPlaces ==
    ASSUME Places, SubmitDone, bpc # "next",
           UNCHANGED <<mpc, mobj, dpc, dobj, w, xpc, xobj, cast>>
    PROVE  Places'
  <1>1. bobj # None /\ bobj \in Objs
    BY DEF Places, HandInv
  <1>2. CASE bpc' = "submit" /\ UNCHANGED <<bobj, heap>>
    BY <1>1, <1>2 DEF Places, HandInv, HeapInv, Owned
  <1>3. CASE bpc' = "next" /\ bobj' = None /\ heap' = [heap EXCEPT ![bobj] = <<>>]
    <2>1. Owned' = Owned \ {bobj}
      BY <1>1, <1>3 DEF Owned, Places, HeapInv
    <2>2. HeapInv'
      BY <1>1, <1>3, <2>1 DEF Places, HeapInv, Owned
    <2> QED BY <1>3, <2>2 DEF Places, HandInv
  <1> QED BY <1>2, <1>3 DEF SubmitDone, Free

LEMMA PluginsPlaces ==
    ASSUME Places, NextFromPlugins
    PROVE  Places'
  <1> DEFINE o == Head(w)
  <1>1. /\ bpc = "next" /\ w # <<>> /\ w' = Tail(w) /\ Filtered(o)
        /\ UNCHANGED <<mpc, mobj, dpc, dobj, xpc, xobj>>
    BY DEF NextFromPlugins, exportVars
  <1>2. bobj = None /\ w \in Seq(Objs) /\ IsInjective(w) /\ Len(w) <= MaxQueue /\ MaxQueue \in Nat
    BY <1>1, PipelineAssumption DEF Places, HandInv, HeapInv
  <1>3. /\ Tail(w) \in Seq(Objs) /\ Len(Tail(w)) = Len(w) - 1 /\ Len(w) \in Nat
        /\ o \in Objs /\ Range(w) = {o} \cup Range(Tail(w)) /\ o \notin Range(Tail(w))
        /\ IsInjective(Tail(w))
    BY <1>1, <1>2, HeadTailProperties, LenProperties, RangeHeadTail, InjectiveTail
  <1>4. o # None /\ o \notin {mobj, dobj, xobj}
    BY <1>2, <1>3, PipelineAssumption DEF Places, HeapInv
  <1>5. Len(w') <= MaxQueue /\ w' \in Seq(Objs) /\ Range(w') = Range(w) \ {o} /\ IsInjective(w')
    BY <1>1, <1>2, <1>3
  <1>6. CASE \E c : heap' = [heap EXCEPT ![o] = <<c>>] /\ cast' = c /\ bpc' = "submit" /\ bobj' = o
    <2>1. PICK c : heap' = [heap EXCEPT ![o] = <<c>>] /\ cast' = c /\ bpc' = "submit" /\ bobj' = o
      BY <1>6
    <2> HIDE DEF o
    <2>2. Owned' = Owned
      BY <1>1, <1>2, <1>3, <1>4, <1>5, <2>1 DEF Owned
    <2>3. HeapInv'
      BY <1>1, <1>2, <1>3, <1>4, <1>5, <2>1, <2>2 DEF Places, HeapInv, Owned
    <2>4. HandInv'
      BY <1>1, <1>4, <2>1 DEF Places, HandInv
    <2> QED BY <1>1, <1>3, <1>5, <2>1, <2>3, <2>4 DEF Places
  <1>7. CASE heap' = [heap EXCEPT ![o] = <<>>] /\ UNCHANGED castVars
    <2> HIDE DEF o
    <2>1. UNCHANGED <<bpc, bobj, cast>>
      BY <1>7 DEF castVars
    <2>2. Owned' = Owned \ {o}
      BY <1>1, <1>2, <1>3, <1>4, <1>5, <2>1 DEF Owned
    <2>3. HeapInv'
      BY <1>1, <1>2, <1>3, <1>4, <1>5, <1>7, <2>1, <2>2 DEF Places, HeapInv, Owned
    <2>4. HandInv'
      BY <1>1, <2>1 DEF Places, HandInv
    <2> QED BY <1>1, <1>5, <2>1, <2>3, <2>4 DEF Places
  <1> QED BY <1>1, <1>6, <1>7 DEF Filtered, Free

LEMMA SelfPlaces ==
    ASSUME Places, NextFromSelf
    PROVE  Places'
  <1>1. /\ bpc = "next" /\ xpc \in {"int", "entry"} /\ xobj' = None /\ Filtered(xobj)
        /\ xpc' \in {"map", "nextentry", "wait"}
        /\ UNCHANGED <<mpc, mobj, dpc, dobj, w>>
    BY DEF NextFromSelf, decodeVars
  <1>2. bobj = None /\ xobj # None /\ xobj \in Objs /\ xobj \notin Range(w)
    BY <1>1 DEF Places, HandInv, HeapInv
  <1>3. CASE \E c : heap' = [heap EXCEPT ![xobj] = <<c>>] /\ cast' = c /\ bpc' = "submit" /\ bobj' = xobj
    <2>1. PICK c : heap' = [heap EXCEPT ![xobj] = <<c>>] /\ cast' = c /\ bpc' = "submit" /\ bobj' = xobj
      BY <1>3
    <2>2. Owned' = Owned
      BY <1>1, <1>2, <2>1 DEF Owned
    <2>3. HeapInv'
      BY <1>1, <1>2, <2>1, <2>2 DEF Places, HeapInv, Owned
    <2>4. HandInv'
      BY <1>1, <1>2, <2>1 DEF Places, HandInv
    <2> QED BY <1>1, <1>2, <2>1, <2>3, <2>4 DEF Places
  <1>4. CASE heap' = [heap EXCEPT ![xobj] = <<>>] /\ UNCHANGED castVars
    <2>1. UNCHANGED <<bpc, bobj, cast>>
      BY <1>4 DEF castVars
    <2>2. Owned' = Owned \ {xobj}
      BY <1>1, <1>2, <2>1 DEF Owned, Places, HeapInv
    <2>3. HeapInv'
      BY <1>1, <1>2, <1>4, <2>1, <2>2 DEF Places, HeapInv, Owned
    <2>4. HandInv'
      BY <1>1, <2>1 DEF Places, HandInv
    <2> QED BY <1>1, <2>1, <2>3, <2>4 DEF Places
  <1> QED BY <1>1, <1>3, <1>4 DEF Filtered, Free

LEMMA PlacesStep ==
    ASSUME Places, [Next]_vars
    PROVE  Places'
  <1>1. ASSUME UNCHANGED <<mpc, mobj, dpc, dobj, w, xpc, xobj, bpc, bobj, cast, heap>> PROVE Places'
    BY <1>1 DEF Places, HandInv, HeapInv, Owned
  <1>2. ASSUME NEW line \in Lines, ReadLine(line) PROVE Places'
    BY <1>2, ReadLinePlaces
  <1>3. CASE ReadEOF
    <2>1. mpc = "read" /\ mpc' = "eof"
          /\ UNCHANGED <<mobj, dpc, dobj, w, xpc, xobj, bpc, bobj, cast, heap>>
      BY <1>3 DEF ReadEOF, exportVars, castVars
    <2> QED BY <2>1 DEF Places, HandInv, HeapInv, Owned
  <1>4. CASE TakePoint \/ Timeout \/ Enqueue
    BY <1>4, TakePlaces, TimeoutPlaces, EnqueuePlaces
  <1>5. CASE TakeError
    <2>1. /\ dpc = "select" /\ UNCHANGED <<mobj, dobj, w, xpc, xobj, bpc, bobj, cast, heap>>
          /\ \/ mpc = "error" /\ mpc' = "read" /\ dpc' = "select"
             \/ mpc = "eof" /\ mpc' = "done" /\ dpc' = "gone"
      BY <1>5 DEF TakeError, ResetTimer, exportVars, castVars
    <2> QED BY <2>1 DEF Places, HandInv, HeapInv, Owned
  <1>6. CASE StartProcess
    <2>1. /\ dpc = "gone" /\ mpc' = "read" /\ dpc' = "select"
          /\ UNCHANGED <<mobj, dobj, w, xpc, xobj, bpc, bobj, cast, heap>>
      BY <1>6 DEF StartProcess, exportVars, castVars
    <2> QED BY <2>1 DEF Places, HandInv, HeapInv, Owned
  <1>7. CASE ExportTick
    <2>1. /\ xpc = "wait" /\ xpc' = "int" /\ xobj' = Obj
          /\ UNCHANGED <<mpc, mobj, dpc, dobj, w, bpc, bobj, cast>>
          /\ \E c : heap' = [heap EXCEPT ![Obj] = <<c>>]
      BY <1>7 DEF ExportTick, getPoint, decodeVars, castVars
    <2>2. xobj = None
      BY <2>1 DEF Places, HandInv
    <2> QED BY <2>1, <2>2, ExportPlaces
  <1>8. CASE ExportMap
    <2>1. UNCHANGED <<mpc, mobj, dpc, dobj, w, bpc, bobj, cast>> /\ xpc \in {"map", "nextentry"}
      BY <1>8 DEF ExportMap, decodeVars, castVars
    <2>2. xobj = None
      BY <2>1 DEF Places, HandInv
    <2>3. CASE xpc' = "wait" /\ UNCHANGED <<xobj, heap>>
      BY <2>1, <2>2, <2>3 DEF Places, HandInv, HeapInv, Owned
    <2>4. CASE xobj' = Obj /\ xpc' = "entry" /\ \E c : heap' = [heap EXCEPT ![Obj] = <<c>>]
      BY <2>1, <2>2, <2>4, ExportPlaces
    <2> QED BY <1>8, <2>3, <2>4 DEF ExportMap, ExportKey, getPoint
  <1>9. CASE NextFromPlugins \/ NextFromSelf
    BY <1>9, PluginsPlaces, SelfPlaces
  <1>10. CASE Submit
    <2>1. bpc = "submit" /\ UNCHANGED <<mpc, mobj, dpc, dobj, w, xpc, xobj, cast>>
      BY <1>10 DEF Submit, decodeVars, exportVars
    <2>2. CASE SubmitDone
      BY <2>1, <2>2, SubmitPlaces
    <2>3. CASE bpc' = "drop" /\ UNCHANGED <<bobj, heap>>
      BY <2>1, <2>3 DEF Places, HandInv, HeapInv, Owned
    <2> QED BY <1>10, <2>2, <2>3 DEF Submit
  <1>11. CASE Drop
    <2>1. bpc = "drop" /\ SubmitDone /\ UNCHANGED <<mpc, mobj, dpc, dobj, w, xpc, xobj, cast>>
      BY <1>11 DEF Drop, decodeVars, exportVars
    <2> QED BY <2>1, SubmitPlaces
  <1>12. CASE Advance \/ SetClockBack \/ OSTick
    BY <1>1, <1>12 DEF Advance, SetClockBack, OSTick, decodeVars, exportVars, castVars
  <1>13. CASE (\E r \in Relays : Sent(r)) \/ ServerRead \/ ServerEnqueue \/ ServerBroadcast
    BY <1>1, <1>13 DEF Sent, ServerRead, ServerEnqueue, ServerBroadcast, decodeVars, exportVars,
                       castVars
  <1>14. CASE UNCHANGED vars
    BY <1>1, <1>14 DEF vars, decodeVars, exportVars, castVars
  <1> QED
    BY <1>2, <1>3, <1>4, <1>5, <1>6, <1>7, <1>8, <1>9, <1>10, <1>11, <1>12, <1>13, <1>14 DEF Next

-------------------------------------------------------------------------------
(* The theorems.                                                             *)

LEMMA InitInv == Init => IInv
  <1> SUFFICES ASSUME Init PROVE Places /\ TickInv /\ IdleInv /\ Decoding /\ Queues
    BY Parts
  <1>1. <<>> \in Seq(Objs) /\ Len(<<>>) = 0 /\ Range(<<>>) = {} /\ IsInjective(<<>>)
    BY EmptySeq, RangeShort DEF IsInjective
  <1>2. Places
    <2>1. HandInv
      BY DEF Init, HandInv
    <2>2. Owned = {}
      BY <1>1 DEF Init, Owned
    <2>3. HeapInv
      BY <1>1, <2>2 DEF Init, HeapInv
    <2> QED BY <1>1, <2>1, <2>3, PipelineAssumption DEF Init, Places
  <1>3. TickInv
    <2>1. PICK s \in Scenarios : budget = s.bound
      BY DEF Init
    <2>2. budget \in Bounds /\ budget.back < Start /\ Start \in Nat
      BY <2>1, PipelineAssumption
    <2>3. budget.back \in Nat
      BY <2>2 DEF Bounds
    <2>4. /\ clock = Start /\ back = 0 /\ tick = [tt |-> 0, armed |-> FALSE, last |-> 0]
          /\ skewed = FALSE
      BY DEF Init
    <2>5. tick \in [tt : Nat, armed : BOOLEAN, last : Nat] /\ ~tick.armed
      BY <2>4
    <2>6. Start <= clock /\ back + budget.back < Start /\ clock \in Nat /\ back \in Nat
      BY <2>2, <2>3, <2>4
    <2> QED BY <2>2, <2>4, <2>5, <2>6 DEF TickInv
  <1>4. IdleInv
    <2>1. /\ timer = [at |-> Start + IdleTimeout, fired |-> FALSE] /\ clock = Start
          /\ lastLine = Start /\ gap = 0 /\ slow = FALSE /\ killed = FALSE
      BY DEF Init, NewTimer
    <2>2. Start \in Nat /\ IdleTimeout \in Nat
      BY PipelineAssumption
    <2>3. /\ timer \in [at : Nat \cup {None}, fired : BOOLEAN] /\ ~timer.fired
          /\ lastLine + IdleTimeout <= timer.at
      BY <2>1, <2>2
    <2>4. lastLine \in Nat /\ lastLine <= clock /\ gap \in Nat
      BY <2>1, <2>2
    <2> QED BY <2>1, <2>3, <2>4 DEF IdleInv
  <1>5. Decoding
    <2>1. dec = [bySeries |-> <<>>, countdown |-> CleanupEveryN]
      BY DEF Init, NewDecoder
    <2>2. DOMAIN dec.bySeries = {} /\ dec.countdown = CleanupEveryN
      BY <2>1
    <2>3. IsFiniteSet({}) /\ Cardinality({}) = 0
      BY FS_EmptySet
    <2>4. Cardinality({}) <= MaxSeries /\ CleanupEveryN \in 1..CleanupEveryN
      BY <2>3, DecoderAssumption
    <2> QED BY <2>1, <2>2, <2>3, <2>4 DEF Decoding, DecoderInv
  <1>6. Queues
    <2>1. /\ queue = [r \in Relays |-> <<>>] /\ errors = {} /\ xleft = {} /\ hold = <<>>
          /\ server = 0 /\ bi = 1
      BY DEF Init
    <2>2. \A r \in Relays : queue[r] \in Seq(Range(queue[r])) /\ Len(queue[r]) = 0
      BY <2>1, EmptySeq
    <2>3. MaxRelayQueue \in Nat /\ MaxServerQueue \in Nat
      BY PipelineAssumption
    <2>4. QueueInv /\ \A r \in Relays : Len(queue[r]) <= MaxRelayQueue
      BY <2>1, <2>2, <2>3 DEF QueueInv
    <2> QED BY <1>1, <2>1, <2>3, <2>4, RelayIndex DEF Queues
  <1> QED BY <1>2, <1>3, <1>4, <1>5, <1>6

LEMMA StepInv == IInv /\ [Next]_vars => IInv'
  <1> SUFFICES ASSUME Places, TickInv, IdleInv, Decoding, Queues, [Next]_vars
               PROVE  Places' /\ TickInv' /\ IdleInv' /\ Decoding' /\ Queues'
    <2>1. IInv' <=> Places' /\ TickInv' /\ IdleInv' /\ Decoding' /\ Queues'
      BY Parts, PTL
    <2> QED BY <2>1, Parts
  <1>1. HandInv
    BY DEF Places
  <1> QED BY <1>1, PlacesStep, TickStep, IdleStep, DecodingStep, QueuesStep

\* The invariant holds in every state the pipeline can reach.
THEOREM InductiveInvariant == Spec => []IInv
  BY InitInv, StepInv, PTL DEF Spec

\* Type correctness, with the limits of every queue and of the decoder's memory.
THEOREM TypeCorrect == Spec => []TypeOK
  <1>1. IInv => TypeOK
    BY DEF IInv
  <1> QED BY <1>1, InductiveInvariant, PTL

\* A plugin is killed as idle only if it was silent or process.decode was held up
\* (internal/collect/decoder.go Decode, process.go decode).
THEOREM KillsJustified == Spec => []KillJustified
  <1>1. IInv => KillJustified
    BY DEF IInv, IdleInv, Late, KillJustified
  <1> QED BY <1>1, InductiveInvariant, PTL

\* The exported points have strictly increasing times unless the clock is set back
\* under a waiting tick (internal/tsdb/ticker.go).
THEOREM TicksInOrder == Spec => TickOrder
  <1>1. IInv /\ [Next]_vars => [xpc = "wait" /\ xpc' = "int" => xtime' > tick.last \/ skewed]_vars
    <2> SUFFICES ASSUME TickInv, [Next]_vars, xpc = "wait", xpc' = "int"
                 PROVE  xtime' > tick.last \/ skewed
      BY DEF IInv
    <2>1. CASE ExportTick
      <3>1. tick.armed /\ xtime' = tick.tt /\ tick.tt \in Nat /\ tick.last \in Nat
        BY <2>1 DEF ExportTick, TickInv
      <3> QED BY <3>1 DEF TickInv
    <2>2. ASSUME UNCHANGED xpc PROVE FALSE
      BY <2>2
    <2>3. CASE ExportMap \/ NextFromSelf
      BY <2>3 DEF ExportMap, ExportKey, NextFromSelf
    <2>4. CASE \/ ReadEOF \/ TakePoint \/ TakeError \/ Timeout \/ Enqueue
               \/ StartProcess \/ \E line \in Lines : ReadLine(line)
      BY <2>2, <2>4 DEF ReadEOF, TakePoint, TakeError, Timeout, Enqueue, StartProcess, ReadLine,
                        exportVars
    <2>5. CASE Advance \/ SetClockBack \/ OSTick \/ NextFromPlugins \/ Submit \/ Drop
      BY <2>2, <2>5 DEF Advance, SetClockBack, OSTick, NextFromPlugins, Submit, Drop, exportVars
    <2>6. CASE (\E r \in Relays : Sent(r)) \/ ServerRead \/ ServerEnqueue \/ ServerBroadcast
      BY <2>2, <2>6 DEF Sent, ServerRead, ServerEnqueue, ServerBroadcast, exportVars
    <2>7. CASE UNCHANGED vars
      BY <2>2, <2>7 DEF vars, exportVars
    <2> QED BY <2>1, <2>3, <2>4, <2>5, <2>6, <2>7 DEF Next
  <1> QED BY <1>1, InductiveInvariant, PTL DEF Spec, TickOrder

\* Every relay is put the point that Broadcast took: no struct is reused while a relay
\* has still to be sent what it holds (internal/relay/pool.go Broadcast).
THEOREM RelaysMirror == Spec => Mirrors
  <1> DEFINE A == \A r \in Relays : Len(queue'[r]) > Len(queue[r]) => Last(queue'[r]) = <<cast>>
  <1>1. IInv /\ [Next]_vars => [A]_vars
    <2> SUFFICES ASSUME Places, Queues, [Next]_vars, NEW r \in Relays,
                        Len(queue'[r]) > Len(queue[r])
                 PROVE  Last(queue'[r]) = <<cast>>
      BY Parts
    <2>1. queue[r] \in Seq(Range(queue[r])) /\ DOMAIN queue = Relays /\ Len(queue[r]) \in Nat
      <3>1. queue[r] \in Seq(Range(queue[r])) /\ DOMAIN queue = Relays
        BY DEF Queues, QueueInv
      <3> QED BY <3>1, LenProperties
    <2>2. ASSUME UNCHANGED queue PROVE FALSE
      BY <2>1, <2>2
    <2>3. CASE Submit
      <3> DEFINE q == RelaySeq[bi]
      <3>1. bobj # None /\ heap[bobj] = <<cast>>
        BY <2>3 DEF Submit, Places, HandInv, HeapInv
      <3>2. UNCHANGED queue \/ queue' = [queue EXCEPT ![q] = Append(queue[q], heap[bobj])]
        BY <2>3 DEF Submit
      <3>3. queue' = [queue EXCEPT ![q] = Append(queue[q], heap[bobj])] /\ q = r
        BY <2>1, <2>2, <3>2
      <3>4. queue'[r] = Append(queue[r], <<cast>>)
        BY <2>1, <3>1, <3>3
      <3> QED BY <2>1, <3>4, QueueAppend
    <2>4. ASSUME NEW x \in Relays, queue[x] # <<>>, queue' = [queue EXCEPT ![x] = Tail(queue[x])]
          PROVE  FALSE
      <3>1. x = r
        BY <2>1, <2>4
      <3>2. Len(queue'[r]) = Len(queue[r]) - 1
        BY <2>1, <2>4, <3>1, QueueTail
      <3> QED BY <2>1, <3>2
    <2>5. CASE (\E x \in Relays : Sent(x)) \/ ServerRead
      BY <2>4, <2>5, RelayIndex DEF Sent, ServerRead
    <2>6. CASE \/ ReadEOF \/ TakePoint \/ TakeError \/ Timeout \/ Enqueue
               \/ StartProcess \/ \E line \in Lines : ReadLine(line)
      BY <2>2, <2>6 DEF ReadEOF, TakePoint, TakeError, Timeout, Enqueue, StartProcess, ReadLine,
                        relayVars
    <2>7. CASE Advance \/ SetClockBack \/ OSTick \/ ExportTick \/ ExportMap
      BY <2>2, <2>7 DEF Advance, SetClockBack, OSTick, ExportTick, ExportMap, relayVars
    <2>8. CASE NextFromPlugins \/ NextFromSelf \/ Drop \/ ServerEnqueue \/ ServerBroadcast
      BY <2>2, <2>8 DEF NextFromPlugins, NextFromSelf, Drop, ServerEnqueue, ServerBroadcast, relayVars
    <2>9. CASE UNCHANGED vars
      BY <2>2, <2>9 DEF vars, relayVars
    <2> QED BY <2>3, <2>5, <2>6, <2>7, <2>8, <2>9 DEF Next
  <1> QED BY <1>1, InductiveInvariant, PTL DEF Spec, Mirrors

-------------------------------------------------------------------------------
(* The filter.                                                               *)

\* Eval applies the rules one after the other.
LEMMA EvalUnfolds ==
    ASSUME NEW rs, Len(rs) \in Nat, NEW p
    PROVE  \E f : /\ f[0] = [verdict |-> "pass", point |-> p]
                  /\ \A n \in 1..Len(rs) : f[n] = EvalRule(f[n - 1], rs[n])
                  /\ Eval(rs, p) = f[Len(rs)]
  <1> DEFINE N == Len(rs)
             first == [verdict |-> "pass", point |-> p]
             Is(f, m) == f = [n \in 0..m |-> IF n = 0 THEN first ELSE EvalRule(f[n - 1], rs[n])]
             T == {m \in 0..N : ~ \E f : Is(f, m)}
  <1>1. ASSUME T # {} PROVE FALSE
    <2>1. PICK m \in T : \A j \in T : m <= j
      <3>1. T \subseteq Nat
        OBVIOUS
      <3> HIDE DEF T
      <3> QED BY <1>1, <3>1, LeastOf
    <2>2. m \in 0..N /\ m \in Nat /\ ~ \E f : Is(f, m)
      OBVIOUS
    <2>3. CASE m = 0
      <3>1. Is([n \in 0..0 |-> first], 0)
        OBVIOUS
      <3> QED BY <2>2, <2>3, <3>1
    <2>4. CASE m # 0
      <3>1. m - 1 \in 0..N /\ m - 1 \notin T
        <4> HIDE DEF T
        <4>1. m - 1 \in 0..N /\ ~(m <= m - 1)
          BY <2>2, <2>4
        <4> QED BY <2>1, <4>1
      <3>2. PICK f : Is(f, m - 1)
        BY <3>1
      <3> DEFINE g == [n \in 0..m |-> IF n = m THEN EvalRule(f[m - 1], rs[m]) ELSE f[n]]
      <3>3. ASSUME NEW n \in 0..m
            PROVE  g[n] = IF n = 0 THEN first ELSE EvalRule(g[n - 1], rs[n])
        <4>1. CASE n = m
          <5>1. g[n - 1] = f[m - 1] /\ g[n] = EvalRule(f[m - 1], rs[m])
            BY <2>2, <2>4, <4>1
          <5> QED BY <2>4, <4>1, <5>1
        <4>2. CASE n # m
          <5>1. n \in 0..(m - 1) /\ g[n] = f[n]
            BY <2>2, <4>2
          <5>2. f[n] = IF n = 0 THEN first ELSE EvalRule(f[n - 1], rs[n])
            BY <3>2, <5>1
          <5>3. n # 0 => n - 1 \in 0..m /\ n - 1 # m
            BY <2>2, <5>1
          <5>4. n # 0 => g[n - 1] = f[n - 1]
            BY <5>3
          <5> QED BY <5>1, <5>2, <5>4
        <4> QED BY <4>1, <4>2
      <3>4. Is(g, m)
        <4>1. g = [n \in 0..m |-> g[n]]
          OBVIOUS
        <4> HIDE DEF g
        <4> QED BY <3>3, <4>1
      <3> QED BY <2>2, <3>4
    <2> QED BY <2>3, <2>4
  <1>2. \E f : Is(f, N)
    BY <1>1
  <1> DEFINE after == CHOOSE f : Is(f, N)
  <1>3. Is(after, N)
    <2> HIDE DEF Is
    <2> QED BY <1>2
  <1>4. Eval(rs, p) = after[N]
    BY DEF Eval
  <1> HIDE DEF after
  <1>5. after[0] = first
    <2>1. 0 \in 0..N
      OBVIOUS
    <2> QED BY <1>3, <2>1
  <1>6. ASSUME NEW n \in 1..N PROVE after[n] = EvalRule(after[n - 1], rs[n])
    <2>1. n \in 0..N /\ n # 0
      OBVIOUS
    <2> QED BY <1>3, <2>1
  <1> QED BY <1>4, <1>5, <1>6

\* A rewrite that does not fail keeps the time.
LEMMA RewriteKeeps ==
    ASSUME NEW r, NEW p, IsPoint(p), ~Failed(Rewrite(r, p))
    PROVE  IsPoint(Rewrite(r, p)) /\ Rewrite(r, p).time = p.time
  <1>1. ASSUME NEW q, IsPoint(q), NEW m
        PROVE  IsPoint([q EXCEPT !.metric = m]) /\ [q EXCEPT !.metric = m].time = q.time
    BY <1>1 DEF IsPoint
  <1>2. ASSUME NEW q, IsPoint(q), NEW t
        PROVE  IsPoint([q EXCEPT !.tags = t]) /\ [q EXCEPT !.tags = t].time = q.time
    BY <1>2 DEF IsPoint
  <1>3. ASSUME NEW m
        PROVE  Failed(SetMetric(p, m)) \/ (IsPoint(SetMetric(p, m)) /\ SetMetric(p, m).time = p.time)
    BY <1>1 DEF SetMetric, Failed
  <1>4. ASSUME NEW q, IsPoint(q), NEW kv
        PROVE  Failed(SetTags(q, kv)) \/ (IsPoint(SetTags(q, kv)) /\ SetTags(q, kv).time = q.time)
    BY <1>2, <1>4 DEF SetTags, Failed
  <1> DEFINE sub == Submatch(r, p)
             q   == IF r.Set # <<>> /\ Head(r.Set).lit # Empty
                    THEN SetMetric(p, Expand(sub, Head(r.Set))) ELSE p
             n   == (Len(r.Set) - 1) \div 2
             kv  == [i \in 1..n |-> <<r.Set[2*i].lit, Expand(sub, r.Set[2*i+1])>>]
  <1>5. Rewrite(r, p) = IF Failed(q) \/ Len(r.Set) < 2 THEN q ELSE SetTags(q, kv)
    BY DEF Rewrite
  <1>6. Failed(q) \/ (IsPoint(q) /\ q.time = p.time)
    BY <1>3
  <1> HIDE DEF q, kv
  <1>7. CASE Failed(q) \/ Len(r.Set) < 2
    BY <1>5, <1>6, <1>7
  <1>8. CASE ~(Failed(q) \/ Len(r.Set) < 2)
    BY <1>4, <1>5, <1>6, <1>8
  <1> QED BY <1>7, <1>8

\* No rule changes the time of a point.
LEMMA EvalKeeps ==
    ASSUME NEW rs, Len(rs) \in Nat, NEW p, IsPoint(p)
    PROVE  Eval(rs, p).point.time = p.time
  <1>1. PICK f : /\ f[0] = [verdict |-> "pass", point |-> p]
                 /\ \A n \in 1..Len(rs) : f[n] = EvalRule(f[n - 1], rs[n])
                 /\ Eval(rs, p) = f[Len(rs)]
    BY EvalUnfolds
  <1> DEFINE Good(a) == /\ a = [verdict |-> a.verdict, point |-> a.point]
                        /\ IsPoint(a.point) /\ a.point.time = p.time
             T == {m \in 0..Len(rs) : ~Good(f[m])}
  <1>2. Good(f[0])
    BY <1>1
  <1>3. ASSUME NEW a, Good(a), NEW r PROVE Good(EvalRule(a, r))
    <2>1. ASSUME NEW v PROVE Good([a EXCEPT !.verdict = v])
      BY <1>3
    <2>2. ASSUME NEW q, IsPoint(q), q.time = p.time PROVE Good([a EXCEPT !.point = q])
      BY <1>3, <2>2
    <2>3. ~Failed(Rewrite(r, a.point)) =>
             IsPoint(Rewrite(r, a.point)) /\ Rewrite(r, a.point).time = p.time
      BY <1>3, RewriteKeeps
    <2>4. Good(a)
      BY <1>3
    <2> HIDE DEF Good
    <2> QED BY <2>1, <2>2, <2>3, <2>4 DEF EvalRule
  <1>4. T = {}
    <2> SUFFICES ASSUME T # {} PROVE FALSE
      OBVIOUS
    <2>1. PICK m \in T : \A j \in T : m <= j
      <3>1. T \subseteq Nat
        OBVIOUS
      <3> HIDE DEF T
      <3> QED BY <3>1, LeastOf
    <2>2. m \in 0..Len(rs) /\ ~Good(f[m])
      OBVIOUS
    <2>3. m # 0
      BY <1>2, <2>2
    <2>4. m - 1 \in 0..Len(rs) /\ m \in 1..Len(rs) /\ m - 1 \notin T
      BY <2>1, <2>2, <2>3
    <2>5. Good(f[m - 1]) /\ f[m] = EvalRule(f[m - 1], rs[m])
      BY <1>1, <2>4
    <2> HIDE DEF Good
    <2> QED BY <1>3, <2>2, <2>5
  <1>5. Good(f[Len(rs)])
    <2>1. Len(rs) \in 0..Len(rs)
      OBVIOUS
    <2> HIDE DEF Good
    <2> QED BY <1>4, <2>1
  <1> QED BY <1>1, <1>5

-------------------------------------------------------------------------------
(* The order of a plugin's points.                                           *)

\* The arithmetic of times and values.
LEMMA WholeSeconds ==
    ASSUME NEW t \in Int
    PROVE  (t * PerSecond) \div PerSecond = t /\ t * PerSecond \in Int
  <1>1. PerSecond \in Int /\ PerSecond > 0
    BY PointsAssumption
  <1> QED BY <1>1

LEMMA WrapFits ==
    ASSUME NEW v \in Int, NEW half \in Nat, half > 0
    PROVE  /\ Wrap(v, half) \in Int /\ -half <= Wrap(v, half) /\ Wrap(v, half) < half
           /\ -half <= v /\ v < half => Wrap(v, half) = v
  <1>2. (v + half) % (2 * half) \in 0..(2 * half - 1)
    OBVIOUS
  <1>4. ASSUME -half <= v, v < half PROVE Wrap(v, half) = v
    <2>1. v + half \in 0..(2 * half - 1)
      BY <1>4
    <2>2. (v + half) % (2 * half) = v + half
      BY <2>1
    <2> QED BY <2>2 DEF Wrap
  <1> QED BY <1>2, <1>4 DEF Wrap

LEMMA ValueFits ==
    ASSUME NEW v \in Int
    PROVE  /\ parseValue(v) \in -HalfRange..(HalfRange - 1)
           /\ v \in -HalfRange..(HalfRange - 1) => parseValue(v) = v
  <1>1. HalfRange \in Nat /\ HalfRange > 0
    BY PointsAssumption
  <1>2. /\ Wrap(v, HalfRange) \in Int /\ -HalfRange <= Wrap(v, HalfRange) /\ Wrap(v, HalfRange) < HalfRange
        /\ -HalfRange <= v /\ v < HalfRange => Wrap(v, HalfRange) = v
    BY <1>1, WrapFits
  <1> QED BY <1>1, <1>2 DEF parseValue

\* A time that was parsed is in the range, and one in the range comes out as it is.
LEMMA TimeFits ==
    ASSUME NEW t \in Int
    PROVE  /\ parseTime(t) \in Int /\ parseTime(t) * PerSecond < HalfTime
           /\ t >= 0 /\ t * PerSecond < HalfTime => parseTime(t * PerSecond) = t
  <1>1. HalfTime \in Nat /\ HalfTime > 0 /\ PerSecond \in Nat /\ PerSecond > 0
    BY PointsAssumption
  <1>2. ASSUME NEW n \in Int PROVE n \div PerSecond \in Int /\ (n \div PerSecond) * PerSecond <= n
    <2>1. /\ n \div PerSecond \in Int /\ n % PerSecond \in Int /\ n % PerSecond >= 0
          /\ n = PerSecond * (n \div PerSecond) + (n % PerSecond)
      BY <1>1, <1>2
    <2>2. PICK q : q = n \div PerSecond
      OBVIOUS
    <2>3. q * PerSecond = PerSecond * q /\ PerSecond * q \in Int
      BY <1>1, <2>1, <2>2
    <2> QED BY <2>1, <2>2, <2>3
  <1>3. PICK m : m = Wrap(t, HalfTime) \div PerSecond
    OBVIOUS
  <1>4. m \in Int
    BY <1>1, <1>2, <1>3, WrapFits
  <1>5. PICK k : k = Wrap(m * PerSecond, HalfTime)
    OBVIOUS
  <1>6. k \in Int /\ k < HalfTime
    <2>1. m * PerSecond \in Int
      BY <1>4, WholeSeconds
    <2> QED BY <1>1, <1>5, <2>1, WrapFits
  <1>7. parseTime(t) = k \div PerSecond
    BY <1>3, <1>5 DEF parseTime
  <1>8. parseTime(t) \in Int /\ parseTime(t) * PerSecond < HalfTime
    <2>1. k \div PerSecond \in Int /\ (k \div PerSecond) * PerSecond <= k
      BY <1>2, <1>6
    <2>2. PICK q : q = k \div PerSecond
      OBVIOUS
    <2>3. q * PerSecond \in Int /\ q * PerSecond <= k /\ q \in Int
      BY <2>1, <2>2, WholeSeconds
    <2>4. q * PerSecond < HalfTime
      BY <1>1, <1>6, <2>3
    <2> QED BY <1>7, <2>2, <2>3, <2>4
  <1>9. ASSUME t >= 0, t * PerSecond < HalfTime PROVE parseTime(t * PerSecond) = t
    <2>1. PICK n : n = t * PerSecond
      OBVIOUS
    <2>2. n \in Int /\ n \div PerSecond = t /\ n < HalfTime
      BY <1>9, <2>1, WholeSeconds
    <2>3. n >= 0
      BY <1>1, <1>9, <2>1
    <2>4. Wrap(n, HalfTime) = n
      BY <1>1, <2>2, <2>3, WrapFits
    <2>5. parseTime(n) = n \div PerSecond
      BY <2>1, <2>2, <2>4 DEF parseTime
    <2> QED BY <2>1, <2>2, <2>5
  <1> QED BY <1>8, <1>9

\* What a decoder keeps in mind: a time that it knew of a series it still knows, or
\* that time is MaxAge old; and the point it accepts follows what it knew.
LEMMA DecodeRemembers ==
    ASSUME NEW d, d = [bySeries |-> d.bySeries, countdown |-> d.countdown],
           \A x \in DOMAIN d.bySeries : d.bySeries[x] \in Int,
           NEW line \in Lines, NEW now \in Int
    PROVE  LET e == Decode(d, line, now)
               s == appendSeries(e.point)
           IN  /\ \A x \in DOMAIN e.dec.bySeries : e.dec.bySeries[x] \in Int
               /\ \A x \in DOMAIN d.bySeries : \A t \in Int : t <= d.bySeries[x] =>
                     \/ x \in DOMAIN e.dec.bySeries /\ t <= e.dec.bySeries[x]
                     \/ t <= now - MaxAge
               /\ ~Failed(e.point) =>
                     /\ IsPoint(e.point)
                     /\ s \in DOMAIN e.dec.bySeries /\ e.dec.bySeries[s] = e.point.time
                     /\ \A t \in Int : s \in DOMAIN d.bySeries /\ t <= d.bySeries[s] =>
                           t < e.point.time \/ t <= now - MaxAge
  <1> DEFINE p  == unmarshalText(line)
             d1 == cleanup(d, now)
             e  == Decode(d, line, now)
             s  == appendSeries(p)
  <1>1. MaxAge \in Nat /\ PerSecond \in Nat \ {0}
    BY DecoderAssumption, PointsAssumption
  <1>2. /\ d1 = [bySeries |-> d1.bySeries, countdown |-> d1.countdown]
        /\ DOMAIN d1.bySeries \subseteq DOMAIN d.bySeries
        /\ \A x \in DOMAIN d1.bySeries : d1.bySeries[x] = d.bySeries[x]
        /\ \A x \in DOMAIN d.bySeries : x \in DOMAIN d1.bySeries \/ d.bySeries[x] <= now - MaxAge
    <2>1. CASE d.countdown > 1
      <3>1. d1 = [d EXCEPT !.countdown = @ - 1]
        BY <2>1 DEF cleanup
      <3> QED BY <3>1
    <2>2. CASE ~(d.countdown > 1)
      <3>1. d1 = [bySeries |-> Restrict(d.bySeries,
                                  {x \in DOMAIN d.bySeries : d.bySeries[x] > now - MaxAge}),
                  countdown |-> CleanupEveryN]
        BY <2>2 DEF cleanup
      <3>2. d1.bySeries = [x \in {x \in DOMAIN d.bySeries : d.bySeries[x] > now - MaxAge} |-> d.bySeries[x]]
        BY <3>1 DEF Restrict
      <3>3. \A x \in DOMAIN d.bySeries : d.bySeries[x] > now - MaxAge \/ d.bySeries[x] <= now - MaxAge
        BY <1>1
      <3> QED BY <3>1, <3>2, <3>3
    <2> QED BY <2>1, <2>2
  <1>3. ~Failed(p) => IsPoint(p)
    <2> SUFFICES ASSUME ~Failed(p) PROVE IsPoint(p)
      OBVIOUS
    <2>1. /\ line.time # BadNumber
          /\ p = [metric |-> line.metric, time |-> parseTime(line.time),
                  value |-> parseValue(line.value), tags |-> line.tags]
      BY DEF unmarshalText, Failed
    <2>2. parseTime(line.time) \in Int
      BY <1>1, <2>1, PipelineAssumption, TimeFits
    <2> HIDE DEF p
    <2> QED BY <2>1, <2>2 DEF IsPoint
  <1> HIDE DEF d1, p
  <1>4. CASE Failed(p)
    <2>1. e.dec = d /\ Failed(e.point)
      BY <1>4 DEF Decode, Failed, p, d1
    <2> HIDE DEF e
    <2> QED BY <2>1 DEF e
  <1>5. CASE ~Failed(p) /\ ~InOrder(d1, p)
    <2>1. e.dec = d1 /\ Failed(e.point)
      BY <1>5 DEF Decode, Failed, p, d1
    <2>2. \A x \in DOMAIN d.bySeries : \A t \in Int : t <= d.bySeries[x] =>
              \/ x \in DOMAIN d1.bySeries /\ t <= d1.bySeries[x]
              \/ t <= now - MaxAge
      BY <1>1, <1>2
    <2> HIDE DEF e
    <2> QED BY <1>2, <2>1, <2>2 DEF e
  <1>6. CASE ~Failed(p) /\ InOrder(d1, p)
    <2>1. e.dec = [d1 EXCEPT !.bySeries = Assigned(@, s, p.time)] /\ e.point = p
      BY <1>6 DEF Decode, p, d1
    <2> DEFINE b == e.dec.bySeries
    <2>2. /\ DOMAIN b = DOMAIN d1.bySeries \cup {s} /\ b[s] = p.time
          /\ \A x \in DOMAIN d1.bySeries \ {s} : b[x] = d1.bySeries[x]
      BY <1>2, <2>1 DEF Assigned
    <2>3. p.time \in Int /\ IsPoint(p)
      BY <1>3, <1>6 DEF IsPoint
    <2>4. s \in DOMAIN d1.bySeries => p.time > d1.bySeries[s]
      BY <1>6 DEF InOrder
    <2> HIDE DEF e, s, b
    <2>5. \A x \in DOMAIN b : b[x] \in Int
      BY <1>2, <2>2, <2>3
    <2>6. ASSUME NEW t \in Int, s \in DOMAIN d.bySeries, t <= d.bySeries[s]
          PROVE  t < p.time \/ t <= now - MaxAge
      <3>1. d.bySeries[s] \in Int
        BY <2>6
      <3>2. CASE s \in DOMAIN d1.bySeries
        BY <1>2, <2>3, <2>4, <2>6, <3>1, <3>2
      <3>3. CASE d.bySeries[s] <= now - MaxAge
        BY <1>1, <2>6, <3>1, <3>3
      <3> QED BY <1>2, <2>6, <3>2, <3>3
    <2>7. ASSUME NEW x \in DOMAIN d.bySeries, NEW t \in Int, t <= d.bySeries[x]
          PROVE  (x \in DOMAIN b /\ t <= b[x]) \/ t <= now - MaxAge
      <3>1. d.bySeries[x] \in Int
        OBVIOUS
      <3>2. CASE x = s
        BY <2>2, <2>3, <2>6, <2>7, <3>2
      <3>3. CASE x # s /\ x \in DOMAIN d1.bySeries
        BY <1>2, <2>2, <2>7, <3>3
      <3>4. CASE d.bySeries[x] <= now - MaxAge
        BY <1>1, <2>7, <3>1, <3>4
      <3> QED BY <1>2, <3>2, <3>3, <3>4
    <2> QED BY <2>1, <2>2, <2>3, <2>5, <2>6, <2>7 DEF e, s, b
  <1> QED BY <1>4, <1>5, <1>6

LEMMA LaterStill ==
    ASSUME NEW t \in Int, NEW a \in Int, NEW b \in Int, a <= b, NEW m \in Nat
    PROVE  t <= a - m => t <= b - m
  OBVIOUS

\* Points may leave, and structs that are not under way change, as long as those that
\* stay keep their order; a point that leaves for Broadcast was ahead of all others.
LEMMA FlightShrinks ==
    ASSUME FlightInv,
           Len(rules') \in Nat, xobj' # None => Item(xobj)'.from.run = None,
           UNCHANGED dec, budget'.restarts = budget.restarts,
           clock \in Int, clock' \in Int, clock <= clock',
           Flying' \subseteq Flying,
           \A o \in Flying' : heap'[o] = heap[o],
           \A o, q \in Flying' : Precedes(o, q)' => Precedes(o, q),
           \A s \in DOMAIN last' : s[1] # None =>
              \/ s \in DOMAIN last /\ last'[s] = last[s]
              \/ \E h \in Flying : /\ s = SourceOf(Item(h)) /\ last'[s] = Item(h).point.time
                                   /\ \A o \in Flying' : Precedes(h, o)
    PROVE  FlightInv'
  <1>1. MaxAge \in Nat /\ None \notin Nat
    BY DecoderAssumption, PipelineAssumption
  <1>2. \A o \in Flying' : o \in Flying /\ Item(o)' = Item(o)
    BY DEF Item
  <1>3. ASSUME NEW x, NEW t \in Int, Remembered(x, t)
        PROVE  \/ x \in DOMAIN dec'.bySeries /\ t <= dec'.bySeries[x]
               \/ t <= clock' - MaxAge
    <2>1. t <= clock - MaxAge => t <= clock' - MaxAge
      BY <1>1, LaterStill
    <2> QED BY <1>3, <2>1 DEF Remembered
  <1>4. ASSUME NEW o \in Flying PROVE Item(o).from.run \in Nat /\ Item(o).point.time \in Int
    BY DEF FlightInv, Printed, IsPoint
  <1>5. ASSUME NEW s \in DOMAIN last', s[1] # None
        PROVE  /\ last'[s] \in Int /\ s[1] \in Nat /\ s[1] >= budget'.restarts
               /\ s[1] = budget'.restarts => Remembered(s[2], last[s])'
    <2>1. CASE s \in DOMAIN last /\ last'[s] = last[s]
      <3>1. /\ last[s] \in Int /\ s[1] \in Nat /\ s[1] >= budget.restarts
            /\ s[1] = budget.restarts => Remembered(s[2], last[s])
        BY <1>5, <2>1 DEF FlightInv
      <3> QED BY <1>3, <2>1, <3>1 DEF Remembered
    <2>2. ASSUME NEW h \in Flying, s = SourceOf(Item(h)), last'[s] = Item(h).point.time
          PROVE  /\ last'[s] \in Int /\ s[1] \in Nat /\ s[1] >= budget'.restarts
                 /\ s[1] = budget'.restarts => Remembered(s[2], last[s])'
      <3>1. s[1] = Item(h).from.run /\ s[2] = Item(h).from.series
        BY <2>2 DEF SourceOf
      <3>2. /\ Item(h).from.run >= budget.restarts
            /\ Item(h).from.run = budget.restarts =>
                  Remembered(Item(h).from.series, Item(h).point.time)
        BY DEF FlightInv, Printed
      <3> QED BY <1>3, <1>4, <2>2, <3>1, <3>2 DEF Remembered
    <2> QED BY <1>5, <2>1, <2>2
  <1>6. ASSUME NEW o \in Flying'
        PROVE  /\ Printed(Item(o))'
               /\ SourceOf(Item(o))' \in DOMAIN last' => Follows(last[SourceOf(Item(o))], Item(o))'
               /\ Item(o)'.from.run = budget'.restarts =>
                     Remembered(Item(o).from.series, Item(o).point.time)'
    <2>1. o \in Flying /\ Item(o)' = Item(o)
      BY <1>2
    <2>2. Printed(Item(o))'
      <3>1. Printed(Item(o))
        BY <2>1 DEF FlightInv
      <3> QED BY <2>1, <3>1 DEF Printed, IsPoint
    <2>3. Item(o)'.from.run = budget'.restarts =>
             Remembered(Item(o).from.series, Item(o).point.time)'
      <3>1. Item(o).from.run = budget.restarts =>
               Remembered(Item(o).from.series, Item(o).point.time)
        BY <2>1 DEF FlightInv
      <3> QED BY <1>3, <1>4, <2>1, <3>1 DEF Remembered
    <2>4. ASSUME SourceOf(Item(o)) \in DOMAIN last'
          PROVE  Follows(last'[SourceOf(Item(o))], Item(o))
      <3> DEFINE s == SourceOf(Item(o))
      <3>1. s[1] # None
        BY <1>1, <1>4, <2>1 DEF SourceOf
      <3>2. CASE s \in DOMAIN last /\ last'[s] = last[s]
        BY <2>1, <3>2 DEF FlightInv
      <3>3. ASSUME NEW h \in Flying, s = SourceOf(Item(h)), last'[s] = Item(h).point.time,
                   Precedes(h, o)
            PROVE  Follows(last'[s], Item(o))
        BY <2>1, <3>3 DEF FlightInv
      <3> QED BY <2>4, <3>1, <3>2, <3>3
    <2>5. SourceOf(Item(o))' = SourceOf(Item(o))
      BY <2>1 DEF SourceOf
    <2> QED BY <2>1, <2>2, <2>3, <2>4, <2>5 DEF Follows
  <1>7. ASSUME NEW o \in Flying', NEW q \in Flying', Precedes(o, q)',
               SourceOf(Item(o))' = SourceOf(Item(q))'
        PROVE  Follows(Item(o).point.time, Item(q))'
    <2>1. /\ o \in Flying /\ Item(o)' = Item(o) /\ q \in Flying /\ Item(q)' = Item(q)
          /\ Precedes(o, q)
      BY <1>2, <1>7
    <2>2. SourceOf(Item(o)) = SourceOf(Item(q))
      BY <1>7, <2>1 DEF SourceOf
    <2>3. Follows(Item(o).point.time, Item(q))
      BY <2>1, <2>2 DEF FlightInv
    <2> QED BY <2>1, <2>3 DEF Follows
  <1>8. \A x \in DOMAIN dec'.bySeries : dec'.bySeries[x] \in Int
    BY DEF FlightInv
  <1> QED BY <1>5, <1>6, <1>7, <1>8 DEF FlightInv

\* The structs under way are none of those the exporter and Broadcast hold.
LEMMA FlyingApart ==
    ASSUME Places
    PROVE  /\ Flying \subseteq Objs /\ Flying \subseteq Owned /\ None \notin Flying
           /\ xobj # None => xobj \notin Flying
           /\ bobj # None => bobj \notin Flying
  <1>1. Range(w) \subseteq Objs /\ None \notin Objs
    <2>1. w \in Seq(Objs) /\ None \notin Objs
      BY PipelineAssumption DEF Places
    <2>2. Range(w) = {w[i] : i \in 1..Len(w)} /\ w \in [1..Len(w) -> Objs]
      BY <2>1, LenProperties, RangeEquality
    <2> QED BY <2>1, <2>2
  <1> QED BY <1>1 DEF Places, HeapInv, Flying, Owned

\* Whatever leaves the way of the plugin's points alone keeps the invariant.
LEMMA FlightFrame ==
    ASSUME FlightInv, UNCHANGED <<rules, dec, last, w, mobj, dobj>>,
           budget'.restarts = budget.restarts,
           clock \in Int, clock' \in Int, clock <= clock',
           xobj' # None => Item(xobj)'.from.run = None,
           \A o \in Flying : heap'[o] = heap[o]
    PROVE  FlightInv'
  <1>1. Flying' = Flying
    BY DEF Flying
  <1>2. \A o, q \in Flying' : Precedes(o, q)' => Precedes(o, q)
    BY DEF Precedes
  <1>3. Len(rules') \in Nat
    BY DEF FlightInv
  <1>4. \A s \in DOMAIN last' : s \in DOMAIN last /\ last'[s] = last[s]
    OBVIOUS
  <1>5. Flying' \subseteq Flying /\ \A o \in Flying' : heap'[o] = heap[o]
    BY <1>1
  <1> QED BY <1>2, <1>3, <1>4, <1>5, FlightShrinks

LEMMA FlightClock ==
    ASSUME TickInv, UNCHANGED clock
    PROVE  clock \in Int /\ clock' \in Int /\ clock <= clock'
  BY DEF TickInv

\* mainloop hands the point on, and the idle timer discards it.
LEMMA TakeFlight ==
    ASSUME Places, TickInv, FlightInv, TakePoint \/ Timeout
    PROVE  FlightInv'
  <1>1. clock \in Int /\ clock' \in Int /\ clock <= clock'
    BY FlightClock DEF TakePoint, Timeout, boundVars
  <1>2. /\ UNCHANGED <<rules, dec, last, w, budget, xobj>> /\ mobj' = None
        /\ dobj' \in {dobj, mobj} /\ (dobj' = mobj => dobj = None \/ dobj' = dobj)
    BY DEF TakePoint, Timeout, boundVars, exportVars, castVars, Places, HandInv
  <1>3. None \notin Flying /\ (xobj # None => xobj \notin Flying)
    BY FlyingApart
  <1>4. Flying' \subseteq Flying /\ None \notin Flying'
    BY <1>2, <1>3 DEF Flying
  <1>6. UNCHANGED heap \/ (mobj # None /\ heap' = [heap EXCEPT ![mobj] = <<>>] /\ UNCHANGED dobj)
    BY DEF TakePoint, Timeout, Free
  <1>7. mobj # None => mobj \notin {dobj, xobj} \cup Range(w)
    BY DEF Places, HeapInv
  <1>8. \A o \in Flying' \cup ({xobj} \ {None}) : heap'[o] = heap[o]
    <2>1. CASE UNCHANGED heap
      BY <2>1
    <2>2. CASE mobj # None /\ heap' = [heap EXCEPT ![mobj] = <<>>] /\ UNCHANGED dobj
      <3>1. mobj \notin Flying' \cup {xobj}
        BY <1>2, <1>7, <2>2 DEF Flying
      <3>2. Flying' \cup ({xobj} \ {None}) \subseteq Objs /\ DOMAIN heap = Objs
        BY <1>4, FlyingApart DEF Places, HeapInv
      <3>3. \A o \in Objs : o # mobj => heap'[o] = heap[o]
        BY <2>2, <3>2
      <3> QED BY <3>1, <3>2, <3>3
    <2> QED BY <1>6, <2>1, <2>2
  <1>9. \A o, q \in Flying' : Precedes(o, q)' => Precedes(o, q)
    BY <1>2, <1>4 DEF Precedes
  <1>10. xobj' # None => Item(xobj)'.from.run = None
    BY <1>2, <1>8 DEF FlightInv, Item
  <1>11. Len(rules') \in Nat /\ budget'.restarts = budget.restarts
    BY <1>2 DEF FlightInv
  <1>12. \A s \in DOMAIN last' : s \in DOMAIN last /\ last'[s] = last[s]
    BY <1>2
  <1>13. \A o \in Flying' : heap'[o] = heap[o]
    BY <1>8
  <1> QED BY <1>1, <1>2, <1>4, <1>9, <1>10, <1>11, <1>12, <1>13, FlightShrinks

\* decode enqueues its point behind those in the channel.
LEMMA EnqueueFlight ==
    ASSUME Places, TickInv, FlightInv, Enqueue
    PROVE  FlightInv'
  <1>1. clock \in Int /\ clock' \in Int /\ clock <= clock'
    BY FlightClock DEF Enqueue, boundVars
  <1>2. /\ dpc = "put" /\ w' = Append(w, dobj) /\ dobj' = None
        /\ UNCHANGED <<rules, dec, last, budget, xobj, mobj, heap>>
    BY DEF Enqueue, boundVars, exportVars, castVars
  <1>3. dobj \in Objs /\ dobj # None /\ w \in Seq(Objs)
    BY <1>2 DEF Places, HandInv
  <1>4. /\ Range(w') = Range(w) \cup {dobj} /\ DOMAIN w = 1..Len(w) /\ Len(w) \in Nat
        /\ DOMAIN w' = 1..(Len(w) + 1) /\ w'[Len(w) + 1] = dobj
        /\ \A i \in 1..Len(w) : w'[i] = w[i]
    BY <1>2, <1>3, RangeAppend, AppendProperties, LenProperties
  <1>5. Flying' = Flying /\ None \notin Flying
    BY <1>2, <1>3, <1>4, FlyingApart DEF Flying
  <1>6. ASSUME NEW o \in Flying', NEW q \in Flying', Precedes(o, q)' PROVE Precedes(o, q)
    <2>1. o # None /\ q # None
      BY <1>5
    <2>2. CASE \E i, j \in DOMAIN w' : i < j /\ w'[i] = o /\ w'[j] = q
      <3>1. PICK i \in DOMAIN w', j \in DOMAIN w' : i < j /\ w'[i] = o /\ w'[j] = q
        BY <2>2
      <3>2. i \in 1..Len(w) /\ w[i] = o
        BY <1>4, <3>1
      <3>3. CASE j \in 1..Len(w)
        BY <1>4, <3>1, <3>2, <3>3 DEF Precedes
      <3>4. CASE j = Len(w) + 1
        <4>1. q = dobj /\ o \in Range(w)
          BY <1>4, <3>1, <3>2, <3>4 DEF Range
        <4> QED BY <4>1 DEF Precedes
      <3> QED BY <1>4, <3>1, <3>3, <3>4
    <2>3. CASE o \in Range(w') /\ q \in {mobj', dobj'}
      <3>1. q = mobj /\ o \in Range(w) \cup {dobj}
        BY <1>2, <1>4, <2>1, <2>3
      <3> QED BY <3>1 DEF Precedes
    <2>4. ~(o = dobj' /\ q = mobj')
      BY <1>2, <2>1
    <2> QED BY <1>6, <2>2, <2>3, <2>4 DEF Precedes
  <1>7. xobj' # None => Item(xobj)'.from.run = None
    BY <1>2 DEF FlightInv, Item
  <1>8. Len(rules') \in Nat /\ budget'.restarts = budget.restarts
    BY <1>2 DEF FlightInv
  <1>9. \A s \in DOMAIN last' : s \in DOMAIN last /\ last'[s] = last[s]
    BY <1>2
  <1>10. Flying' \subseteq Flying /\ \A o \in Flying' : heap'[o] = heap[o]
    BY <1>2, <1>5
  <1> QED BY <1>1, <1>2, <1>6, <1>7, <1>8, <1>9, <1>10, FlightShrinks

\* What the filter lets pass has the time and the origin of the point it was given.
LEMMA FilteredCast ==
    ASSUME NEW o, Filtered(o), Len(rules) \in Nat
    PROVE  \/ /\ heap' = [heap EXCEPT ![o] = <<>>] /\ UNCHANGED castVars
           \/ \E c : /\ heap' = [heap EXCEPT ![o] = <<c>>] /\ cast' = c /\ bobj' = o
                     /\ c.from = Item(o).from /\ SourceOf(c) = SourceOf(Item(o))
                     /\ last' = Assigned(last, SourceOf(c), c.point.time)
                     /\ IsPoint(Item(o).point) => c.point.time = Item(o).point.time
  <1> DEFINE e == Eval(rules, heap[o][1].point)
             c == [point |-> e.point, from |-> heap[o][1].from]
  <1>1. CASE e.verdict = "pass"
    <2>1. /\ heap' = [heap EXCEPT ![o] = <<c>>] /\ cast' = c /\ bobj' = o
          /\ last' = Assigned(last, SourceOf(c), e.point.time)
      BY <1>1 DEF Filtered
    <2>2. IsPoint(Item(o).point) => e.point.time = Item(o).point.time
      BY EvalKeeps DEF Item
    <2>3. c.from = Item(o).from /\ c.point = e.point
      BY DEF Item
    <2> HIDE DEF c, e
    <2>4. SourceOf(c) = SourceOf(Item(o))
      BY <2>3 DEF SourceOf
    <2>5. IsPoint(Item(o).point) => c.point.time = Item(o).point.time
      BY <2>2, <2>3
    <2>6. last' = Assigned(last, SourceOf(c), c.point.time)
      BY <2>1, <2>3
    <2> QED BY <2>1, <2>3, <2>4, <2>5, <2>6
  <1>2. CASE e.verdict # "pass"
    BY <1>2 DEF Filtered, Free
  <1> QED BY <1>1, <1>2

\* Broadcast takes the point at the head of the channel.
LEMMA PluginsFlight ==
    ASSUME Places, TickInv, FlightInv, NextFromPlugins
    PROVE  FlightInv'
  <1> DEFINE h == Head(w)
  <1>1. clock \in Int /\ clock' \in Int /\ clock <= clock'
    BY FlightClock DEF NextFromPlugins, boundVars
  <1>2. /\ w # <<>> /\ w' = Tail(w) /\ Filtered(h)
        /\ UNCHANGED <<rules, dec, budget, xobj, mobj, dobj>>
    BY DEF NextFromPlugins, boundVars, exportVars
  <1>3. w \in Seq(Objs) /\ IsInjective(w)
    BY DEF Places, HeapInv
  <1>4. /\ Tail(w) \in Seq(Objs) /\ Len(Tail(w)) = Len(w) - 1 /\ Len(w) \in Nat \ {0}
        /\ DOMAIN w = 1..Len(w) /\ DOMAIN Tail(w) = 1..(Len(w) - 1) /\ h = w[1]
        /\ \A i \in 1..(Len(w) - 1) : Tail(w)[i] = w[i + 1]
        /\ h \in Objs /\ Range(w) = {h} \cup Range(Tail(w)) /\ h \notin Range(Tail(w))
    BY <1>2, <1>3, HeadTailProperties, LenProperties, EmptySeq, RangeHeadTail, InjectiveTail
  <1>5. h \in Flying /\ h \notin {mobj, dobj, xobj}
    <2>1. h # None /\ h \in Range(w)
      BY <1>4, PipelineAssumption
    <2> HIDE DEF h
    <2> QED BY <2>1 DEF Flying, Places, HeapInv
  <1>6. Flying' = Flying \ {h}
    BY <1>2, <1>4, <1>5 DEF Flying
  <1>7. ASSUME NEW o \in Flying' PROVE Precedes(h, o)
    <2>1. CASE o \in Range(Tail(w))
      <3>1. PICK i \in 1..(Len(w) - 1) : o = w[i + 1]
        BY <1>4, <2>1 DEF Range
      <3>2. 1 \in DOMAIN w /\ i + 1 \in DOMAIN w /\ 1 < i + 1
        BY <1>4
      <3> QED BY <1>4, <3>1, <3>2 DEF Precedes
    <2>2. CASE o \in {mobj, dobj}
      BY <1>4, <2>2 DEF Precedes
    <2> QED BY <1>2, <2>1, <2>2 DEF Flying
  <1>8. ASSUME NEW o \in Flying', NEW q \in Flying', Precedes(o, q)' PROVE Precedes(o, q)
    <2>1. CASE \E i, j \in DOMAIN w' : i < j /\ w'[i] = o /\ w'[j] = q
      <3>1. PICK i \in 1..(Len(w) - 1), j \in 1..(Len(w) - 1) : i < j /\ w[i + 1] = o /\ w[j + 1] = q
        BY <1>2, <1>4, <2>1
      <3>2. i + 1 \in DOMAIN w /\ j + 1 \in DOMAIN w /\ i + 1 < j + 1
        BY <1>4, <3>1
      <3> QED BY <3>1, <3>2 DEF Precedes
    <2>2. CASE o \in Range(w') /\ q \in {mobj', dobj'}
      BY <1>2, <1>4, <2>2 DEF Precedes
    <2>3. CASE o = dobj' /\ q = mobj'
      BY <1>2, <2>3 DEF Precedes
    <2> QED BY <1>8, <2>1, <2>2, <2>3 DEF Precedes
  <1> HIDE DEF h
  <1>9. \A o \in Objs : o # h => heap'[o] = heap[o]
    <2>1. PICK x : heap' = [heap EXCEPT ![h] = x]
      BY <1>2 DEF Filtered, Free
    <2>2. DOMAIN heap = Objs
      BY DEF Places, HeapInv
    <2> QED BY <2>1, <2>2
  <1>10. xobj' # None => Item(xobj)'.from.run = None
    <2>1. xobj # None => xobj \in Objs
      BY DEF Places
    <2> QED BY <1>2, <1>5, <1>9, <2>1 DEF FlightInv, Item
  <1>11. Len(rules') \in Nat /\ Len(rules) \in Nat /\ budget'.restarts = budget.restarts
    BY <1>2 DEF FlightInv
  <1>12. Flying' \subseteq Flying /\ \A o \in Flying' : heap'[o] = heap[o]
    BY <1>6, <1>9, FlyingApart
  <1>13. ASSUME NEW s \in DOMAIN last'
         PROVE  \/ s \in DOMAIN last /\ last'[s] = last[s]
                \/ s = SourceOf(Item(h)) /\ last'[s] = Item(h).point.time
    <2>1. IsPoint(Item(h).point)
      BY <1>5 DEF FlightInv, Printed
    <2>2. CASE UNCHANGED last
      BY <2>2
    <2>3. CASE last' = Assigned(last, SourceOf(Item(h)), Item(h).point.time)
      BY <2>3 DEF Assigned
    <2> QED BY <1>2, <1>11, <2>1, <2>2, <2>3, FilteredCast DEF castVars
  <1> QED BY <1>1, <1>2, <1>5, <1>7, <1>8, <1>10, <1>11, <1>12, <1>13, FlightShrinks

\* Broadcast takes a point of the exporter: no plugin's point moves.
LEMMA SelfFlight ==
    ASSUME Places, TickInv, FlightInv, NextFromSelf
    PROVE  FlightInv'
  <1>1. clock \in Int /\ clock' \in Int /\ clock <= clock'
    BY FlightClock DEF NextFromSelf, boundVars
  <1>2. /\ xobj' = None /\ Filtered(xobj) /\ xobj # None
        /\ UNCHANGED <<rules, dec, budget, w, mobj, dobj>>
    BY DEF NextFromSelf, boundVars, decodeVars, Places, HandInv
  <1>3. xobj \notin Flying /\ Item(xobj).from.run = None
    BY <1>2, FlyingApart DEF FlightInv
  <1>4. \A o \in Objs : o # xobj => heap'[o] = heap[o]
    <2>1. PICK x : heap' = [heap EXCEPT ![xobj] = x]
      BY <1>2 DEF Filtered, Free
    <2>2. DOMAIN heap = Objs
      BY DEF Places, HeapInv
    <2> QED BY <2>1, <2>2
  <1>5. Flying' = Flying
    BY <1>2 DEF Flying
  <1>6. \A o, q \in Flying' : Precedes(o, q)' => Precedes(o, q)
    BY <1>2 DEF Precedes
  <1>7. Len(rules') \in Nat /\ Len(rules) \in Nat /\ budget'.restarts = budget.restarts
    BY <1>2 DEF FlightInv
  <1>8. Flying' \subseteq Flying /\ \A o \in Flying' : heap'[o] = heap[o]
    BY <1>3, <1>4, <1>5, FlyingApart
  <1>9. ASSUME NEW s \in DOMAIN last', s[1] # None PROVE s \in DOMAIN last /\ last'[s] = last[s]
    <2>1. CASE UNCHANGED last
      BY <2>1
    <2>2. ASSUME NEW t, last' = Assigned(last, SourceOf(Item(xobj)), t)
          PROVE  s \in DOMAIN last /\ last'[s] = last[s]
      <3>1. s # SourceOf(Item(xobj))
        BY <1>3, <1>9 DEF SourceOf
      <3> QED BY <2>2, <3>1 DEF Assigned
    <2> QED BY <1>2, <1>7, <2>1, <2>2, FilteredCast DEF castVars
  <1> QED BY <1>1, <1>2, <1>6, <1>7, <1>8, <1>9, FlightShrinks

\* The exporter fills a free struct, and Broadcast frees its own.
LEMMA ExportFlight ==
    ASSUME Places, TickInv, FlightInv, ExportTick \/ ExportMap
    PROVE  FlightInv'
  <1>1. clock \in Int /\ clock' \in Int /\ clock <= clock'
    BY FlightClock DEF ExportTick, ExportMap, boundVars
  <1>2. UNCHANGED <<rules, dec, last, w, mobj, dobj, budget>> /\ xobj = None
    BY DEF ExportTick, ExportMap, boundVars, decodeVars, castVars, Places, HandInv
  <1>3. Obj \in Objs /\ Obj \notin Owned /\ Flying \subseteq Owned /\ DOMAIN heap = Objs
    BY <1>2, FreeObj, FlyingApart DEF Places, HeapInv
  <1> DEFINE o == Obj
  <1>4. \/ UNCHANGED <<xobj, heap>>
        \/ \E p : xobj' = o /\ heap' = [heap EXCEPT ![o] = <<[point |-> p, from |-> Own]>>]
    BY DEF ExportTick, ExportMap, ExportKey, getPoint
  <1> HIDE DEF o
  <1>5. o \in Objs /\ o \notin Owned
    BY <1>3 DEF o
  <1>6. CASE UNCHANGED <<xobj, heap>>
    BY <1>1, <1>2, <1>6, FlightFrame
  <1>7. ASSUME NEW p, xobj' = o, heap' = [heap EXCEPT ![o] = <<[point |-> p, from |-> Own]>>]
        PROVE  FlightInv'
    <2>1. heap'[o] = <<[point |-> p, from |-> Own]>>
      BY <1>3, <1>5, <1>7
    <2>2. Item(xobj)'.from.run = None
      BY <1>7, <2>1 DEF Item, Own
    <2>3. \A q \in Flying : heap'[q] = heap[q]
      BY <1>3, <1>5, <1>7
    <2> QED BY <1>1, <1>2, <2>2, <2>3, FlightFrame
  <1> QED BY <1>4, <1>6, <1>7

LEMMA SubmitFlight ==
    ASSUME Places, TickInv, FlightInv, Submit \/ Drop
    PROVE  FlightInv'
  <1>1. clock \in Int /\ clock' \in Int /\ clock <= clock'
    BY FlightClock DEF Submit, Drop, boundVars
  <1>2. UNCHANGED <<rules, dec, last, w, mobj, dobj, budget, xobj>> /\ bobj # None
    BY DEF Submit, Drop, boundVars, decodeVars, exportVars, Places, HandInv
  <1>3. bobj \notin Flying /\ (xobj # None => xobj # bobj)
    BY <1>2, FlyingApart DEF Places, HeapInv
  <1>4. UNCHANGED heap \/ heap' = [heap EXCEPT ![bobj] = <<>>]
    BY DEF Submit, Drop, SubmitDone, Free
  <1>5. \A o \in Objs : o # bobj => heap'[o] = heap[o]
    <2>1. DOMAIN heap = Objs
      BY DEF Places, HeapInv
    <2> QED BY <1>4, <2>1
  <1>6. xobj' # None => Item(xobj)'.from.run = None
    <2>1. xobj # None => xobj \in Objs
      BY DEF Places
    <2> QED BY <1>2, <1>3, <1>5, <2>1 DEF FlightInv, Item
  <1>7. \A o \in Flying : heap'[o] = heap[o]
    BY <1>3, <1>5, FlyingApart
  <1> QED BY <1>1, <1>2, <1>6, <1>7, FlightFrame

\* The pool starts an incarnation that has printed nothing: no point is of it.
LEMMA StartFlight ==
    ASSUME Places, TickInv, FlightInv, StartProcess
    PROVE  FlightInv'
  <1>1. /\ budget' = [budget EXCEPT !.restarts = @ - 1] /\ dec' = NewDecoder
        /\ UNCHANGED <<rules, last, w, mobj, dobj, xobj, heap, clock>>
    BY DEF StartProcess, exportVars, castVars
  <1>2. budget \in Bounds /\ budget.restarts \in Nat
    BY DEF TickInv, Bounds
  <1>3. budget'.restarts = budget.restarts - 1
    BY <1>1, <1>2 DEF Bounds
  <1>4. Flying' = Flying
    BY <1>1 DEF Flying
  <1>5. DOMAIN dec'.bySeries = {}
    BY <1>1 DEF NewDecoder
  <1>6. ASSUME NEW s \in DOMAIN last', s[1] # None
        PROVE  last'[s] \in Int /\ s[1] \in Nat /\ s[1] >= budget'.restarts /\ s[1] # budget'.restarts
    <2>1. last[s] \in Int /\ s[1] \in Nat /\ s[1] >= budget.restarts
      BY <1>1, <1>6 DEF FlightInv
    <2> QED BY <1>1, <1>2, <1>3, <2>1
  <1>7. \A o : Item(o)' = Item(o)
    BY <1>1 DEF Item
  <1>8. ASSUME NEW o \in Flying'
        PROVE  /\ Printed(Item(o))' /\ Item(o)'.from.run # budget'.restarts
               /\ SourceOf(Item(o))' \in DOMAIN last' => Follows(last[SourceOf(Item(o))], Item(o))'
    <2>1. /\ Printed(Item(o))
          /\ SourceOf(Item(o)) \in DOMAIN last => Follows(last[SourceOf(Item(o))], Item(o))
      BY <1>4 DEF FlightInv
    <2>2. Item(o).from.run \in Nat /\ Item(o).from.run >= budget.restarts
      BY <2>1 DEF Printed
    <2>3. Item(o).from.run >= budget'.restarts /\ Item(o).from.run # budget'.restarts
      BY <1>2, <1>3, <2>2
    <2>4. Printed(Item(o))'
      BY <1>7, <2>1, <2>3 DEF Printed, IsPoint
    <2>5. SourceOf(Item(o))' = SourceOf(Item(o))
      BY <1>7 DEF SourceOf
    <2> QED BY <1>1, <1>7, <2>1, <2>3, <2>4, <2>5 DEF Follows
  <1>9. ASSUME NEW o \in Flying', NEW q \in Flying', Precedes(o, q)',
               SourceOf(Item(o))' = SourceOf(Item(q))'
        PROVE  Follows(Item(o).point.time, Item(q))'
    <2>1. Precedes(o, q)
      BY <1>1, <1>9 DEF Precedes
    <2>2. SourceOf(Item(o)) = SourceOf(Item(q))
      BY <1>7, <1>9 DEF SourceOf
    <2>3. Follows(Item(o).point.time, Item(q))
      BY <1>4, <2>1, <2>2 DEF FlightInv
    <2> QED BY <1>7, <2>3 DEF Follows
  <1>10. Len(rules') \in Nat /\ (xobj' # None => Item(xobj)'.from.run = None)
    BY <1>1 DEF FlightInv, Item
  <1>11. \A x \in DOMAIN dec'.bySeries : dec'.bySeries[x] \in Int
    BY <1>5
  <1> QED BY <1>6, <1>8, <1>9, <1>10, <1>11 DEF FlightInv

\* The decoder accepts a point only if it follows all those of its series that are
\* under way or have been broadcast, and remembers it.
LEMMA ReadFlight ==
    ASSUME Places, TickInv, Decoding, FlightInv, NEW line \in Lines, ReadLine(line)
    PROVE  FlightInv'
  <1>0. PICK n : n = Obj
    OBVIOUS
  <1> DEFINE e == Decode(dec, line, Now)
             s == appendSeries(e.point)
             c == [point |-> e.point, from |-> [series |-> s, run |-> budget.restarts, at |-> clock]]
  <1>1. /\ mpc = "read" /\ budget' = [budget EXCEPT !.lines = @ - 1] /\ dec' = e.dec
        /\ UNCHANGED <<rules, last, w, dobj, xobj, clock>>
    BY DEF ReadLine, exportVars, castVars
  <1>2. \/ Failed(e.point) /\ UNCHANGED <<mobj, heap>>
        \/ ~Failed(e.point) /\ heap' = [heap EXCEPT ![n] = <<c>>] /\ mobj' = n
    BY <1>0 DEF ReadLine, getPoint
  <1>3. mobj = None
    BY <1>1 DEF Places, HandInv
  <1>4. n \in Objs /\ n \notin Owned /\ n # None
    BY <1>0, <1>3, FreeObj, PipelineAssumption
  <1>5. /\ budget.restarts \in Nat /\ budget'.restarts = budget.restarts
        /\ clock \in Nat /\ Now \in Int /\ Now <= clock
    BY <1>1 DEF TickInv, Bounds, Now
  <1>6. MaxAge \in Nat /\ None \notin Nat
    BY DecoderAssumption, PipelineAssumption
  <1>7. /\ \A x \in DOMAIN dec.bySeries : dec.bySeries[x] \in Int
        /\ dec = [bySeries |-> dec.bySeries, countdown |-> dec.countdown]
    BY DEF FlightInv, Decoding, DecoderInv
  <1>8. /\ \A x \in DOMAIN e.dec.bySeries : e.dec.bySeries[x] \in Int
        /\ \A x \in DOMAIN dec.bySeries : \A t \in Int : t <= dec.bySeries[x] =>
              \/ x \in DOMAIN e.dec.bySeries /\ t <= e.dec.bySeries[x]
              \/ t <= Now - MaxAge
        /\ ~Failed(e.point) =>
              /\ IsPoint(e.point)
              /\ s \in DOMAIN e.dec.bySeries /\ e.dec.bySeries[s] = e.point.time
              /\ \A t \in Int : s \in DOMAIN dec.bySeries /\ t <= dec.bySeries[s] =>
                    t < e.point.time \/ t <= Now - MaxAge
    BY <1>5, <1>7, DecodeRemembers
  <1> HIDE DEF e, s
  <1>9. ASSUME NEW x, NEW t \in Int, Remembered(x, t) PROVE Remembered(x, t)'
    <2>1. \/ x \in DOMAIN dec'.bySeries /\ t <= dec'.bySeries[x]
          \/ t <= clock - MaxAge
      BY <1>1, <1>5, <1>6, <1>8, <1>9, LaterStill DEF Remembered
    <2> QED BY <1>1, <2>1 DEF Remembered
  <1>10. ASSUME ~Failed(e.point), NEW t \in Int, Remembered(s, t)
         PROVE  t < e.point.time \/ t <= clock - MaxAge
    BY <1>5, <1>6, <1>8, <1>10, LaterStill DEF Remembered
  <1>11. DOMAIN heap = Objs /\ Flying \subseteq Objs /\ Flying \subseteq Owned /\ None \notin Flying
    BY FlyingApart DEF Places, HeapInv
  <1>12. \A o \in Objs : o # n => heap'[o] = heap[o]
    BY <1>2, <1>11
  <1>13. \A o \in Flying : o # n /\ Item(o)' = Item(o)
    BY <1>4, <1>11, <1>12 DEF Item
  <1>14. xobj' # None => Item(xobj)'.from.run = None
    <2>1. xobj # None => xobj \in Objs /\ xobj # n
      BY <1>4 DEF Places, Owned
    <2> QED BY <1>1, <1>12, <2>1 DEF FlightInv, Item
  <1>15. ASSUME NEW x \in DOMAIN last', x[1] # None
         PROVE  /\ last'[x] \in Int /\ x[1] \in Nat /\ x[1] >= budget'.restarts
                /\ x[1] = budget'.restarts => Remembered(x[2], last[x])'
    <2>1. /\ last[x] \in Int /\ x[1] \in Nat /\ x[1] >= budget.restarts
          /\ x[1] = budget.restarts => Remembered(x[2], last[x])
      BY <1>1, <1>15 DEF FlightInv
    <2> QED BY <1>1, <1>5, <1>9, <2>1 DEF Remembered
  <1>16. ASSUME NEW o \in Flying
         PROVE  /\ Printed(Item(o))'
                /\ SourceOf(Item(o))' \in DOMAIN last' => Follows(last[SourceOf(Item(o))], Item(o))'
                /\ Item(o)'.from.run = budget'.restarts =>
                      Remembered(Item(o).from.series, Item(o).point.time)'
    <2>1. Item(o)' = Item(o)
      BY <1>13
    <2>2. /\ Printed(Item(o))
          /\ SourceOf(Item(o)) \in DOMAIN last => Follows(last[SourceOf(Item(o))], Item(o))
          /\ Item(o).from.run = budget.restarts =>
                Remembered(Item(o).from.series, Item(o).point.time)
      BY DEF FlightInv
    <2>3. Printed(Item(o))' /\ Item(o).point.time \in Int
      BY <1>5, <2>1, <2>2 DEF Printed, IsPoint
    <2>4. SourceOf(Item(o))' = SourceOf(Item(o))
      BY <2>1 DEF SourceOf
    <2>5. SourceOf(Item(o))' \in DOMAIN last' => Follows(last[SourceOf(Item(o))], Item(o))'
      BY <1>1, <2>1, <2>2, <2>4 DEF Follows
    <2>6. Item(o)'.from.run = budget'.restarts =>
             Remembered(Item(o).from.series, Item(o).point.time)'
      BY <1>5, <1>9, <2>1, <2>2, <2>3 DEF Remembered
    <2> QED BY <2>3, <2>5, <2>6
  <1>17. ASSUME NEW o \in Flying, NEW q \in Flying, Precedes(o, q)',
                SourceOf(Item(o))' = SourceOf(Item(q))'
         PROVE  Follows(Item(o).point.time, Item(q))'
    <2>1. Item(o)' = Item(o) /\ Item(q)' = Item(q) /\ o # n /\ q # n /\ o # None /\ q # None
      BY <1>11, <1>13
    <2>2. Precedes(o, q)
      BY <1>1, <1>2, <1>3, <1>17, <2>1 DEF Precedes
    <2>3. SourceOf(Item(o)) = SourceOf(Item(q))
      BY <1>17, <2>1 DEF SourceOf
    <2>4. Follows(Item(o).point.time, Item(q))
      BY <2>2, <2>3 DEF FlightInv
    <2> QED BY <2>1, <2>4 DEF Follows
  <1>18. Len(rules') \in Nat /\ \A x \in DOMAIN dec'.bySeries : dec'.bySeries[x] \in Int
    BY <1>1, <1>8 DEF FlightInv
  <1>19. CASE UNCHANGED <<mobj, heap>>
    <2>1. Flying' = Flying
      BY <1>1, <1>19 DEF Flying
    <2> QED BY <1>14, <1>15, <1>16, <1>17, <1>18, <2>1 DEF FlightInv
  <1>20. CASE ~Failed(e.point) /\ heap' = [heap EXCEPT ![n] = <<c>>] /\ mobj' = n
    <2>1. Flying' = Flying \cup {n}
      BY <1>1, <1>3, <1>4, <1>20 DEF Flying
    <2>2. Item(n)' = c
      BY <1>4, <1>11, <1>20 DEF Item
    <2>3. /\ c.point = e.point /\ c.from.run = budget.restarts /\ c.from.series = s
          /\ c.from.at = clock /\ SourceOf(c) = <<budget.restarts, s>> /\ e.point.time \in Int
          /\ c.from = [series |-> c.from.series, run |-> c.from.run, at |-> c.from.at]
      BY <1>8, <1>20 DEF SourceOf, IsPoint
    <2> HIDE DEF c
    <2>4. ASSUME NEW t \in Int, Remembered(s, t) PROVE Follows(t, c)
      BY <1>10, <1>20, <2>3, <2>4 DEF Follows
    <2>5. Printed(Item(n))'
      BY <1>5, <1>8, <1>20, <2>2, <2>3 DEF Printed, IsPoint
    <2>6. SourceOf(c) \in DOMAIN last => Follows(last[SourceOf(c)], c)
      <3> SUFFICES ASSUME SourceOf(c) \in DOMAIN last PROVE Follows(last[SourceOf(c)], c)
        OBVIOUS
      <3>1. SourceOf(c)[1] = budget.restarts /\ SourceOf(c)[2] = s
        BY <2>3
      <3>2. last[SourceOf(c)] \in Int /\ Remembered(s, last[SourceOf(c)])
        BY <1>5, <1>6, <3>1 DEF FlightInv
      <3> QED BY <2>4, <3>2
    <2>7. SourceOf(Item(n))' = SourceOf(c)
      BY <2>2 DEF SourceOf
    <2>8. SourceOf(Item(n))' \in DOMAIN last' => Follows(last[SourceOf(Item(n))], Item(n))'
      BY <1>1, <2>2, <2>6, <2>7 DEF Follows
    <2>9. Remembered(Item(n).from.series, Item(n).point.time)'
      BY <1>1, <1>8, <1>20, <2>2, <2>3 DEF Remembered
    <2>10. ASSUME NEW o \in Flying, SourceOf(Item(o))' = SourceOf(Item(n))'
           PROVE  Follows(Item(o).point.time, Item(n))'
      <3>1. Item(o)' = Item(o) /\ Item(o).point.time \in Int
        BY <1>13 DEF FlightInv, Printed, IsPoint
      <3>2. SourceOf(Item(o)) = <<budget.restarts, s>>
        BY <2>3, <2>7, <2>10, <3>1 DEF SourceOf
      <3>3. Item(o).from.run = budget.restarts /\ Item(o).from.series = s
        BY <3>2 DEF SourceOf
      <3>4. Remembered(s, Item(o).point.time)
        BY <3>3 DEF FlightInv
      <3>5. Follows(Item(o).point.time, c)
        BY <2>4, <3>1, <3>4
      <3> QED BY <2>2, <3>1, <3>5 DEF Follows
    <2>11. ASSUME NEW q \in Flying' PROVE ~Precedes(n, q)'
      <3>1. n \notin Range(w) /\ n # dobj
        BY <1>4 DEF Owned
      <3>2. \A i \in DOMAIN w : w[i] # n
        BY <3>1 DEF Range
      <3> QED BY <1>1, <3>1, <3>2 DEF Precedes
    <2>12. ASSUME NEW o \in Flying', NEW q \in Flying', Precedes(o, q)',
                  SourceOf(Item(o))' = SourceOf(Item(q))'
           PROVE  Follows(Item(o).point.time, Item(q))'
      BY <1>17, <2>1, <2>10, <2>11, <2>12
    <2>13. ASSUME NEW o \in Flying'
           PROVE  /\ Printed(Item(o))'
                  /\ SourceOf(Item(o))' \in DOMAIN last' => Follows(last[SourceOf(Item(o))], Item(o))'
                  /\ Item(o)'.from.run = budget'.restarts =>
                        Remembered(Item(o).from.series, Item(o).point.time)'
      BY <1>16, <2>1, <2>5, <2>8, <2>9
    <2> QED BY <1>14, <1>15, <1>18, <2>12, <2>13 DEF FlightInv
  <1> QED BY <1>2, <1>19, <1>20

LEMMA FlightStep ==
    ASSUME Places, TickInv, Decoding, FlightInv, [Next]_vars, TickInv'
    PROVE  FlightInv'
  <1>1. ASSUME UNCHANGED <<rules, dec, last, w, mobj, dobj, xobj, heap>>,
               budget'.restarts = budget.restarts, clock <= clock'
        PROVE  FlightInv'
    <2>1. clock \in Int /\ clock' \in Int
      BY DEF TickInv
    <2>2. xobj' # None => Item(xobj)'.from.run = None
      BY <1>1 DEF FlightInv, Item
    <2> QED BY <1>1, <2>1, <2>2, FlightFrame
  <1>2. budget \in Bounds /\ clock \in Nat
    BY DEF TickInv
  <1>3. CASE Advance \/ SetClockBack \/ OSTick
    <2>1. UNCHANGED <<rules, dec, last, w, mobj, dobj, xobj, heap>>
      BY <1>3 DEF Advance, SetClockBack, OSTick, decodeVars, exportVars, castVars
    <2>2. clock <= clock'
      BY <1>2, <1>3 DEF Advance, SetClockBack, OSTick
    <2>3. budget'.restarts = budget.restarts
      BY <1>2, <1>3 DEF Advance, SetClockBack, OSTick, Bounds
    <2> QED BY <1>1, <2>1, <2>2, <2>3
  <1>4. ASSUME UNCHANGED <<rules, dec, last, w, mobj, dobj, xobj, heap, budget, clock>>
        PROVE  FlightInv'
    BY <1>1, <1>2, <1>4
  <1>5. CASE ReadEOF \/ TakeError
    BY <1>4, <1>5 DEF ReadEOF, TakeError, boundVars, exportVars, castVars
  <1>6. CASE (\E r \in Relays : Sent(r)) \/ ServerRead \/ ServerEnqueue \/ ServerBroadcast
    BY <1>4, <1>6 DEF Sent, ServerRead, ServerEnqueue, ServerBroadcast, boundVars, decodeVars,
                      exportVars, castVars
  <1>7. CASE UNCHANGED vars
    BY <1>4, <1>7 DEF vars, boundVars, decodeVars, exportVars, castVars
  <1> QED BY <1>3, <1>5, <1>6, <1>7, ReadFlight, TakeFlight, EnqueueFlight, StartFlight,
             ExportFlight, PluginsFlight, SelfFlight, SubmitFlight DEF Next

LEMMA InitFlight == Init => FlightInv
  <1> SUFFICES ASSUME Init PROVE FlightInv
    OBVIOUS
  <1>1. w = <<>> /\ mobj = None /\ dobj = None /\ xobj = None /\ last = <<>>
    BY DEF Init
  <1>2. Flying = {}
    BY <1>1, RangeShort DEF Flying
  <1>3. DOMAIN dec.bySeries = {}
    BY DEF Init, NewDecoder
  <1>4. Len(rules) \in Nat
    <2>1. PICK s \in Scenarios : rules = s.rules
      BY DEF Init
    <2>2. rules \in Seq(Range(rules))
      BY <2>1, PipelineAssumption
    <2> QED BY <2>2, LenProperties
  <1>5. DOMAIN last = {}
    BY <1>1
  <1> QED BY <1>1, <1>2, <1>3, <1>4, <1>5 DEF FlightInv

\* The points of one series that one incarnation of a plugin prints are broadcast in
\* strict time order, unless MaxAge has passed: the decoder's check still holds when
\* the point leaves the filter, whatever waited, was blocked, discarded or restarted in
\* between (internal/tsdb/decoder.go validOrder, internal/relay/pool.go Broadcast).
THEOREM SeriesOrdered == Spec => OrderUnlessAged
  <1> DEFINE A == LET s == SourceOf(cast')
                  IN  bobj = None /\ bobj' # None /\ cast'.from.run # None /\ s \in DOMAIN last =>
                         \/ last[s] < cast'.point.time
                         \/ last[s] <= cast'.from.at - MaxAge
  <1>1. IInv /\ IInv' /\ FlightInv /\ [Next]_vars => FlightInv'
    <2> SUFFICES ASSUME IInv, IInv', FlightInv, [Next]_vars PROVE FlightInv'
      OBVIOUS
    <2>1. Places /\ TickInv /\ Decoding /\ TickInv'
      BY Parts DEF IInv
    <2> QED BY <2>1, FlightStep
  <1>2. IInv /\ FlightInv /\ [Next]_vars => [A]_vars
    <2> SUFFICES ASSUME Places, FlightInv, [Next]_vars, bobj = None, bobj' # None,
                        cast'.from.run # None, SourceOf(cast') \in DOMAIN last
                 PROVE  Follows(last[SourceOf(cast')], cast')
      BY Parts DEF Follows
    <2>1. Len(rules) \in Nat
      BY DEF FlightInv
    <2>2. CASE NextFromPlugins
      <3> DEFINE h == Head(w)
      <3>1. Filtered(h) /\ w # <<>> /\ w \in Seq(Objs)
        BY <2>2 DEF NextFromPlugins, Places
      <3>2. h \in Flying
        BY <3>1, RangeHeadTail DEF Flying
      <3> HIDE DEF h
      <3>3. IsPoint(Item(h).point)
        BY <3>2 DEF FlightInv, Printed
      <3>4. /\ cast'.from = Item(h).from /\ SourceOf(cast') = SourceOf(Item(h))
            /\ cast'.point.time = Item(h).point.time
        BY <2>1, <3>1, <3>3, FilteredCast DEF castVars
      <3>5. Follows(last[SourceOf(Item(h))], Item(h))
        BY <3>2, <3>4 DEF FlightInv
      <3> QED BY <3>4, <3>5 DEF Follows
    <2>3. CASE NextFromSelf
      <3>1. Filtered(xobj) /\ Item(xobj).from.run = None
        BY <2>3 DEF NextFromSelf, Places, HandInv, FlightInv
      <3>2. cast'.from = Item(xobj).from
        BY <2>1, <3>1, FilteredCast DEF castVars
      <3> QED BY <3>1, <3>2
    <2>4. ASSUME UNCHANGED bobj \/ bobj' = None PROVE FALSE
      BY <2>4
    <2>5. CASE Submit \/ Drop
      BY <2>4, <2>5 DEF Submit, Drop, SubmitDone
    <2>6. CASE \/ ReadEOF \/ TakePoint \/ TakeError \/ Timeout \/ Enqueue
               \/ StartProcess \/ \E line \in Lines : ReadLine(line)
      BY <2>4, <2>6 DEF ReadEOF, TakePoint, TakeError, Timeout, Enqueue, StartProcess, ReadLine,
                        castVars
    <2>7. CASE Advance \/ SetClockBack \/ OSTick \/ ExportTick \/ ExportMap
      BY <2>4, <2>7 DEF Advance, SetClockBack, OSTick, ExportTick, ExportMap, castVars
    <2>8. CASE (\E r \in Relays : Sent(r)) \/ ServerRead \/ ServerEnqueue \/ ServerBroadcast
      BY <2>4, <2>8 DEF Sent, ServerRead, ServerEnqueue, ServerBroadcast, castVars
    <2>9. CASE UNCHANGED vars
      BY <2>4, <2>9 DEF vars, castVars
    <2> QED BY <2>2, <2>3, <2>5, <2>6, <2>7, <2>8, <2>9 DEF Next
  <1> HIDE DEF A
  <1>3. Spec => [][A]_vars
    BY <1>1, <1>2, InitFlight, InductiveInvariant, PTL DEF Spec
  <1> QED BY <1>3 DEF OrderUnlessAged, A

-------------------------------------------------------------------------------
(* What the server reads.                                                    *)

\* Keys are distinct when no two positions have the same one.
LEMMA DistinctMeans ==
    ASSUME NEW S, NEW t \in Seq(S)
    PROVE  DistinctKeys(t) <=> \A i, j \in 1..Len(t) : t[i][1] = t[j][1] => i = j
  <1> DEFINE f == [i \in 1..Len(t) |-> t[i][1]]
             K == {t[i][1] : i \in 1..Len(t)}
  <1>1. Len(t) \in Nat /\ DOMAIN t = 1..Len(t)
    BY LenProperties
  <1>2. DistinctKeys(t) <=> Cardinality(K) = Len(t)
    BY <1>1 DEF DistinctKeys, Keys
  <1>3. IsFiniteSet(1..Len(t)) /\ Cardinality(1..Len(t)) = Len(t)
    BY <1>1, FS_Interval
  <1>4. f \in Surjection(1..Len(t), K)
    BY DEF Surjection
  <1> HIDE DEF K
  <1>5. Cardinality(K) = Cardinality(1..Len(t)) <=> f \in Injection(1..Len(t), K)
    <2> HIDE DEF f
    <2> QED BY <1>3, <1>4, FS_Surjection
  <1>6. f \in Injection(1..Len(t), K) <=> \A i, j \in 1..Len(t) : t[i][1] = t[j][1] => i = j
    <2>1. f \in [1..Len(t) -> K]
      BY <1>4 DEF Surjection
    <2>2. f \in Injection(1..Len(t), K) <=> \A i, j \in 1..Len(t) : f[i] = f[j] => i = j
      <3> HIDE DEF f
      <3> QED BY <2>1 DEF Injection, IsInjective
    <2> QED BY <2>2
  <1> HIDE DEF f
  <1> QED BY <1>2, <1>3, <1>5, <1>6

\* The tags that are left are tags of the point, none with one of the keys.
LEMMA WithoutKeeps ==
    ASSUME NEW S, NEW t \in Seq(S), NEW ks
    PROVE  /\ Without(t, ks) \in Seq(S)
           /\ \A i \in 1..Len(Without(t, ks)) :
                 \E j \in 1..Len(t) : Without(t, ks)[i] = t[j] /\ t[j][1] \notin ks
           /\ DistinctKeys(t) => DistinctKeys(Without(t, ks))
  <1> DEFINE N == Len(t)
             Kept(s, n) == IF t[n][1] \in ks THEN s ELSE Append(s, t[n])
             step == [x \in Seq(S) \X (1..N) |-> Kept(x[1], x[2])]
             Is(f) == f = [n \in 0..N |-> IF n = 0 THEN <<>>
                                          ELSE IF t[n][1] \in ks THEN f[n - 1]
                                          ELSE Append(f[n - 1], t[n])]
  <1>1. N \in Nat /\ \A n \in 1..N : t[n] \in S
    BY LenProperties, ElementOfSeq
  <1>2. \E f : Is(f)
    <2>1. <<>> \in Seq(S)
      BY EmptySeq
    <2>2. step \in [Seq(S) \X (1..N) -> Seq(S)]
      <3>1. ASSUME NEW x \in Seq(S) \X (1..N) PROVE Kept(x[1], x[2]) \in Seq(S)
        <4>1. x[1] \in Seq(S) /\ t[x[2]] \in S
          BY <1>1
        <4> QED BY <4>1, AppendProperties
      <3> QED BY <3>1
    <2>3. PICK f \in [0..N -> Seq(S)] : /\ f[0] = <<>>
                                        /\ \A n \in 1..N : f[n] = step[<<f[n - 1], n>>]
      <3>1. \E f : f \in [0..N -> Seq(S)] /\ Unrolls(f, N, <<>>, step)
        <4> HIDE DEF step, N
        <4> QED BY <1>1, <2>1, <2>2, Recursion
      <3> QED BY <3>1 DEF Unrolls
    <2>4. ASSUME NEW n \in 1..N PROVE f[n] = Kept(f[n - 1], n)
      <3>1. n - 1 \in 0..N
        BY <1>1
      <3> QED BY <2>3, <3>1
    <2>5. f = [n \in 0..N |-> f[n]]
      OBVIOUS
    <2>6. ASSUME NEW n \in 0..N
          PROVE  f[n] = IF n = 0 THEN <<>>
                        ELSE IF t[n][1] \in ks THEN f[n - 1] ELSE Append(f[n - 1], t[n])
      <3>1. n # 0 => n \in 1..N
        BY <1>1
      <3> QED BY <2>3, <2>4, <3>1
    <2>7. Is(f)
      BY <2>5, <2>6
    <2> QED BY <2>7
  <1> DEFINE kept == CHOOSE f : Is(f)
  <1>3. Is(kept)
    <2> HIDE DEF Is
    <2> QED BY <1>2
  <1>4. Without(t, ks) = kept[N]
    BY DEF Without
  <1> HIDE DEF kept
  <1>5. kept[0] = <<>> /\ \A n \in 1..N : kept[n] = Kept(kept[n - 1], n)
    <2>1. 0 \in 0..N
      BY <1>1
    <2>2. ASSUME NEW n \in 1..N PROVE n \in 0..N /\ n # 0
      BY <1>1
    <2> QED BY <1>3, <2>1, <2>2
  <1> DEFINE Apart(s) == \A i, j \in 1..Len(s) : s[i][1] = s[j][1] => i = j
             Good(s, n) == /\ s \in Seq(S)
                           /\ \A i \in 1..Len(s) : \E j \in 1..n : s[i] = t[j] /\ t[j][1] \notin ks
                           /\ Apart(t) => Apart(s)
             T == {n \in 0..N : Good(kept[n], n)}
  <1>6. 0 \in T
    <2>1. Good(<<>>, 0)
      BY EmptySeq
    <2>2. 0 \in 0..N
      BY <1>1
    <2> HIDE DEF Good
    <2> QED BY <1>5, <2>1, <2>2
  <1>7. ASSUME NEW n \in 1..N, n - 1 \in T PROVE n \in T
    <2> DEFINE s == kept[n - 1]
               r == Append(s, t[n])
    <2>1. Good(s, n - 1) /\ n \in 0..N /\ kept[n] = Kept(s, n)
      BY <1>1, <1>5, <1>7
    <2> HIDE DEF s
    <2>2. Len(s) \in Nat /\ \A i \in 1..Len(s) : \E j \in 1..(n - 1) : s[i] = t[j] /\ t[j][1] \notin ks
      BY <2>1, LenProperties
    <2>3. CASE t[n][1] \in ks
      <3>1. \A i \in 1..Len(s) : \E j \in 1..n : s[i] = t[j] /\ t[j][1] \notin ks
        BY <2>2
      <3>2. Good(s, n)
        BY <2>1, <3>1
      <3> HIDE DEF Good
      <3> QED BY <2>1, <2>3, <3>2
    <2>4. CASE t[n][1] \notin ks
      <3>1. /\ r \in Seq(S) /\ Len(r) = Len(s) + 1 /\ r[Len(s) + 1] = t[n]
            /\ \A i \in 1..Len(s) : r[i] = s[i]
        BY <1>1, <2>1, AppendProperties
      <3> HIDE DEF r
      <3>2. \A i \in 1..Len(r) : i \in 1..Len(s) \/ i = Len(s) + 1
        BY <2>2, <3>1
      <3>3. \A i \in 1..Len(r) : \E j \in 1..n : r[i] = t[j] /\ t[j][1] \notin ks
        <4> SUFFICES ASSUME NEW i \in 1..Len(r)
                     PROVE  \E j \in 1..n : r[i] = t[j] /\ t[j][1] \notin ks
          OBVIOUS
        <4>1. CASE i \in 1..Len(s)
          BY <2>2, <3>1, <4>1
        <4>2. CASE i = Len(s) + 1
          <5>1. n \in 1..n
            OBVIOUS
          <5> QED BY <2>4, <3>1, <4>2, <5>1
        <4> QED BY <3>2, <4>1, <4>2
      <3>4. ASSUME Apart(t) PROVE Apart(r)
        <4>1. \A i \in 1..Len(s) : r[i][1] # t[n][1]
          <5> SUFFICES ASSUME NEW i \in 1..Len(s), r[i][1] = t[n][1] PROVE FALSE
            OBVIOUS
          <5>1. PICK j \in 1..(n - 1) : s[i] = t[j]
            BY <2>2
          <5>2. j \in 1..Len(t) /\ n \in 1..Len(t) /\ t[j][1] = t[n][1] /\ j # n
            BY <1>1, <3>1, <5>1
          <5> QED BY <3>4, <5>2
        <4>2. Apart(s)
          BY <2>1, <3>4
        <4>3. ASSUME NEW i \in 1..Len(r), NEW j \in 1..Len(r), r[i][1] = r[j][1] PROVE i = j
          <5>1. CASE i \in 1..Len(s) /\ j \in 1..Len(s)
            BY <3>1, <4>2, <4>3, <5>1
          <5>2. CASE i = Len(s) + 1 \/ j = Len(s) + 1
            BY <3>1, <3>2, <4>1, <4>3, <5>2
          <5> QED BY <3>2, <5>1, <5>2
        <4> QED BY <4>3
      <3>5. Good(r, n)
        BY <3>1, <3>3, <3>4
      <3> HIDE DEF Good
      <3> QED BY <2>1, <2>4, <3>5 DEF r
    <2> QED BY <2>3, <2>4
  <1>8. Good(kept[N], N)
    <2> HIDE DEF T, Good
    <2>1. N \in 0..N
      BY <1>1
    <2>2. N \in T
      BY <1>1, <1>6, <1>7, <2>1, UpTo
    <2> QED BY <2>2 DEF T
  <1>9. DistinctKeys(t) => DistinctKeys(kept[N])
    BY <1>8, DistinctMeans
  <1> QED BY <1>4, <1>8, <1>9

\* What SetTags puts together.
LEMMA TagsSound ==
    ASSUME NEW U, NEW t \in Seq(U), NEW kv \in Seq(U),
           \A i \in DOMAIN t : validTag(t[i]), \A i \in DOMAIN kv : validTag(kv[i]),
           NEW all, all = kv \o Without(t, Keys(kv))
    PROVE  /\ all \in Seq(U) /\ Len(all) \in Nat
           /\ \A i \in DOMAIN all : validTag(all[i])
           /\ DistinctKeys(t) /\ DistinctKeys(kv) => DistinctKeys(all)
  <1> DEFINE o == Without(t, Keys(kv))
  <1>1. /\ o \in Seq(U)
        /\ \A i \in 1..Len(o) : \E j \in 1..Len(t) : o[i] = t[j] /\ t[j][1] \notin Keys(kv)
        /\ DistinctKeys(t) => DistinctKeys(o)
    BY WithoutKeeps
  <1>2. all = kv \o o
    OBVIOUS
  <1> HIDE DEF o
  <1>3. /\ Len(kv) \in Nat /\ Len(o) \in Nat
        /\ DOMAIN kv = 1..Len(kv) /\ DOMAIN t = 1..Len(t)
    BY <1>1, LenProperties
  <1>4. /\ all \in Seq(U) /\ Len(all) = Len(kv) + Len(o)
        /\ \A i \in 1..Len(kv) + Len(o) : all[i] = IF i <= Len(kv) THEN kv[i] ELSE o[i - Len(kv)]
    BY <1>1, <1>2, ConcatProperties
  <1>5. DOMAIN all = 1..Len(kv) + Len(o)
    BY <1>4, LenProperties
  <1>6. ASSUME NEW i \in 1..Len(kv) + Len(o)
        PROVE  \/ i \in 1..Len(kv) /\ all[i] = kv[i]
               \/ i - Len(kv) \in 1..Len(o) /\ all[i] = o[i - Len(kv)]
    BY <1>3, <1>4
  <1>7. \A i \in DOMAIN all : validTag(all[i])
    <2> SUFFICES ASSUME NEW i \in 1..Len(kv) + Len(o) PROVE validTag(all[i])
      BY <1>5
    <2>1. \A n \in 1..Len(o) : validTag(o[n])
      BY <1>1, <1>3
    <2>2. \A n \in 1..Len(kv) : validTag(kv[n])
      BY <1>3
    <2> QED BY <1>6, <2>1, <2>2
  <1>8. ASSUME DistinctKeys(t), DistinctKeys(kv) PROVE DistinctKeys(all)
    <2>1. \A i, j \in 1..Len(kv) : kv[i][1] = kv[j][1] => i = j
      BY <1>8, DistinctMeans
    <2>2. \A i, j \in 1..Len(o) : o[i][1] = o[j][1] => i = j
      BY <1>1, <1>8, DistinctMeans
    <2>3. \A i \in 1..Len(kv), j \in 1..Len(o) : kv[i][1] # o[j][1]
      BY <1>1, <1>3 DEF Keys
    <2>4. ASSUME NEW i \in 1..Len(kv) + Len(o), NEW j \in 1..Len(kv) + Len(o),
                 all[i][1] = all[j][1]
          PROVE  i = j
      <3>1. CASE i \in 1..Len(kv) /\ all[i] = kv[i]
        <4>1. ~(j - Len(kv) \in 1..Len(o) /\ all[j] = o[j - Len(kv)])
          BY <2>3, <2>4, <3>1
        <4>2. j \in 1..Len(kv) /\ all[j] = kv[j]
          BY <1>6, <4>1
        <4> QED BY <2>1, <2>4, <3>1, <4>2
      <3>2. CASE i - Len(kv) \in 1..Len(o) /\ all[i] = o[i - Len(kv)]
        <4>1. ~(j \in 1..Len(kv) /\ all[j] = kv[j])
          BY <2>3, <2>4, <3>2
        <4>2. j - Len(kv) \in 1..Len(o) /\ all[j] = o[j - Len(kv)]
          BY <1>6, <4>1
        <4>3. i - Len(kv) = j - Len(kv)
          BY <2>2, <2>4, <3>2, <4>2
        <4> QED BY <1>3, <4>3
      <3> QED BY <1>6, <3>1, <3>2
    <2>5. \A i, j \in 1..Len(all) : all[i][1] = all[j][1] => i = j
      BY <1>4, <2>4
    <2> QED BY <1>4, <2>5, DistinctMeans
  <1> QED BY <1>3, <1>4, <1>7, <1>8

\* The number of pairs in an array, and their places.
LEMMA Halves ==
    /\ \A n \in Nat : n >= 2 => (n - 1) \div 2 \in Nat /\ 2 * ((n - 1) \div 2) <= n
    /\ \A i \in Nat : (2*i) % 2 = 0
    /\ \A n, m \in Nat : 2 * n <= m => \A i \in 1..n : 2*i \in 2..m
  OBVIOUS

\* The keys that a rule sets differ if no key is in its Set twice.
LEMMA SetKeys ==
    ASSUME NEW r, r.Set \in Seq(Range(r.Set)), NEW sub,
           NEW n, n = (Len(r.Set) - 1) \div 2, Len(r.Set) >= 2,
           NEW kv, kv = [i \in 1..n |-> <<r.Set[2*i].lit, Expand(sub, r.Set[2*i+1])>>]
    PROVE  /\ kv \in Seq(Range(kv))
           /\ DistinctSetKeys(r) => DistinctKeys(kv)
  <1>1. Len(r.Set) \in Nat
    BY LenProperties
  <1>2. n \in Nat /\ 2 * n <= Len(r.Set)
    BY <1>1, Halves
  <1>3. kv \in [1..n -> Range(kv)]
    BY DEF Range
  <1>4. kv \in Seq(Range(kv))
    BY <1>2, <1>3, SeqByDef
  <1>5. Len(kv) = n
    BY <1>2, <1>3, SeqByDef
  <1>6. ASSUME DistinctSetKeys(r) PROVE DistinctKeys(kv)
    <2>1. ASSUME NEW i \in 1..n, NEW j \in 1..n, kv[i][1] = kv[j][1] PROVE i = j
      <3>1. 2*i \in Pairs(r.Set) /\ 2*j \in Pairs(r.Set)
        <4>1. 2*i \in 2..Len(r.Set) /\ 2*j \in 2..Len(r.Set)
          BY <1>1, <1>2, Halves
        <4>2. (2*i) % 2 = 0 /\ (2*j) % 2 = 0
          BY Halves
        <4> QED BY <4>1, <4>2 DEF Pairs
      <3>2. r.Set[2*i].lit = r.Set[2*j].lit
        BY <2>1
      <3>3. 2*i = 2*j
        BY <1>6, <3>1, <3>2 DEF DistinctSetKeys
      <3> QED BY <3>3
    <2> QED BY <1>4, <1>5, <2>1, DistinctMeans
  <1> QED BY <1>4, <1>6

\* No key is set twice by a rule.
KeysOnce == \A i \in DOMAIN rules : DistinctSetKeys(rules[i])

\* A rewrite that does not fail leaves a point that can be sent.
LEMMA RewriteSound ==
    ASSUME NEW r, r.Set \in Seq(Range(r.Set)), KeysOnce => DistinctSetKeys(r),
           NEW p, Sendable(p), ~Failed(Rewrite(r, p))
    PROVE  Sendable(Rewrite(r, p))
  <1>1. ASSUME NEW q, Sendable(q), NEW m, validText(m)
        PROVE  Sendable([q EXCEPT !.metric = m])
    <2> DEFINE e == [q EXCEPT !.metric = m]
    <2>1. e.metric = m /\ e.time = q.time /\ e.value = q.value /\ e.tags = q.tags
      BY <1>1 DEF Sendable, IsPoint
    <2>2. IsPoint(e)
      <3>1. IsPoint(q)
        BY <1>1 DEF Sendable
      <3> QED BY <3>1 DEF IsPoint
    <2> HIDE DEF e
    <2>3. Sendable(e)
      BY <1>1, <2>1, <2>2 DEF Sendable
    <2> QED BY <2>3 DEF e
  <1>2. ASSUME NEW q, Sendable(q), NEW t, t \in Seq(Range(t)), Len(t) <= MaxTags,
               \A i \in DOMAIN t : validTag(t[i]), KeysOnce => DistinctKeys(t)
        PROVE  Sendable([q EXCEPT !.tags = t])
    <2> DEFINE e == [q EXCEPT !.tags = t]
    <2>1. e.metric = q.metric /\ e.time = q.time /\ e.value = q.value /\ e.tags = t
      BY <1>2 DEF Sendable, IsPoint
    <2>2. IsPoint(e)
      <3>1. IsPoint(q)
        BY <1>2 DEF Sendable
      <3> QED BY <3>1 DEF IsPoint
    <2> HIDE DEF e
    <2>3. Sendable(e)
      BY <1>2, <2>1, <2>2 DEF Sendable, KeysOnce
    <2> QED BY <2>3 DEF e
  <1>3. ASSUME NEW m PROVE Failed(SetMetric(p, m)) \/ Sendable(SetMetric(p, m))
    BY <1>1 DEF SetMetric, Failed
  <1>4. ASSUME NEW q, Sendable(q), NEW kv, kv \in Seq(Range(kv)), KeysOnce => DistinctKeys(kv),
               ~Failed(SetTags(q, kv))
        PROVE  Sendable(SetTags(q, kv))
    <2> DEFINE t   == q.tags
               all == kv \o Without(t, Keys(kv))
               U   == Range(t) \cup Range(kv)
    <2>1. /\ (\A i \in DOMAIN kv : validTag(kv[i])) /\ Len(all) <= MaxTags
          /\ SetTags(q, kv) = [q EXCEPT !.tags = all]
      BY <1>4 DEF SetTags, Failed
    <2>2. /\ t \in Seq(Range(t)) /\ (\A i \in DOMAIN t : validTag(t[i]))
          /\ KeysOnce => DistinctKeys(t)
      BY <1>4 DEF Sendable, KeysOnce
    <2>3. \A i \in DOMAIN kv : validTag(kv[i])
      BY <2>1
    <2> HIDE DEF t
    <2>4. t \in Seq(U) /\ kv \in Seq(U)
      BY <1>4, <2>2, SeqMonotonic
    <2> HIDE DEF U
    <2>5. PICK a : a = all
      OBVIOUS
    <2> HIDE DEF all
    <2>6. /\ a \in Seq(U) /\ (\A i \in DOMAIN a : validTag(a[i]))
          /\ DistinctKeys(t) /\ DistinctKeys(kv) => DistinctKeys(a)
      <3>1. a = kv \o Without(t, Keys(kv))
        BY <2>5 DEF all
      <3> QED BY <2>2, <2>3, <2>4, <3>1, TagsSound
    <2>7. a \in Seq(Range(a))
      BY <2>6, SeqOfRange
    <2>8. Len(a) <= MaxTags
      BY <2>1, <2>5
    <2>9. Sendable([q EXCEPT !.tags = a])
      BY <1>2, <1>4, <2>2, <2>6, <2>7, <2>8
    <2> QED BY <2>1, <2>5, <2>9
  <1> DEFINE sub == Submatch(r, p)
             q   == IF r.Set # <<>> /\ Head(r.Set).lit # Empty
                    THEN SetMetric(p, Expand(sub, Head(r.Set))) ELSE p
             n   == (Len(r.Set) - 1) \div 2
             kv  == [i \in 1..n |-> <<r.Set[2*i].lit, Expand(sub, r.Set[2*i+1])>>]
  <1>5. Rewrite(r, p) = IF Failed(q) \/ Len(r.Set) < 2 THEN q ELSE SetTags(q, kv)
    BY DEF Rewrite
  <1>6. Failed(q) \/ Sendable(q)
    BY <1>3
  <1>7. Len(r.Set) >= 2 => kv \in Seq(Range(kv)) /\ (DistinctSetKeys(r) => DistinctKeys(kv))
    <2>1. PICK m, s : m = n /\ s = sub
      OBVIOUS
    <2>2. kv = [i \in 1..m |-> <<r.Set[2*i].lit, Expand(s, r.Set[2*i+1])>>]
      BY <2>1
    <2>3. m = (Len(r.Set) - 1) \div 2
      BY <2>1
    <2> HIDE DEF kv, n, sub
    <2> QED BY <2>2, <2>3, SetKeys
  <1> HIDE DEF q, kv
  <1>8. CASE Failed(q) \/ Len(r.Set) < 2
    BY <1>5, <1>6, <1>8
  <1>9. CASE ~(Failed(q) \/ Len(r.Set) < 2)
    <2>1. Len(r.Set) \in Nat
      BY LenProperties
    <2>2. Len(r.Set) >= 2
      BY <1>9, <2>1
    <2> QED BY <1>4, <1>5, <1>6, <1>7, <1>9, <2>2
  <1> QED BY <1>8, <1>9

\* The filter leaves a point that can be sent.
LEMMA EvalSound ==
    ASSUME NEW p, Sendable(p), rules \in {s.rules : s \in Scenarios}
    PROVE  Sendable(Eval(rules, p).point)
  <1>1. /\ Len(rules) \in Nat /\ DOMAIN rules = 1..Len(rules)
        /\ \A n \in 1..Len(rules) : rules[n].Set \in Seq(Range(rules[n].Set))
    <2>1. rules \in Seq(Range(rules)) /\ \A r \in Range(rules) : r.Set \in Seq(Range(r.Set))
      BY PipelineAssumption
    <2>2. Len(rules) \in Nat /\ DOMAIN rules = 1..Len(rules)
      BY <2>1, LenProperties
    <2>3. \A n \in 1..Len(rules) : rules[n] \in Range(rules)
      BY <2>2 DEF Range
    <2> QED BY <2>1, <2>2, <2>3
  <1>2. PICK f : /\ f[0] = [verdict |-> "pass", point |-> p]
                 /\ \A n \in 1..Len(rules) : f[n] = EvalRule(f[n - 1], rules[n])
                 /\ Eval(rules, p) = f[Len(rules)]
    BY <1>1, EvalUnfolds
  <1> DEFINE Good(a) == a = [verdict |-> a.verdict, point |-> a.point] /\ Sendable(a.point)
             T == {m \in 0..Len(rules) : Good(f[m])}
  <1>3. 0 \in T
    BY <1>1, <1>2
  <1>4. ASSUME NEW n \in 1..Len(rules), n - 1 \in T PROVE n \in T
    <2>1. PICK a, r : a = f[n - 1] /\ r = rules[n]
      OBVIOUS
    <2>2. Good(a) /\ f[n] = EvalRule(a, r)
      BY <1>2, <1>4, <2>1
    <2>3. ASSUME NEW v PROVE Good([a EXCEPT !.verdict = v])
      BY <2>2
    <2>4. ASSUME NEW q, Sendable(q) PROVE Good([a EXCEPT !.point = q])
      BY <2>2, <2>4
    <2>5. ~Failed(Rewrite(r, a.point)) => Sendable(Rewrite(r, a.point))
      <3>1. r.Set \in Seq(Range(r.Set)) /\ (KeysOnce => DistinctSetKeys(r))
        BY <1>1, <2>1 DEF KeysOnce
      <3>2. Sendable(a.point)
        BY <2>2
      <3> QED BY <3>1, <3>2, RewriteSound
    <2>6. n \in 0..Len(rules)
      BY <1>1
    <2> HIDE DEF Good
    <2>7. Good(EvalRule(a, r))
      BY <2>2, <2>3, <2>4, <2>5 DEF EvalRule
    <2> QED BY <2>2, <2>6, <2>7
  <1>5. Good(f[Len(rules)])
    <2> HIDE DEF T, Good
    <2>1. Len(rules) \in 0..Len(rules)
      BY <1>1
    <2>2. Len(rules) \in T
      BY <1>1, <1>3, <1>4, <2>1, UpTo
    <2> QED BY <2>2 DEF T
  <1> QED BY <1>2, <1>5

\* A point that can be sent is read as it was, but for the smallest integer, unless its
\* time is negative or its text too long.
LEMMA ReadBack ==
    ASSUME NEW p, Sendable(p)
    PROVE  LET q == unmarshalText(append(p))
           IN  /\ KeysOnce /\ ~Unreadable(p) => ~Failed(q)
               /\ Failed(q) \/ q = p \/ (p.value = -HalfRange /\ q = [p EXCEPT !.value = 0])
  <1> DEFINE l == append(p)
             q == unmarshalText(l)
             r == [metric |-> l.metric, time |-> parseTime(l.time),
                   value |-> parseValue(l.value), tags |-> l.tags]
  <1>1. /\ IsPoint(p) /\ p.time \in Int /\ p.value \in -HalfRange..(HalfRange - 1)
        /\ HalfRange \in Nat /\ HalfRange > 0 /\ PerSecond \in Nat /\ PerSecond > 0
    BY PointsAssumption DEF Sendable, IsPoint
  <1>2. /\ l.metric = p.metric /\ l.time = p.time * PerSecond /\ l.tags = p.tags
        /\ l.value = IF p.value = -HalfRange THEN 0 ELSE p.value
    BY DEF append, appendInt
  <1>a. ~Unreadable(p) => ~TooLong(l) /\ ~(p.time < 0)
    BY DEF Unreadable
  <1> HIDE DEF l
  <1>3. l.time \in Int /\ l.value \in -HalfRange..(HalfRange - 1)
    BY <1>1, <1>2, WholeSeconds
  <1>4. l.time # BadNumber /\ l.value # BadNumber
    BY <1>3, PointsAssumption
  <1>b. l.time >= 0 <=> p.time >= 0
    BY <1>1, <1>2
  <1>5. ASSUME p.time >= 0
        PROVE  r = [metric |-> p.metric, time |-> p.time, value |-> l.value, tags |-> p.tags]
    <2>1. parseTime(l.time) = p.time
      BY <1>1, <1>2, <1>5, TimeFits DEF Sendable
    <2>2. parseValue(l.value) = l.value
      BY <1>3, ValueFits
    <2> QED BY <1>2, <2>1, <2>2
  <1>6. q = IF ~TooLong(l) /\ l.time >= 0 /\ validText(l.metric) /\ setTags(l.tags) THEN r ELSE Error
    BY <1>4 DEF unmarshalText
  <1>7. p.time >= 0 => r # Error
    BY <1>5 DEF Error
  <1>8. KeysOnce => validText(l.metric) /\ setTags(l.tags)
    BY <1>2 DEF Sendable, setTags, KeysOnce
  <1>9. ASSUME p.time >= 0 PROVE r = p \/ (p.value = -HalfRange /\ r = [p EXCEPT !.value = 0])
    <2> HIDE DEF r
    <2>1. p = [metric |-> p.metric, time |-> p.time, value |-> p.value, tags |-> p.tags]
      BY <1>1 DEF IsPoint
    <2>2. CASE p.value = -HalfRange
      <3>1. [p EXCEPT !.value = 0] = [metric |-> p.metric, time |-> p.time, value |-> 0, tags |-> p.tags]
        BY <2>1
      <3> QED BY <1>2, <1>5, <1>9, <2>2, <3>1
    <2>3. CASE p.value # -HalfRange
      BY <1>2, <1>5, <1>9, <2>1, <2>3
    <2> QED BY <2>2, <2>3
  <1> HIDE DEF r
  <1>10. Failed(q) \/ (q = r /\ p.time >= 0)
    BY <1>6, <1>b DEF Failed
  <1>c. KeysOnce /\ ~Unreadable(p) => ~Failed(q)
    <2>1. ~(p.time < 0) => p.time >= 0
      BY <1>1
    <2> QED BY <1>6, <1>7, <1>8, <1>a, <1>b, <2>1 DEF Failed
  <1> HIDE DEF q
  <1>11. Failed(q) \/ q = p \/ (p.value = -HalfRange /\ q = [p EXCEPT !.value = 0])
    BY <1>9, <1>10
  <1> QED BY <1>c, <1>11 DEF q, l

\* What a plugin's line denotes can be sent, if it is valid.
LEMMA LineSendable ==
    ASSUME NEW line \in Lines, ~Failed(unmarshalText(line))
    PROVE  Sendable(unmarshalText(line))
  <1> DEFINE p == unmarshalText(line)
  <1>1. /\ validText(line.metric) /\ line.time # BadNumber /\ line.value # BadNumber
        /\ setTags(line.tags)
        /\ p = [metric |-> line.metric, time |-> parseTime(line.time),
                value |-> parseValue(line.value), tags |-> line.tags]
    BY DEF unmarshalText, Failed
  <1>2. line.time \in Int /\ line.value \in Int /\ line.tags \in Seq(Range(line.tags))
    BY <1>1, PipelineAssumption
  <1>3. parseTime(line.time) \in Int /\ parseTime(line.time) * PerSecond < HalfTime
    BY <1>2, TimeFits
  <1>4. parseValue(line.value) \in -HalfRange..(HalfRange - 1)
    BY <1>2, ValueFits
  <1> HIDE DEF p
  <1>5. /\ p.metric = line.metric /\ p.value = parseValue(line.value) /\ p.tags = line.tags
        /\ p.time = parseTime(line.time)
    BY <1>1
  <1>6. IsPoint(p)
    BY <1>1, <1>3 DEF IsPoint
  <1>7. Sendable(p)
    BY <1>1, <1>2, <1>3, <1>4, <1>5, <1>6 DEF Sendable, setTags
  <1> QED BY <1>7 DEF p

\* So can what the exporter makes.
LEMMA OwnSendable ==
    ASSUME NEW t \in Nat, NEW m, validText(m), NEW tags, tags \in Seq(Range(tags)), setTags(tags)
    PROVE  Sendable(NewPoint(t, 0, m, tags))
  <1> DEFINE p == NewPoint(t, 0, m, tags)
  <1>1. 0 # BadNumber /\ HalfRange \in Nat /\ HalfRange > 0
    BY PointsAssumption
  <1>2. PICK s : s = parseTime(t * PerSecond)
    OBVIOUS
  <1>a. s \in Int /\ s * PerSecond < HalfTime
    <2>1. t * PerSecond \in Int
      BY WholeSeconds
    <2> QED BY <1>2, <2>1, TimeFits
  <1>b. p = [metric |-> m, time |-> s, value |-> 0, tags |-> tags]
    BY <1>1, <1>2 DEF NewPoint
  <1> HIDE DEF p
  <1>3. p.metric = m /\ p.value = 0 /\ p.tags = tags /\ p.time = s /\ IsPoint(p)
    BY <1>a, <1>b DEF IsPoint
  <1>4. 0 \in -HalfRange..(HalfRange - 1)
    BY <1>1
  <1>5. Sendable(p)
    BY <1>3, <1>4, <1>a DEF Sendable, setTags
  <1> QED BY <1>5 DEF p

LEMMA ShortTags ==
    /\ <<>> \in Seq(Range(<<>>)) /\ setTags(<<>>)
    /\ \A r \in Relays : LET t == <<<<"relay", r>>>> IN t \in Seq(Range(t)) /\ setTags(t)
  <1>1. MaxTags \in Nat /\ MaxTags >= 1
    BY PointsAssumption, PipelineAssumption
  <1>2. <<>> \in Seq(Range(<<>>)) /\ setTags(<<>>)
    <2>1. <<>> \in Seq({}) /\ Len(<<>>) = 0
      BY EmptySeq
    <2>2. DistinctKeys(<<>>)
      <3>1. Keys(<<>>) = {}
        BY DEF Keys
      <3> QED BY <2>1, <3>1, FS_EmptySet DEF DistinctKeys
    <2>3. <<>> \in Seq(Range(<<>>))
      BY <2>1, SeqOfRange
    <2> QED BY <1>1, <2>1, <2>2, <2>3 DEF setTags
  <1>3. ASSUME NEW r \in Relays, NEW t, t = <<<<"relay", r>>>>
        PROVE  t \in Seq(Range(t)) /\ setTags(t)
    <2>1. validTag(<<"relay", r>>)
      BY PipelineAssumption DEF Relays
    <2>2. t \in Seq({<<"relay", r>>}) /\ Len(t) = 1 /\ DOMAIN t = {1} /\ t[1] = <<"relay", r>>
      BY <1>3
    <2>3. DistinctKeys(t)
      BY <2>2, DistinctMeans
    <2>4. t \in Seq(Range(t))
      BY <2>2, SeqOfRange
    <2> QED BY <1>1, <2>1, <2>2, <2>3, <2>4 DEF setTags
  <1> QED BY <1>2, <1>3

\* Whether a value can be sent depends on the rules alone.
LEMMA SameRules ==
    ASSUME UNCHANGED rules, NEW CONSTANT p
    PROVE  Sendable(p)' <=> Sendable(p)
  BY DEF Sendable, IsPoint, DistinctSetKeys, Pairs

\* A step that leaves the structs alone, frees one, or fills one with a point that
\* can be sent.
LEMMA HeapSendable ==
    ASSUME Places, Places', SendInv, UNCHANGED rules,
           \/ UNCHANGED heap
           \/ \E x : heap' = [heap EXCEPT ![x] = <<>>]
           \/ \E x, c : heap' = [heap EXCEPT ![x] = <<c>>] /\ Sendable(c.point)
    PROVE  (\A o \in Owned : Sendable(Item(o).point))'
  <1> SUFFICES ASSUME NEW CONSTANT o, o \in Owned' PROVE Sendable(Item(o).point)'
    OBVIOUS
  <1>1. o \in Objs /\ heap'[o] # <<>> /\ DOMAIN heap = Objs
    <2>1. Owned' \subseteq Objs
      <3>1. w' \in Seq(Objs)
        BY DEF Places
      <3>2. Range(w') \subseteq Objs
        BY <3>1, RangeEquality, ElementOfSeq
      <3> QED BY <3>2 DEF Places, Owned
    <2> QED BY <2>1 DEF Places, HeapInv
  <1>2. ASSUME heap'[o] = heap[o] PROVE Sendable(heap'[o][1].point)
    <2>1. o \in Owned
      BY <1>1, <1>2 DEF Places, HeapInv
    <2> QED BY <1>2, <2>1 DEF SendInv, Item
  <1>3. Sendable(heap'[o][1].point)
    <2>1. CASE UNCHANGED heap
      BY <1>2, <2>1
    <2>2. CASE \E x : heap' = [heap EXCEPT ![x] = <<>>]
      BY <1>1, <1>2, <2>2
    <2>3. CASE \E x, c : heap' = [heap EXCEPT ![x] = <<c>>] /\ Sendable(c.point)
      <3>1. PICK x, c : heap' = [heap EXCEPT ![x] = <<c>>] /\ Sendable(c.point)
        BY <2>3
      <3>2. CASE x = o
        <4>1. heap'[o] = <<c>>
          BY <1>1, <3>1, <3>2
        <4>2. heap'[o][1] = c
          BY <4>1
        <4> QED BY <3>1, <4>2
      <3>3. CASE x # o
        BY <1>1, <1>2, <3>1, <3>3
      <3> QED BY <3>2, <3>3
    <2> QED BY <2>1, <2>2, <2>3
  <1>4. PICK p : p = heap'[o][1].point
    OBVIOUS
  <1>5. Sendable(p)'
    BY <1>3, <1>4, SameRules
  <1> QED BY <1>4, <1>5 DEF Item

\* A step that leaves the aggregator's queue alone, takes its head, or appends a point
\* that can be sent.
LEMMA QueueSendable ==
    ASSUME Queues, SendInv, UNCHANGED rules,
           \/ queue'[Aggregator] = queue[Aggregator]
           \/ queue[Aggregator] # <<>> /\ queue'[Aggregator] = Tail(queue[Aggregator])
           \/ \E c : queue'[Aggregator] = Append(queue[Aggregator], c) /\ Sendable(c[1].point)
    PROVE  (\A i \in DOMAIN queue[Aggregator] : Sendable(queue[Aggregator][i][1].point))'
  <1>1. queue[Aggregator] \in Seq(Range(queue[Aggregator]))
    <2>1. Aggregator \in Relays
      BY PipelineAssumption DEF Relays
    <2> QED BY <2>1 DEF Queues, QueueInv
  <1>2. PICK s, t : s = queue[Aggregator] /\ t = queue'[Aggregator]
    OBVIOUS
  <1>3. /\ s \in Seq(Range(s)) /\ DOMAIN s = 1..Len(s) /\ Len(s) \in Nat
        /\ \A i \in DOMAIN s : Sendable(s[i][1].point)
    BY <1>1, <1>2, LenProperties DEF SendInv
  <1>4. \/ t = s
        \/ s # <<>> /\ t = Tail(s)
        \/ \E c : t = Append(s, c) /\ Sendable(c[1].point)
    BY <1>2
  <1>5. \A i \in DOMAIN t : Sendable(t[i][1].point)
    <2>1. CASE t = s
      BY <1>3, <2>1
    <2>2. CASE s # <<>> /\ t = Tail(s)
      <3>1. DOMAIN t = 1..(Len(s) - 1) /\ \A i \in 1..(Len(s) - 1) : t[i] = s[i + 1]
        <4>1. t \in Seq(Range(s)) /\ Len(t) = Len(s) - 1 /\ \A i \in 1..Len(t) : t[i] = s[i + 1]
          BY <1>3, <2>2, HeadTailProperties
        <4> QED BY <4>1, LenProperties
      <3>2. \A i \in 1..(Len(s) - 1) : i + 1 \in DOMAIN s
        BY <1>3
      <3> QED BY <1>3, <3>1, <3>2
    <2>3. CASE \E c : t = Append(s, c) /\ Sendable(c[1].point)
      <3>1. PICK c : t = Append(s, c) /\ Sendable(c[1].point)
        BY <2>3
      <3>2. PICK U : U = Range(s) \cup {c}
        OBVIOUS
      <3>3. s \in Seq(U) /\ c \in U
        BY <1>3, <3>2, SeqMonotonic
      <3>4. /\ DOMAIN t = 1..(Len(s) + 1) /\ t[Len(s) + 1] = c
            /\ \A i \in 1..Len(s) : t[i] = s[i]
        <4>1. /\ t \in Seq(U) /\ Len(t) = Len(s) + 1 /\ t[Len(s) + 1] = c
              /\ \A i \in 1..Len(s) : t[i] = s[i]
          BY <3>1, <3>3, AppendProperties
        <4> QED BY <4>1, LenProperties
      <3>5. \A i \in 1..(Len(s) + 1) : i \in 1..Len(s) \/ i = Len(s) + 1
        BY <1>3
      <3> QED BY <1>3, <3>1, <3>4, <3>5
    <2> QED BY <1>4, <2>1, <2>2, <2>3
  <1>6. ASSUME NEW CONSTANT i, i \in DOMAIN t PROVE Sendable(t[i][1].point)'
    BY <1>5, <1>6, SameRules
  <1> QED BY <1>2, <1>6

\* What a step does to the structs, and to the aggregator's queue.
HeapStep ==
    \/ UNCHANGED heap
    \/ \E x : heap' = [heap EXCEPT ![x] = <<>>]
    \/ \E x, c : heap' = [heap EXCEPT ![x] = <<c>>] /\ Sendable(c.point)

QueueStep ==
    \/ queue'[Aggregator] = queue[Aggregator]
    \/ queue[Aggregator] # <<>> /\ queue'[Aggregator] = Tail(queue[Aggregator])
    \/ \E c : queue'[Aggregator] = Append(queue[Aggregator], c) /\ Sendable(c[1].point)

LEMMA SendFrame ==
    ASSUME Places, Places', Queues, SendInv, UNCHANGED <<rules, hold, rejected>>, xtime' \in Nat,
           HeapStep, QueueStep
    PROVE  SendInv'
  <1>1. (\A o \in Owned : Sendable(Item(o).point))'
    BY HeapSendable DEF HeapStep
  <1>2. (\A i \in DOMAIN queue[Aggregator] : Sendable(queue[Aggregator][i][1].point))'
    BY QueueSendable DEF QueueStep
  <1>3. ServerReadsSent'
    BY DEF SendInv, ServerReadsSent, DistinctSetKeys, Pairs
  <1>4. (rules \in {s.rules : s \in Scenarios})' /\ (xtime \in Nat)'
    BY DEF SendInv
  <1> QED BY <1>1, <1>2, <1>3, <1>4 DEF SendInv

LEMMA FilteredSends ==
    ASSUME SendInv, NEW o \in Owned, Filtered(o)
    PROVE  HeapStep
  <1> DEFINE e == Eval(rules, heap[o][1].point)
             c == [point |-> e.point, from |-> heap[o][1].from]
  <1>1. Sendable(e.point)
    <2>1. PICK p : p = heap[o][1].point
      OBVIOUS
    <2>2. Sendable(p)
      BY <2>1 DEF SendInv, Item
    <2>3. Sendable(Eval(rules, p).point)
      BY <2>2, EvalSound DEF SendInv
    <2> QED BY <2>1, <2>3
  <1>2. \/ heap' = [heap EXCEPT ![o] = <<c>>]
        \/ heap' = [heap EXCEPT ![o] = <<>>]
    BY DEF Filtered, Free
  <1>3. c.point = e.point
    OBVIOUS
  <1> HIDE DEF c, e
  <1> QED BY <1>1, <1>2, <1>3 DEF HeapStep

\* The aggregator reads the point at the head of its queue.
LEMMA ServerReadSends ==
    ASSUME Places, Places', Queues, SendInv, ServerRead
    PROVE  SendInv'
  <1>1. UNCHANGED <<rules, xtime, heap>>
    BY DEF ServerRead, exportVars
  <1>2. Aggregator \in Relays /\ queue[Aggregator] \in Seq(Range(queue[Aggregator]))
    BY PipelineAssumption DEF Relays, Queues, QueueInv
  <1>3. queue[Aggregator] # <<>> /\ queue'[Aggregator] = Tail(queue[Aggregator])
    BY <1>2 DEF ServerRead, Queues, QueueInv
  <1>4. (\A i \in DOMAIN queue[Aggregator] : Sendable(queue[Aggregator][i][1].point))'
    BY <1>1, <1>3, QueueSendable
  <1>5. (\A o \in Owned : Sendable(Item(o).point))'
    BY <1>1, HeapSendable
  <1>6. PICK p : p = Head(queue[Aggregator])[1].point
    OBVIOUS
  <1>7. Sendable(p)
    <2>1. Head(queue[Aggregator]) = queue[Aggregator][1] /\ 1 \in DOMAIN queue[Aggregator]
      BY <1>2, <1>3, EmptySeq, LenProperties, HeadTailProperties
    <2> QED BY <1>6, <2>1 DEF SendInv
  <1>8. PICK q : q = unmarshalText(append(p))
    OBVIOUS
  <1>9. /\ KeysOnce /\ ~Unreadable(p) => ~Failed(q)
        /\ Failed(q) \/ q = p \/ (p.value = -HalfRange /\ q = [p EXCEPT !.value = 0])
    BY <1>7, <1>8, ReadBack
  <1>10. IF Failed(q) THEN rejected' = <<p>> /\ UNCHANGED hold
                      ELSE hold' = <<[sent |-> p, read |-> q]>> /\ UNCHANGED rejected
    BY <1>6, <1>8 DEF ServerRead
  <1>11. KeysOnce' = KeysOnce
    BY <1>1 DEF KeysOnce, DistinctSetKeys, Pairs
  <1>12. ServerReadsSent = (/\ rejected # <<>> => ~KeysOnce \/ Unreadable(rejected[1])
                            /\ hold # <<>> => \/ hold[1].read = hold[1].sent
                                              \/ /\ hold[1].sent.value = -HalfRange
                                                 /\ hold[1].read = [hold[1].sent EXCEPT !.value = 0])
    BY DEF ServerReadsSent, KeysOnce
  <1>13. hold = <<>>
    BY DEF ServerRead
  <1>14. ServerReadsSent'
    <2>1. rejected' # <<>> => ~KeysOnce' \/ Unreadable(rejected'[1])
      <3>1. CASE Failed(q)
        <4>1. rejected'[1] = p
          BY <1>10, <3>1
        <4> QED BY <1>9, <1>11, <3>1, <4>1
      <3>2. CASE ~Failed(q)
        BY <1>10, <1>11, <1>12, <3>2 DEF SendInv
      <3> QED BY <3>1, <3>2
    <2>2. hold' # <<>> => \/ hold'[1].read = hold'[1].sent
                          \/ /\ hold'[1].sent.value = -HalfRange
                             /\ hold'[1].read = [hold'[1].sent EXCEPT !.value = 0]
      <3>1. CASE Failed(q)
        BY <1>10, <1>13, <3>1
      <3>2. CASE ~Failed(q)
        <4>1. hold'[1].sent = p /\ hold'[1].read = q
          BY <1>10, <3>2
        <4> QED BY <1>9, <3>2, <4>1
      <3> QED BY <3>1, <3>2
    <2> QED BY <2>1, <2>2 DEF ServerReadsSent, KeysOnce
  <1> QED BY <1>1, <1>4, <1>5, <1>14 DEF SendInv

LEMMA ReadSends ==
    ASSUME NEW line \in Lines, ReadLine(line)
    PROVE  HeapStep
  <1> DEFINE r == Decode(dec, line, Now)
             c == [point |-> r.point, from |-> [series |-> appendSeries(r.point),
                                                run |-> budget.restarts, at |-> clock]]
  <1>1. CASE Failed(r.point)
    BY <1>1 DEF ReadLine, HeapStep
  <1>2. CASE ~Failed(r.point)
    <2>1. heap' = [heap EXCEPT ![Obj] = <<c>>]
      BY <1>2 DEF ReadLine, getPoint
    <2>2. r.point = unmarshalText(line)
      BY <1>2 DEF Decode, Failed
    <2>3. Sendable(r.point)
      BY <1>2, <2>2, LineSendable
    <2>4. c.point = r.point
      OBVIOUS
    <2> HIDE DEF c, r
    <2> QED BY <2>1, <2>3, <2>4 DEF HeapStep
  <1> QED BY <1>1, <1>2

LEMMA ExportSends ==
    ASSUME NEW t \in Nat, NEW m, validText(m), NEW tags, tags \in Seq(Range(tags)), setTags(tags),
           getPoint(NewPoint(t, 0, m, tags), Own)
    PROVE  HeapStep
  <1> DEFINE c == [point |-> NewPoint(t, 0, m, tags), from |-> Own]
  <1>1. heap' = [heap EXCEPT ![Obj] = <<c>>]
    BY DEF getPoint
  <1>2. c.point = NewPoint(t, 0, m, tags)
    OBVIOUS
  <1>3. Sendable(c.point)
    BY <1>2, OwnSendable
  <1> HIDE DEF c
  <1> QED BY <1>1, <1>3 DEF HeapStep

LEMMA SendStep ==
    ASSUME IInv, IInv', SendInv, [Next]_vars
    PROVE  SendInv'
  <1> USE DEF boundVars, decodeVars, exportVars, tickVars, castVars, relayVars, serverVars, idleVars
  <1>1. Places /\ Places' /\ Queues /\ TickInv
    BY Parts DEF IInv, TypeOK, Places, Queues
  <1>2. xtime \in Nat /\ tick.tt \in Nat
    BY <1>1 DEF SendInv, TickInv
  <1>3. ASSUME UNCHANGED <<rules, hold, rejected, xtime, heap, queue>> PROVE SendInv'
    BY <1>1, <1>2, <1>3, SendFrame DEF HeapStep, QueueStep
  <1>4. CASE \E line \in Lines : ReadLine(line)
    <2>1. PICK line \in Lines : ReadLine(line)
      BY <1>4
    <2>2. UNCHANGED <<rules, hold, rejected, xtime, queue>>
      BY <2>1 DEF ReadLine
    <2>3. HeapStep
      BY <2>1, ReadSends
    <2> QED BY <1>1, <1>2, <2>2, <2>3, SendFrame DEF QueueStep
  <1>5. CASE ReadEOF \/ TakePoint \/ TakeError \/ Enqueue \/ StartProcess \/ Advance
             \/ SetClockBack \/ OSTick
    BY <1>3, <1>5 DEF ReadEOF, TakePoint, TakeError, Enqueue, StartProcess, Advance, SetClockBack,
                      OSTick
  <1>6. CASE Timeout
    <2>1. UNCHANGED <<rules, hold, rejected, xtime, queue>> /\ HeapStep
      BY <1>6 DEF Timeout, Free, HeapStep
    <2> QED BY <1>1, <1>2, <2>1, SendFrame DEF QueueStep
  <1>7. CASE ExportTick
    <2>1. /\ UNCHANGED <<rules, hold, rejected, queue>> /\ xtime' \in Nat
          /\ getPoint(NewPoint(tick.tt, 0, SelfPoints, <<>>), Own)
      BY <1>2, <1>7 DEF ExportTick
    <2>2. HeapStep
      BY <1>2, <2>1, ShortTags, ExportSends, PipelineAssumption
    <2> QED BY <1>1, <2>1, <2>2, SendFrame DEF QueueStep
  <1>8. CASE ExportMap
    <2>1. UNCHANGED <<rules, hold, rejected, xtime, queue>>
      BY <1>8 DEF ExportMap
    <2>2. \/ UNCHANGED heap
          \/ \E r \in Relays : getPoint(NewPoint(xtime, 0, SelfErrors, <<<<"relay", r>>>>), Own)
      <3>1. xleft \subseteq Relays /\ errors \subseteq Relays
        BY <1>1 DEF Queues
      <3> QED BY <1>8, <3>1 DEF ExportMap, ExportKey
    <2>3. CASE UNCHANGED heap
      BY <1>3, <2>1, <2>3
    <2>4. CASE \E r \in Relays : getPoint(NewPoint(xtime, 0, SelfErrors, <<<<"relay", r>>>>), Own)
      <3>1. PICK r \in Relays : getPoint(NewPoint(xtime, 0, SelfErrors, <<<<"relay", r>>>>), Own)
        BY <2>4
      <3>2. PICK t : t = <<<<"relay", r>>>>
        OBVIOUS
      <3>3. t \in Seq(Range(t)) /\ setTags(t)
        BY <3>2, ShortTags
      <3>4. HeapStep
        BY <1>2, <3>1, <3>2, <3>3, ExportSends, PipelineAssumption
      <3> QED BY <1>1, <1>2, <2>1, <3>4, SendFrame DEF QueueStep
    <2> QED BY <2>2, <2>3, <2>4
  <1>9. CASE NextFromPlugins
    <2>1. /\ UNCHANGED <<rules, hold, rejected, xtime, queue>>
          /\ w # <<>> /\ Filtered(Head(w))
      BY <1>9 DEF NextFromPlugins
    <2>2. Head(w) \in Owned
      <3>1. w \in Seq(Objs)
        BY <1>1 DEF Places
      <3>2. Head(w) \in Range(w)
        BY <2>1, <3>1, RangeHeadTail
      <3> QED BY <3>2 DEF Owned
    <2>3. HeapStep
      BY <2>1, <2>2, FilteredSends
    <2> QED BY <1>1, <1>2, <2>1, <2>3, SendFrame DEF QueueStep
  <1>10. CASE NextFromSelf
    <2>1. UNCHANGED <<rules, hold, rejected, xtime, queue>> /\ Filtered(xobj)
      BY <1>10 DEF NextFromSelf
    <2>2. xobj \in Owned
      BY <1>1, <1>10 DEF NextFromSelf, Places, HandInv, Owned
    <2>3. HeapStep
      BY <2>1, <2>2, FilteredSends
    <2> QED BY <1>1, <1>2, <2>1, <2>3, SendFrame DEF QueueStep
  <1>11. CASE Submit \/ Drop
    <2>1. UNCHANGED <<rules, hold, rejected, xtime>> /\ HeapStep
      BY <1>11 DEF Submit, Drop, SubmitDone, Free, HeapStep
    <2>2. QueueStep
      <3>1. CASE UNCHANGED queue
        BY <3>1 DEF QueueStep
      <3>2. CASE ~UNCHANGED queue
        <4>1. PICK r : r = RelaySeq[bi]
          OBVIOUS
        <4>2. bpc = "submit" /\ queue' = [queue EXCEPT ![r] = Append(@, heap[bobj])]
          BY <1>11, <3>2, <4>1 DEF Submit, Drop
        <4>3. Aggregator \in DOMAIN queue
          BY <1>1, PipelineAssumption DEF Relays, Queues, QueueInv
        <4>4. bobj \in Owned
          BY <1>1, <4>2 DEF Places, HandInv, Owned
        <4>5. Sendable(heap[bobj][1].point)
          BY <4>4 DEF SendInv, Item
        <4>6. \/ queue'[Aggregator] = queue[Aggregator]
              \/ queue'[Aggregator] = Append(queue[Aggregator], heap[bobj])
          BY <4>2, <4>3
        <4> QED BY <4>5, <4>6 DEF QueueStep
      <3> QED BY <3>1, <3>2
    <2> QED BY <1>1, <1>2, <2>1, <2>2, SendFrame
  <1>12. CASE \E r \in Relays : Sent(r)
    <2>1. PICK r \in Relays : Sent(r)
      BY <1>12
    <2>2. UNCHANGED <<rules, hold, rejected, xtime, heap>>
      BY <2>1 DEF Sent
    <2>3. queue'[Aggregator] = queue[Aggregator]
      BY <2>1, <1>1, PipelineAssumption DEF Sent, Relays, Queues, QueueInv
    <2> QED BY <1>1, <1>2, <2>2, <2>3, SendFrame DEF HeapStep, QueueStep
  <1>13. CASE ServerRead
    BY <1>1, <1>13, ServerReadSends
  <1>14. CASE ServerEnqueue
    <2>1. UNCHANGED <<rules, rejected, xtime, heap, queue>> /\ hold' = <<>>
      BY <1>14 DEF ServerEnqueue
    <2>2. (\A o \in Owned : Sendable(Item(o).point))'
      BY <1>1, <2>1, HeapSendable
    <2>3. (\A i \in DOMAIN queue[Aggregator] : Sendable(queue[Aggregator][i][1].point))'
      BY <1>1, <2>1, QueueSendable
    <2>4. ServerReadsSent'
      BY <2>1 DEF SendInv, ServerReadsSent, DistinctSetKeys, Pairs
    <2> QED BY <2>1, <2>2, <2>3, <2>4 DEF SendInv
  <1>15. CASE ServerBroadcast
    BY <1>3, <1>15 DEF ServerBroadcast
  <1>16. CASE UNCHANGED vars
    BY <1>3, <1>16 DEF vars
  <1> QED BY <1>4, <1>5, <1>6, <1>7, <1>8, <1>9, <1>10, <1>11, <1>12, <1>13, <1>14, <1>15, <1>16
          DEF Next

LEMMA InitSend == Init => SendInv
  <1> SUFFICES ASSUME Init PROVE SendInv
    OBVIOUS
  <1>1. Owned = {}
    BY RangeShort DEF Init, Owned
  <1>2. queue[Aggregator] = <<>>
    BY PipelineAssumption DEF Init, Relays
  <1>3. rules \in {s.rules : s \in Scenarios} /\ xtime \in Nat /\ ServerReadsSent
    BY DEF Init, ServerReadsSent
  <1> QED BY <1>1, <1>2, <1>3 DEF SendInv

\* The aggregator reads what the forwarder sent: no rule and no line, however they follow
\* each other, makes a point that the server's decoder rejects or changes, but for a Set
\* that names a key twice or makes a line too long, a time past the range of an int64,
\* and the smallest integer (tsdb.go SetTags, append and unmarshal, filter.go Rewrite,
\* server.go loop).
THEOREM ServerReads == Spec => []ServerReadsSent
  <1>1. Init => SendInv
    BY InitSend
  <1>2. IInv /\ IInv' /\ SendInv /\ [Next]_vars => SendInv'
    BY SendStep
  <1>3. SendInv => ServerReadsSent
    BY DEF SendInv
  <1> QED BY <1>1, <1>2, <1>3, InductiveInvariant, PTL DEF Spec

===============================================================================
