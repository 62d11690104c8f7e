------------------------------- MODULE Pipeline -------------------------------
(***************************************************************************)
(* The way of a data point through tsp-forwarder and on to tsp-aggregator: *)
(* the decoding of a plugin's output (internal/collect/decoder.go and      *)
(* process.go), the export of the program's own statistics (internal/stats *)
(* and tsdbutil, paced by internal/tsdb/ticker.go), the join of the two,   *)
(* the filter, the broadcast to the relays (internal/relay/pool.go), and   *)
(* the server side of one relay (cmd/tsp-aggregator/server.go).            *)
(*                                                                         *)
(* Goroutines: the decoder's mainloop, process.decode, the ticker, the     *)
(* exporter, Broadcast, and the aggregator's serverConn.loop and Broadcast *)
(* of its own.  Points live in structs that are handed from one to the     *)
(* next and reused after Free, so the model has a heap: channels carry     *)
(* addresses, and what a relay is sent is what the struct holds when it is *)
(* sent.  A struct that is lost to an error path is collected.             *)
(*                                                                         *)
(* expvar (external): iterating over a Map holds its lock until the        *)
(* callback has returned for every key; adding a new key waits for that.   *)
(*                                                                         *)
(* The relays' clients are TSDBClient; here a relay is its queue, and its  *)
(* connection works.  clock is the monotonic clock in seconds; the wall    *)
(* clock is behind it by as many seconds as it was set back.               *)
(***************************************************************************)
EXTENDS Filter, StreamDecoder

CONSTANTS
    Lines,         \* the lines a plugin may print
    RelaySeq,      \* the names of the relays, in the pool's order
    Aggregator,    \* the relay that is a tsp-aggregator
    Scenarios,     \* the Filter settings and the bounds to explore
    SelfPoints,    \* metric of an exported Int, prefixed
    SelfErrors,    \* metric of the exported Map relay.Errors, prefixed
    Objs,          \* the Point structs
    MaxQueue,      \* collect.MaxQueue
    MaxRelayQueue, \* clientMaxQueue
    MaxServerQueue,\* MaxQueue of tsp-aggregator
    IdleTimeout,   \* idleTimeout, in seconds
    Start,         \* the time when the program starts
    None

\* A scenario bounds what the environment does: the lines that are printed, the
\* restarts of the plugin, the seconds that pass, those that the wall clock is
\* set back, and the ticks of the operating system.
Bounds == [lines : Nat, restarts : Nat, seconds : Nat, back : Nat, ticks : Nat]

ASSUME PipelineAssumption ==
    /\ \A s \in Scenarios : /\ validateRules(s.rules) /\ s.rules \in Seq(Range(s.rules))
                            /\ s.bound \in Bounds /\ s.bound.back < Start
                            /\ \A r \in Range(s.rules) : r.Set \in Seq(Range(r.Set))
    \* Tag panics when it is asked for the empty key.
    /\ \A s \in Scenarios : \A r \in Range(s.rules) :
          \A i \in Pairs(r.Match) : r.Match[i].lit # Empty
    /\ \A l \in Lines : /\ l.time \in Int \cup {BadNumber} /\ l.value \in Int \cup {BadNumber}
                        /\ l.tags \in Seq(Range(l.tags))
    \* The names in the program, and those of relays, are texts that can be exported:
    \* the exporter panics when it meets another.
    /\ validText(SelfPoints) /\ validText(SelfErrors) /\ MaxTags >= 1
    /\ \A r \in Range(RelaySeq) : validTag(<<"relay", r>>)
    /\ RelaySeq \in Seq(Range(RelaySeq)) /\ Aggregator \in Range(RelaySeq)
    /\ MaxQueue \in Nat \ {0} /\ MaxRelayQueue \in Nat \ {0} /\ MaxServerQueue \in Nat \ {0}
    /\ IdleTimeout \in Nat \ {0}
    /\ Start \in Nat
    \* No goroutine waits for a struct: there is one for each point that is under way.
    /\ IsFiniteSet(Objs) /\ Cardinality(Objs) >= MaxQueue + 4
    /\ None \notin Objs /\ None \notin Nat

VARIABLES
    clock, back, budget,          \* time, and what is left of the bounds
    mpc, mobj, dec,               \* decoder.mainloop, its point and tsdb.Decoder
    dpc, dobj, timer,             \* process.decode, its point and its timer
    w,                            \* the channel Pool.C
    tick,                         \* the Ticker: tt, whether ch is set, lastPassed
    xpc, xobj, xtime, xleft,      \* the exporter, keys of the Map it has not yet sent
    rules, bpc, bobj, bi,         \* the filter; Broadcast, its point, the relay's index
    queue, errors,                \* the relays' queues; keys of the Map relay.Errors
    hold, server, rejected,       \* serverConn.loop; the length of the channel behind it; the last point refused
    heap,                         \* the structs, each empty if not in use, or with its point
    \* observations
    lastLine, gap, slow, killed,  \* when the plugin last printed, and how it was killed
    cast, last,                   \* the point Broadcast has taken; times broadcast
    skewed                        \* the clock was set back while a tick was waiting

decodeVars == <<mpc, mobj, dec, dpc, dobj, timer, w>>
exportVars == <<xpc, xobj, xtime, xleft>>
tickVars   == <<tick, skewed>>
castVars   == <<bpc, bobj, bi, cast, last>>
relayVars  == <<queue, errors>>
serverVars == <<hold, server, rejected>>
idleVars   == <<lastLine, gap, slow, killed>>
boundVars  == <<clock, back, budget>>
vars == <<boundVars, decodeVars, tickVars, exportVars, rules, castVars, relayVars,
          serverVars, heap, idleVars>>

Relays  == Range(RelaySeq)
Now     == clock - back

\* A struct holds a point and, for observation, where it came from: the series
\* as decoded, the incarnation of the plugin, and when.
Own == [series |-> Nil, run |-> None, at |-> 0]

NewTimer == [at |-> clock + IdleTimeout, fired |-> FALSE]

Init ==
    /\ clock = Start /\ back = 0
    /\ mpc = "read" /\ mobj = None /\ dec = NewDecoder
    /\ dpc = "select" /\ dobj = None /\ timer = NewTimer
    /\ w = <<>>
    /\ tick = [tt |-> 0, armed |-> FALSE, last |-> 0]
    /\ skewed = FALSE
    /\ xpc = "wait" /\ xobj = None /\ xtime = 0 /\ xleft = {}
    /\ \E s \in Scenarios : rules = s.rules /\ budget = s.bound
    /\ bpc = "next" /\ bobj = None /\ bi = 1 /\ cast = Nil /\ last = <<>>
    /\ queue = [r \in Relays |-> <<>>] /\ errors = {}
    /\ hold = <<>> /\ server = 0 /\ rejected = <<>>
    /\ heap = [o \in Objs |-> <<>>]
    /\ lastLine = Start /\ gap = 0 /\ slow = FALSE /\ killed = FALSE

-------------------------------------------------------------------------------
(* Points are taken from a pool of structs and returned to it.  The structs  *)
(* of the pool are interchangeable; Obj is one of them.                      *)

Obj == CHOOSE o \in Objs : heap[o] = <<>>

getPoint(p, from) == heap' = [heap EXCEPT ![Obj] = <<[point |-> p, from |-> from]>>]

Free(o) == heap' = [heap EXCEPT ![o] = <<>>]

-------------------------------------------------------------------------------
(* The decoding of a plugin's output.                                        *)

\* decoder.mainloop reads the next line.
ReadLine(line) ==
    LET r == Decode(dec, line, Now)
    IN  /\ mpc = "read" /\ budget.lines > 0
        /\ budget' = [budget EXCEPT !.lines = @ - 1]
        /\ dec' = r.dec
        /\ IF Failed(r.point)
           THEN mpc' = "error" /\ UNCHANGED <<mobj, heap>>
           ELSE /\ getPoint(r.point, [series |-> appendSeries(r.point),
                                      run |-> budget.restarts, at |-> clock])
                /\ mpc' = "point" /\ mobj' = Obj
        /\ lastLine' = clock /\ gap' = Max({gap, clock - lastLine})
        /\ UNCHANGED <<clock, back, dpc, dobj, timer, w, tickVars, exportVars, rules,
                       castVars, relayVars, serverVars, slow, killed>>

\* The plugin ends its output.
ReadEOF ==
    /\ mpc = "read"
    /\ mpc' = "eof"
    /\ UNCHANGED <<boundVars, mobj, dec, dpc, dobj, timer, w, tickVars, exportVars, rules,
                   castVars, relayVars, serverVars, heap, idleVars>>

\* Mutant: the timer runs on.
ResetTimerNot ==
    /\ dpc' = "select" /\ UNCHANGED timer
    /\ slow' = (slow /\ timer.fired) /\ gap' = IF timer.fired THEN gap ELSE 0

\* Decode resets the timer, whose channel may still hold an earlier tick.
ResetTimer ==
    /\ dpc' = "select"
    /\ timer' = [timer EXCEPT !.at = clock + IdleTimeout]
    /\ slow' = (slow /\ timer.fired) /\ gap' = IF timer.fired THEN gap ELSE 0

\* Decode takes a point, ...
TakePoint ==
    /\ dpc = "select" /\ mpc = "point"
    /\ dpc' = "put" /\ dobj' = mobj
    /\ mpc' = "read" /\ mobj' = None
    /\ UNCHANGED <<boundVars, dec, timer, w, tickVars, exportVars, rules, castVars, relayVars,
                   serverVars, heap, idleVars>>

\* ... or an error, which is logged if it is one of syntax and else ends decode, ...
TakeError ==
    /\ dpc = "select"
    /\ \/ mpc = "error" /\ mpc' = "read" /\ ResetTimer
       \/ mpc = "eof" /\ mpc' = "done" /\ dpc' = "gone" /\ UNCHANGED <<timer, slow, gap>>
    /\ UNCHANGED <<boundVars, mobj, dec, dobj, w, tickVars, exportVars, rules, castVars,
                   relayVars, serverVars, heap, lastLine, killed>>

\* ... or the tick: the process is killed, and drain discards what mainloop
\* still reads.
Timeout ==
    /\ dpc = "select" /\ timer.fired
    /\ timer' = [timer EXCEPT !.fired = FALSE]
    /\ dpc' = "gone" /\ killed' = TRUE
    /\ mpc' = "done" /\ mobj' = None
    /\ IF mobj = None THEN UNCHANGED heap ELSE Free(mobj)
    /\ UNCHANGED <<boundVars, dec, dobj, w, tickVars, exportVars, rules, castVars, relayVars,
                   serverVars, lastLine, gap, slow>>

\* process.decode hands the point over, waiting while the queue is full, and
\* calls Decode again.
Enqueue ==
    /\ dpc = "put" /\ Len(w) < MaxQueue
    /\ w' = Append(w, dobj) /\ dobj' = None
    /\ ResetTimer
    /\ UNCHANGED <<boundVars, mpc, mobj, dec, tickVars, exportVars, rules, castVars, relayVars,
                   serverVars, heap, lastLine, killed>>

\* The pool starts the plugin anew, with a new decoder.
StartProcess ==
    /\ dpc = "gone" /\ budget.restarts > 0
    /\ budget' = [budget EXCEPT !.restarts = @ - 1]
    /\ dec' = NewDecoder /\ mpc' = "read" /\ dpc' = "select" /\ timer' = NewTimer
    /\ lastLine' = clock /\ gap' = 0 /\ slow' = FALSE /\ killed' = FALSE
    /\ UNCHANGED <<clock, back, mobj, dobj, w, tickVars, exportVars, rules, castVars,
                   relayVars, serverVars, heap>>

-------------------------------------------------------------------------------
(* Time.                                                                     *)

\* A second passes, and the idle timer may fire.
Advance ==
    /\ budget.seconds > 0
    /\ budget' = [budget EXCEPT !.seconds = @ - 1]
    /\ clock' = clock + 1
    /\ timer' = IF timer.at # None /\ timer.at <= clock'
                THEN [at |-> None, fired |-> TRUE] ELSE timer
    /\ slow' = (slow \/ dpc = "put" \/ mpc # "read")
    /\ UNCHANGED <<back, mpc, mobj, dec, dpc, dobj, w, tickVars, exportVars, rules, castVars,
                   relayVars, serverVars, heap, lastLine, gap, killed>>

SetClockBack ==
    /\ budget.back > 0
    /\ budget' = [budget EXCEPT !.back = @ - 1]
    /\ back' = back + 1
    /\ skewed' = (skewed \/ tick.armed)
    /\ UNCHANGED <<clock, decodeVars, tick, exportVars, rules, castVars, relayVars,
                   serverVars, heap, idleVars>>

\* Mutant: a second tick in the same second is passed on.
OSTickTwice ==
    /\ budget.ticks > 0
    /\ budget' = [budget EXCEPT !.ticks = @ - 1]
    /\ tick' = [tick EXCEPT !.tt = Now, !.armed = @ \/ Now >= tick.last]
    /\ UNCHANGED <<clock, back, decodeVars, skewed, exportVars, rules, castVars, relayVars,
                   serverVars, heap, idleVars>>

\* The Ticker receives a tick of the operating system, early or late: it
\* replaces one that was not yet passed on; one that does not advance the
\* second is not armed.
OSTick ==
    /\ budget.ticks > 0
    /\ budget' = [budget EXCEPT !.ticks = @ - 1]
    /\ tick' = [tick EXCEPT !.tt = Now, !.armed = @ \/ Now > tick.last]
    /\ UNCHANGED <<clock, back, decodeVars, skewed, exportVars, rules, castVars, relayVars,
                   serverVars, heap, idleVars>>

-------------------------------------------------------------------------------
(* stats.Self and ExportVars: an Int, then the keys of the Map.              *)

ExportTick ==
    /\ xpc = "wait" /\ tick.armed
    /\ tick' = [tick EXCEPT !.armed = FALSE, !.last = tick.tt]
    /\ xtime' = tick.tt
    /\ xpc' = "int"
    /\ getPoint(NewPoint(tick.tt, 0, SelfPoints, <<>>), Own) /\ xobj' = Obj
    /\ UNCHANGED <<boundVars, decodeVars, xleft, rules, castVars, relayVars, serverVars,
                   skewed, idleVars>>

\* The exporter is inside Map.Do.
MapLocked == xpc \in {"entry", "nextentry"}

ExportKey(keys) ==
    \E r \in keys :
        /\ getPoint(NewPoint(xtime, 0, SelfErrors, <<<<"relay", r>>>>), Own)
        /\ xobj' = Obj /\ xleft' = keys \ {r} /\ xpc' = "entry"

ExportMap ==
    /\ \/ xpc = "map" /\ errors # {} /\ ExportKey(errors)
       \/ xpc = "nextentry" /\ ExportKey(xleft)
       \/ xpc = "map" /\ errors = {} /\ xpc' = "wait" /\ UNCHANGED <<xobj, xleft, heap>>
    /\ UNCHANGED <<boundVars, decodeVars, tickVars, xtime, rules, castVars, relayVars,
                   serverVars, idleVars>>

-------------------------------------------------------------------------------
(* Broadcast: the next point of the filtered, joined series to all relays.   *)

\* Points of one series and one incarnation of the plugin.
SourceOf(c) == <<c.from.run, c.from.series>>

\* filter.Series: a point that does not pass is freed and the next one taken.
Filtered(o) ==
    LET e == Eval(rules, heap[o][1].point)
        c == [point |-> e.point, from |-> heap[o][1].from]
    IN  IF e.verdict = "pass"
        THEN /\ heap' = [heap EXCEPT ![o] = <<c>>] /\ cast' = c
             /\ bpc' = "submit" /\ bobj' = o /\ bi' = 1
             /\ last' = Assigned(last, SourceOf(c), e.point.time)
        ELSE Free(o) /\ UNCHANGED castVars

NextFromPlugins ==
    /\ bpc = "next" /\ w # <<>>
    /\ w' = Tail(w)
    /\ Filtered(Head(w))
    /\ UNCHANGED <<boundVars, mpc, mobj, dec, dpc, dobj, timer, tickVars, exportVars, rules,
                   relayVars, serverVars, idleVars>>

NextFromSelf ==
    /\ bpc = "next" /\ xpc \in {"int", "entry"}
    /\ xobj' = None
    /\ xpc' = CASE xpc = "int" -> "map"
                [] xpc = "entry" /\ xleft # {} -> "nextentry"
                [] OTHER -> "wait"
    /\ Filtered(xobj)
    /\ UNCHANGED <<boundVars, decodeVars, tickVars, xtime, xleft, rules, relayVars, serverVars,
                   idleVars>>

\* Mutant: the point is freed after the first relay.
SubmitDoneEarly ==
    /\ Free(bobj)
    /\ IF bi < Len(RelaySeq) THEN bi' = bi + 1 /\ bpc' = "submit" /\ UNCHANGED bobj
                             ELSE bi' = 1 /\ bpc' = "next" /\ bobj' = None

\* The point is freed after the last relay.
SubmitDone ==
    IF bi < Len(RelaySeq)
    THEN bi' = bi + 1 /\ bpc' = "submit" /\ UNCHANGED <<bobj, heap>>
    ELSE /\ bi' = 1 /\ bpc' = "next" /\ bobj' = None
         /\ Free(bobj)

\* Mutant: Put waits for room.
SubmitWaits ==
    LET r == RelaySeq[bi]
    IN  /\ bpc = "submit" /\ Len(queue[r]) < MaxRelayQueue
        /\ queue' = [queue EXCEPT ![r] = Append(@, heap[bobj])]
        /\ SubmitDone
        /\ UNCHANGED <<boundVars, decodeVars, tickVars, exportVars, rules, cast, last, errors,
                       serverVars, idleVars>>

\* Client.Put encodes the point into a command of its own, if the queue has room.
Submit ==
    LET r == RelaySeq[bi]
    IN  /\ bpc = "submit"
        /\ IF Len(queue[r]) < MaxRelayQueue
           THEN /\ queue' = [queue EXCEPT ![r] = Append(@, heap[bobj])]
                /\ SubmitDone
           ELSE bpc' = "drop" /\ UNCHANGED <<queue, bobj, bi, heap>>
        /\ UNCHANGED <<boundVars, decodeVars, tickVars, exportVars, rules, cast, last, errors,
                       serverVars, idleVars>>

\* relay.drop counts the point under a key of relay.Errors.
Drop ==
    LET r == RelaySeq[bi]
    IN  /\ bpc = "drop"
        /\ r \in errors \/ ~MapLocked
        /\ errors' = errors \cup {r}
        /\ SubmitDone
        /\ UNCHANGED <<boundVars, decodeVars, tickVars, exportVars, rules, cast, last, queue,
                       serverVars, idleVars>>

-------------------------------------------------------------------------------
(* The relays' side: clients write their queues to connections that work.    *)

Sent(r) ==
    /\ r # Aggregator /\ queue[r] # <<>>
    /\ queue' = [queue EXCEPT ![r] = Tail(@)]
    /\ UNCHANGED <<boundVars, decodeVars, tickVars, exportVars, rules, castVars, errors,
                   serverVars, heap, idleVars>>

\* serverConn.loop reads a put and decodes it, without order check; what is
\* invalid is answered with an error.
ServerRead ==
    LET sent == Head(queue[Aggregator])[1]
        p    == unmarshalText(append(sent.point))
    IN  /\ hold = <<>> /\ queue[Aggregator] # <<>>
        /\ queue' = [queue EXCEPT ![Aggregator] = Tail(@)]
        /\ IF Failed(p) THEN rejected' = <<sent.point>> /\ UNCHANGED hold
                        ELSE hold' = <<[sent |-> sent.point, read |-> p]>> /\ UNCHANGED rejected
        /\ UNCHANGED <<boundVars, decodeVars, tickVars, exportVars, rules, castVars, errors,
                       server, heap, idleVars>>

\* The point waits for room in the server's channel.
ServerEnqueue ==
    /\ hold # <<>> /\ server < MaxServerQueue
    /\ server' = server + 1 /\ hold' = <<>>
    /\ UNCHANGED <<boundVars, decodeVars, tickVars, exportVars, rules, castVars, relayVars,
                   rejected, heap, idleVars>>

\* The aggregator's own Broadcast.
ServerBroadcast ==
    /\ server > 0
    /\ server' = server - 1
    /\ UNCHANGED <<boundVars, decodeVars, tickVars, exportVars, rules, castVars, relayVars,
                   hold, rejected, heap, idleVars>>

Next ==
    \/ \E line \in Lines : ReadLine(line)
    \/ ReadEOF \/ TakePoint \/ TakeError \/ Timeout \/ Enqueue \/ StartProcess
    \/ Advance \/ SetClockBack \/ OSTick \/ ExportTick \/ ExportMap
    \/ NextFromPlugins \/ NextFromSelf \/ Submit \/ Drop
    \/ \E r \in Relays : Sent(r)
    \/ ServerRead \/ ServerEnqueue \/ ServerBroadcast

Spec == Init /\ [][Next]_vars

\* Goroutines that can proceed do so, and a select that finds both channels
\* ready again and again, choosing at random, serves each.  Nothing is assumed
\* of the plugin, of time, or of the relays.  (Only NextFromPlugins takes from w,
\* and only NextFromSelf takes xobj.)
FairSpec ==
    /\ Spec
    /\ WF_vars(ExportMap) /\ WF_vars(Submit) /\ WF_vars(Drop)
    /\ SF_w(bpc = "next" /\ w # <<>> /\ w' = Tail(w))
    /\ SF_xobj(bpc = "next" /\ xobj # None /\ xobj' = None)

-------------------------------------------------------------------------------
(* Properties.                                                               *)

\* The types of the variables; queues keep to their limits.
TypeOK ==
    /\ mpc \in {"read", "point", "error", "eof", "done"} /\ mobj \in Objs \cup {None}
    /\ Cardinality(DOMAIN dec.bySeries) <= MaxSeries
    /\ dec.countdown \in 1..CleanupEveryN
    /\ dpc \in {"select", "put", "gone"} /\ dobj \in Objs \cup {None}
    /\ timer.at \in Nat \cup {None} /\ timer.fired \in BOOLEAN
    /\ w \in Seq(Objs) /\ Len(w) <= MaxQueue
    /\ tick.armed \in BOOLEAN /\ tick.tt \in Nat /\ tick.last \in Nat
    /\ xpc \in {"wait", "int", "map", "entry", "nextentry"} /\ xobj \in Objs \cup {None}
    /\ xleft \subseteq errors /\ errors \subseteq Relays
    /\ bpc \in {"next", "submit", "drop"} /\ bobj \in Objs \cup {None}
    /\ bi \in DOMAIN RelaySeq
    /\ \A r \in Relays : Len(queue[r]) <= MaxRelayQueue
    /\ Len(hold) <= 1 /\ server \in 0..MaxServerQueue

\* Each relay is a mirror: what is put into a relay's queue is the point that
\* Broadcast took, as it left the filter.  No struct is reused while a relay
\* has still to be sent what it holds.
Mirrors ==
    [][\A r \in Relays :
          Len(queue'[r]) > Len(queue[r]) => Last(queue'[r]) = <<cast>>]_vars

\* The points of one series that one incarnation of a plugin prints are
\* broadcast in strict time order, except that a series is forgotten MaxAge
\* after its last point: what comes then is accepted whatever its time.
OrderUnlessAged ==
    [][LET s == SourceOf(cast')
       IN  bobj = None /\ bobj' # None /\ cast'.from.run # None /\ s \in DOMAIN last =>
              \/ last[s] < cast'.point.time
              \/ last[s] <= cast'.from.at - MaxAge]_vars

\* What validOrder says: the points a plugin prints are broadcast in strict time order,
\* of each series and each incarnation (internal/tsdb/decoder.go validOrder, cleanup).
TotallyOrdered ==
    [][LET s == SourceOf(cast')
       IN  bobj = None /\ bobj' # None /\ cast'.from.run # None /\ s \in DOMAIN last =>
              last[s] < cast'.point.time]_vars

\* The time of the point was past the range, and is written with a sign; or the
\* text of the point is too long.
Unreadable(p) == p.time < 0 \/ TooLong(append(p))

DistinctSetKeys(r) ==
    \A i, j \in Pairs(r.Set) : i # j => r.Set[i].lit # r.Set[j].lit

\* The aggregator reads what the forwarder sent: a point that has passed
\* decoder and filter, or was made by the exporter, is valid for the server's
\* decoder and comes out of it unchanged.  The exceptions: a Set that names a
\* key twice yields points that the server rejects, as it does a time that has
\* overflowed and a line that a Set has made too long; and the smallest integer
\* is written as 0.
ServerReadsSent ==
    /\ rejected # <<>> => \/ \E i \in DOMAIN rules : ~DistinctSetKeys(rules[i])
                          \/ Unreadable(rejected[1])
    /\ hold # <<>> => LET h == hold[1]
                     IN  \/ h.read = h.sent
                         \/ h.sent.value = -HalfRange /\ h.read = [h.sent EXCEPT !.value = 0]

\* A plugin is killed as idle only if, since the last Reset that found no tick
\* waiting, it printed nothing for IdleTimeout, or process.decode was held up,
\* by a full queue or with a line waiting to be taken.
KillJustified ==
    killed => \/ gap >= IdleTimeout \/ clock - lastLine >= IdleTimeout
              \/ slow

\* What the decoder of plugins says: the idle timeout comes after a period in which the
\* plugin was inactive.  A line that is still on its way to Decode may lose to the tick;
\* with none on its way, the tick must tell of a plugin that was silent
\* (internal/collect/decoder.go Decode, whose Reset does not drain the timer).
IdleOnly ==
    [][killed' /\ ~killed /\ mpc = "read" =>
          gap >= IdleTimeout \/ clock - lastLine >= IdleTimeout]_vars

\* The times of the exported points increase strictly, though ticks come early,
\* late or twice in a second and the wall clock is set back, unless it was set
\* back while a tick was waiting for the exporter.
TickOrder == [][xpc = "wait" /\ xpc' = "int" => xtime' > tick.last \/ skewed]_vars

\* Broadcast counts the first drop of a relay while the exporter, inside the
\* Map of the counters, waits for Broadcast to take its point.
Wedged == bpc = "drop" /\ RelaySeq[bi] \notin errors /\ MapLocked

\* What the plugins enqueue is broadcast, whatever the relays do, unless
\* Broadcast and the exporter wait for each other.
Drains == (w # <<>>) ~> (w = <<>> \/ Wedged)

\* What Broadcast says: the points received are broadcast to all relays, so that none
\* waits for ever (internal/relay/pool.go Broadcast, tsdbutil/expvar.go ExportVars).
Broadcasts == (w # <<>>) ~> (w = <<>>)

-------------------------------------------------------------------------------
(* The inductive invariant behind TypeOK, KillJustified, TickOrder and       *)
(* Mirrors.                                                                  *)

\* A goroutine has a struct exactly where its loop has a point in hand.
HandInv ==
    /\ (mpc = "point" <=> mobj # None) /\ (dpc = "put" <=> dobj # None)
    /\ (xpc \in {"int", "entry"} <=> xobj # None) /\ (bpc # "next" <=> bobj # None)
    /\ (dpc = "gone" <=> mpc = "done")

\* The structs that are with a goroutine or in Pool.C.
Owned == ({mobj, dobj, xobj, bobj} \ {None}) \cup Range(w)

\* The structs in use are those, none is lost, and each is in one place only.  The
\* one that Broadcast holds has the point it took.
HeapInv ==
    /\ DOMAIN heap = Objs /\ \A o \in Objs : heap[o] # <<>> <=> o \in Owned
    /\ mobj # None => mobj \notin {dobj, xobj, bobj} \cup Range(w)
    /\ dobj # None => dobj \notin {xobj, bobj} \cup Range(w)
    /\ xobj # None => xobj \notin {bobj} \cup Range(w)
    /\ bobj # None => bobj \notin Range(w) /\ heap[bobj] = <<cast>>
    /\ IsInjective(w)

\* Until the clock is set back under it, a tick that waits is new and not ahead.
TickInv ==
    /\ clock \in Nat /\ back \in Nat /\ budget \in Bounds
    /\ Start <= clock /\ back + budget.back < Start
    /\ tick \in [tt : Nat, armed : BOOLEAN, last : Nat] /\ skewed \in BOOLEAN
    /\ tick.armed /\ ~skewed => tick.last < tick.tt /\ tick.tt <= Now

\* The plugin has been silent, or decode has been late, for as long as it takes.
Late == gap >= IdleTimeout \/ clock - lastLine >= IdleTimeout \/ slow

\* A line that came after the timer was set is still on its way to the Reset.
IdleInv ==
    /\ timer \in [at : Nat \cup {None}, fired : BOOLEAN]
    /\ lastLine \in Nat /\ lastLine <= clock /\ gap \in Nat
    /\ slow \in BOOLEAN /\ killed \in BOOLEAN
    /\ timer.at # None => \/ slow \/ lastLine + IdleTimeout <= timer.at
                          \/ mpc # "read" \/ dpc = "put"
    /\ timer.fired => Late
    /\ killed => dpc = "gone" /\ Late

DecoderInv ==
    /\ dec = [bySeries |-> dec.bySeries, countdown |-> dec.countdown]
    /\ IsFiniteSet(DOMAIN dec.bySeries)

QueueInv == DOMAIN queue = Relays /\ \A r \in Relays : queue[r] \in Seq(Range(queue[r]))

\* What a point that a plugin printed holds, and the plugin's incarnation.
IsPoint(p) == /\ p = [metric |-> p.metric, time |-> p.time, value |-> p.value, tags |-> p.tags]
              /\ p.time \in Int

Item(o) == heap[o][1]

Printed(c) ==
    /\ IsPoint(c.point) /\ c.from = [series |-> c.from.series, run |-> c.from.run, at |-> c.from.at]
    /\ c.from.run \in Nat /\ c.from.run >= budget.restarts /\ c.from.at \in Nat

\* What OrderUnlessAged asks of point c when one of time t came before it.
Follows(t, c) == t < c.point.time \/ t <= c.from.at - MaxAge

\* The decoder knows that the series has come to time t, or the time is past MaxAge.
Remembered(series, t) ==
    \/ series \in DOMAIN dec.bySeries /\ t <= dec.bySeries[series]
    \/ t <= clock - MaxAge

Flying == Range(w) \cup ({mobj, dobj} \ {None})

\* o was printed before q.
Precedes(o, q) ==
    \/ \E i, j \in DOMAIN w : i < j /\ w[i] = o /\ w[j] = q
    \/ o \in Range(w) /\ q \in {mobj, dobj}
    \/ o = dobj /\ q = mobj

\* The points of a plugin on their way to Broadcast follow what was broadcast and each
\* other; the decoder at work remembers all those of its own incarnation.
FlightInv ==
    /\ Len(rules) \in Nat /\ (xobj # None => Item(xobj).from.run = None)
    /\ \A x \in DOMAIN dec.bySeries : dec.bySeries[x] \in Int
    /\ \A s \in DOMAIN last : s[1] # None =>
          /\ last[s] \in Int /\ s[1] \in Nat /\ s[1] >= budget.restarts
          /\ s[1] = budget.restarts => Remembered(s[2], last[s])
    /\ \A o \in Flying :
          /\ Printed(Item(o))
          /\ SourceOf(Item(o)) \in DOMAIN last => Follows(last[SourceOf(Item(o))], Item(o))
          /\ Item(o).from.run = budget.restarts =>
                Remembered(Item(o).from.series, Item(o).point.time)
    /\ \A o, q \in Flying : Precedes(o, q) /\ SourceOf(Item(o)) = SourceOf(Item(q)) =>
          Follows(Item(o).point.time, Item(q))

\* What the decoder, the exporter and the filter make can be sent and read again.
Sendable(p) ==
    /\ IsPoint(p) /\ p.value \in -HalfRange..(HalfRange - 1) /\ validText(p.metric)
    /\ p.time * PerSecond < HalfTime
    /\ p.tags \in Seq(Range(p.tags)) /\ Len(p.tags) <= MaxTags
    /\ \A i \in DOMAIN p.tags : validTag(p.tags[i])
    /\ (\A i \in DOMAIN rules : DistinctSetKeys(rules[i])) => DistinctKeys(p.tags)

\* So can every point in a struct or on its way to the aggregator.
SendInv ==
    /\ rules \in {s.rules : s \in Scenarios} /\ xtime \in Nat
    /\ \A o \in Owned : Sendable(Item(o).point)
    /\ \A i \in DOMAIN queue[Aggregator] : Sendable(queue[Aggregator][i][1].point)
    /\ ServerReadsSent

IInv == TypeOK /\ HandInv /\ HeapInv /\ TickInv /\ IdleInv /\ DecoderInv /\ QueueInv

===============================================================================
