-------------------------------- MODULE Statse --------------------------------
(***************************************************************************)
(* collect-statse: forwarders decode the messages of applications, filter  *)
(* them and send the events to an aggregator, which keeps a store entry    *)
(* per metric, tags and host and turns the store into data points at every *)
(* snapshot (cmd/collect-statse: statse, forwarder, aggregator).           *)
(*                                                                         *)
(* A message is given by its parsed fields: version, metric, tags (a set   *)
(* of key-value pairs; of version 1 only an "op" pair, if any), statistics *)
(* in the order they are written, and err.  bad marks a message whose tags *)
(* do not validate.  The filter is configured as the controller writes it: *)
(* it blocks some metrics and adds the host tag to the others where it is  *)
(* missing, except for those in NoHost.                                    *)
(*                                                                         *)
(* gob (external): a field with its zero value is not transmitted, and     *)
(* what is not transmitted is left alone by the decoder.                   *)
(***************************************************************************)
EXTENDS Integers, Sequences, FiniteSets, SequencesExt, Functions

CONSTANTS
    Hosts,        \* the forwarders, one per host
    Messages,     \* the messages applications send
    Blocked,      \* metrics the filter blocks
    NoHost,       \* metrics to which no host tag is added
    StatKeys,     \* the statistics: statse.Key
    MaxBufferLen, \* MaxBufferLen
    Timeout,      \* defaultTimeout: entries idle for longer are removed
    Intervals,    \* the settings of SnapshotInterval
    CleanupInterval, \* cleanupInterval
    Scenarios,    \* bounds: messages, broken connections and seconds of a behaviour
    Nil

ASSUME StatseAssumption ==
    /\ MaxBufferLen \in Nat \ {0} /\ Timeout \in Nat
    /\ Intervals \subseteq Nat /\ CleanupInterval \in Nat \ {0}
    /\ Nil \notin Messages /\ Nil \notin Hosts /\ Nil \notin Seq(Int)
    /\ \A x \in Messages : /\ x.stats \in Seq(StatKeys \X Int)
                           /\ x.error \in BOOLEAN /\ x.bad \in BOOLEAN
                           /\ \A t \in x.tags : t[2] # Nil

VARIABLES
    fpc, event, msg,      \* each forwarder, its only Event, the message it came from
    conn, wire,           \* its connection: none, up or broken; events under way
    decoded,              \* the Event of the aggregator's serverConn
    store,                \* the entries by key
    interval, spc, ticks, \* the scheduler: SnapshotInterval, where it is, the ticks waiting
    clock, left,          \* time, and what is left of the bounds
    reported,             \* the last points of each series
    gone                  \* observed: the keys removed since the last snapshot

forwardVars == <<fpc, event, msg, conn, wire>>
storeVars   == <<store, reported, gone>>
schedVars   == <<interval, spc, ticks>>
vars == <<forwardVars, decoded, storeVars, schedVars, clock, left>>

NoStats == <<>>
ZeroEvent == [metric |-> Nil, tags |-> {}, error |-> FALSE, stats |-> NoStats]

\* At least one second; no interval is too long.
validateSnapshotInterval(i) == i >= 1

Init ==
    /\ fpc = [h \in Hosts |-> "read"] /\ event = [h \in Hosts |-> ZeroEvent]
    /\ msg = [h \in Hosts |-> Nil]
    /\ conn = [h \in Hosts |-> "none"] /\ wire = [h \in Hosts |-> <<>>]
    /\ decoded = [h \in Hosts |-> ZeroEvent]
    /\ store = <<>> /\ reported = <<>> /\ gone = {}
    /\ interval \in {i \in Intervals : validateSnapshotInterval(i)} /\ spc = "select" /\ ticks = {}
    /\ clock = 0 /\ left \in Scenarios

-------------------------------------------------------------------------------
(* The forwarder.                                                            *)

\* parseStatistics: of a statistic that is given twice the first value counts.
Statistics(s) ==
    [k \in {s[i][1] : i \in DOMAIN s} |-> s[CHOOSE i \in DOMAIN s : s[i][1] = k
                                            /\ \A j \in 1..(i-1) : s[j][1] # k][2]]

\* parse clears the error and the statistics before it looks at the version;
\* parseStatistics sets them again.
parseFields(ev, m) == [ev EXCEPT !.stats = Statistics(m.stats), !.error = m.error]

\* A version 1 message without an op leaves the tags alone.
parseV1(ev, m) ==
    [parseFields(ev, m) EXCEPT !.metric = m.metric, !.tags = IF m.tags = {} THEN @ ELSE m.tags]

\* A version 2 message with an invalid tag has its metric stored already.
validateTags(m) == ~m.bad
parseV2(ev, m) ==
    IF validateTags(m) THEN [parseFields(ev, m) EXCEPT !.metric = m.metric, !.tags = m.tags]
    ELSE [ev EXCEPT !.metric = m.metric, !.stats = NoStats, !.error = FALSE]

\* Event.parse into the one Event of the forwarder.
parse(ev, m) == IF m.ver = 1 THEN parseV1(ev, m) ELSE parseV2(ev, m)

\* The values of the host tag.
HostOf(ev) == {t[2] : t \in {u \in ev.tags : u[1] = "host"}}

\* The filter's rewrite: a rule of the controller adds the host tag if it is missing.
Rewritten(h, ev) ==
    IF ev.metric \in NoHost \/ HostOf(ev) # {} THEN ev
    ELSE [ev EXCEPT !.tags = @ \cup {<<"host", h>>}]

\* in and test: an invalid message and a blocked event are dropped.  Final stores
\* what the filter made of the others in the same Event.
Receive(h, m) ==
    /\ fpc[h] = "read" /\ left.messages > 0
    /\ left' = [left EXCEPT !.messages = @ - 1]
    /\ LET ev == parse(event[h], m)
       IN  IF m.bad \/ ev.metric \in Blocked
           THEN event' = [event EXCEPT ![h] = ev] /\ UNCHANGED <<fpc, msg>>
           ELSE /\ event' = [event EXCEPT ![h] = Rewritten(h, ev)]
                /\ fpc' = [fpc EXCEPT ![h] = "send"] /\ msg' = [msg EXCEPT ![h] = m]
    /\ UNCHANGED <<conn, wire, decoded, storeVars, schedVars, clock>>

\* Client.Send dials until it has a connection, ...
Dial(h) ==
    /\ fpc[h] = "send" /\ conn[h] = "none"
    /\ conn' = [conn EXCEPT ![h] = "up"] /\ decoded' = [decoded EXCEPT ![h] = ZeroEvent]
    /\ UNCHANGED <<fpc, event, msg, wire, storeVars, schedVars, clock, left>>

\* ... and encodes the event, which is lost if the connection is broken, with a
\* network error or, the first time, without one.
Send(h) ==
    /\ fpc[h] = "send" /\ conn[h] # "none"
    /\ fpc' = [fpc EXCEPT ![h] = "read"]
    /\ \/ /\ conn[h] = "up"
          /\ wire' = [wire EXCEPT ![h] = Append(@, [event |-> event[h], msg |-> msg[h]])]
          /\ UNCHANGED conn
       \/ conn[h] = "broken" /\ conn' = [conn EXCEPT ![h] = "none"] /\ UNCHANGED wire
       \/ conn[h] = "broken" /\ UNCHANGED <<conn, wire>>
    /\ msg' = [msg EXCEPT ![h] = Nil]
    /\ UNCHANGED <<event, decoded, storeVars, schedVars, clock, left>>

\* What the aggregator's host has received by then is still read.
Break(h) ==
    /\ conn[h] = "up" /\ left.breaks > 0
    /\ left' = [left EXCEPT !.breaks = @ - 1]
    /\ conn' = [conn EXCEPT ![h] = "broken"]
    /\ \E n \in 0..Len(wire[h]) : wire' = [wire EXCEPT ![h] = SubSeq(@, 1, n)]
    /\ UNCHANGED <<fpc, event, msg, decoded, storeVars, schedVars, clock>>

-------------------------------------------------------------------------------
(* The aggregator's store.                                                   *)

\* What gob makes of e when it decodes into old.
Decoded(old, e) ==
    [metric |-> e.metric,
     tags   |-> IF e.tags = {} THEN old.tags ELSE e.tags,
     error  |-> e.error \/ old.error,
     stats  |-> IF e.stats = NoStats THEN old.stats ELSE e.stats]

\* parseHostTag: an event without a host has no key.
KeyOf(ev)  == [metric |-> ev.metric, tags |-> {t \in ev.tags : t[1] # "host"},
               host |-> CHOOSE h \in HostOf(ev) : TRUE]

\* An entry: ModTime, the two counts, and a buffer for each statistic, Nil until
\* it is first used.  Observed besides: the values since the last snapshot, and
\* whether there was an event since.
newEntry == [mod |-> 0, okay |-> 0, err |-> 0, buf |-> [k \in StatKeys |-> Nil],
             since |-> [k \in StatKeys |-> <<>>], fresh |-> FALSE]

\* Mutant: the limit is off by one.
AppendedMore(buf, v) ==
    LET b == IF buf = Nil THEN <<>> ELSE buf
    IN  IF Len(b) <= MaxBufferLen THEN {Append(b, v)}
        ELSE {[b EXCEPT ![i] = v] : i \in DOMAIN b}

\* buffer.Append: a full buffer has a random element replaced.
Appended(buf, v) ==
    LET b == IF buf = Nil THEN <<>> ELSE buf
    IN  IF Len(b) < MaxBufferLen THEN {Append(b, v)}
        ELSE {[b EXCEPT ![i] = v] : i \in DOMAIN b}

\* The functions on StatKeys whose value at k is in S[k].
Product(S) == {f \in [StatKeys -> UNION {S[k] : k \in StatKeys}] :
                  \A k \in StatKeys : f[k] \in S[k]}

\* Mutant: the time of an entry is the time it was made.
ModTimeOnce(e) == IF e.okay + e.err = 0 THEN clock ELSE e.mod

\* The ModTime of an entry that takes an event.
ModTime(e) == clock

\* What an event makes of its entry: one with an error counts, its statistics do not.
Updated(e, ev) ==
    LET n == [e EXCEPT !.mod = ModTime(e), !.fresh = TRUE]
    IN  IF ev.error THEN {[n EXCEPT !.err = @ + 1]}
        ELSE {[n EXCEPT !.okay = @ + 1, !.buf = b,
                        !.since = [k \in StatKeys |-> IF k \in DOMAIN ev.stats
                                     THEN Append(e.since[k], ev.stats[k]) ELSE e.since[k]]] :
              b \in Product([k \in StatKeys |-> IF k \in DOMAIN ev.stats
                             THEN Appended(e.buf[k], ev.stats[k]) ELSE {e.buf[k]}])}

\* Mutant: the Event of the loop is not cleared.
ClearedNot(ev) == ev

\* The loop clears its Event before the next Decode.
Cleared(ev) == ZeroEvent

\* The store with entry e for key k.
Stored(k, e) == [x \in DOMAIN store \cup {k} |-> IF x = k THEN e ELSE store[x]]

\* serverConn.loop: decode the next event and write it to the store.
Write(h) ==
    /\ wire[h] # <<>>
    /\ LET ev == Decoded(decoded[h], Head(wire[h]).event)
           k  == KeyOf(ev)
       IN  /\ decoded' = [decoded EXCEPT ![h] = Cleared(ev)]
           /\ IF HostOf(ev) = {} THEN UNCHANGED store
              ELSE \E e \in Updated(IF k \in DOMAIN store THEN store[k] ELSE newEntry, ev) :
                      store' = Stored(k, e)
    /\ wire' = [wire EXCEPT ![h] = Tail(@)]
    /\ UNCHANGED <<fpc, event, msg, conn, reported, gone, schedVars, clock, left>>

-------------------------------------------------------------------------------
(* The scheduler: snapshots and cleanups.                                    *)

\* calc of one buffer: min, avg (as sum and number), p95, p99 and max.
calc(values) ==
    LET v == IF values = <<>> THEN <<0>> ELSE SortSeq(values, LAMBDA a, b : a < b)
        n == Len(v)
    IN  [min |-> v[1], sum |-> FoldLeft(LAMBDA a, b : a + b, 0, v), len |-> n,
         p95 |-> v[(95 * n) \div 100 + 1], p99 |-> v[(99 * n) \div 100 + 1], max |-> v[n]]

\* The points of an entry: a buffer that was never used has none.
Points(okay, err, buf) ==
    [okay |-> okay, err |-> err,
     stats |-> [k \in {j \in StatKeys : buf[j] # Nil} |-> calc(buf[k])]]

HostPoints == [k \in DOMAIN store |-> Points(store[k].okay, store[k].err, store[k].buf)]

\* The cluster entry of all hosts' entries of a metric and tags; its buffers
\* take the values of the hosts' buffers, in any order of the hosts.
Cluster(k) == [metric |-> k.metric, tags |-> k.tags, host |-> Nil]
Clusters   == {Cluster(k) : k \in DOMAIN store}
Of(c)      == {k \in DOMAIN store : Cluster(k) = c}

\* The sum of their counts: the number of events they have counted.
Counted(c, count) == UNION {{k} \X (1..store[k][count]) : k \in Of(c)}
Total(c, count)   == Cardinality(Counted(c, count))

ClusterBuffers(order, s) ==
    LET AppendAll(B, k) == FoldLeft(LAMBDA X, v : UNION {Appended(b, v) : b \in X}, B,
                                    IF store[k].buf[s] = Nil THEN <<>> ELSE store[k].buf[s])
    IN  FoldLeft(AppendAll, {Nil}, order)

ClusterPoints(c) ==
    {Points(Total(c, "okay"), Total(c, "err"), b) :
        b \in UNION {Product([s \in StatKeys |-> ClusterBuffers(o, s)]) :
                     o \in SetToSeqs(Of(c))}}

\* Mutant: the counts start again with the buffers.
ResetCounts(e) == [e EXCEPT !.buf = [k \in StatKeys |-> IF @[k] = Nil THEN Nil ELSE <<>>],
                            !.okay = 0, !.err = 0,
                            !.since = [k \in StatKeys |-> <<>>], !.fresh = FALSE]

\* Mutant: the buffers keep their values.
ResetNot(e) == [e EXCEPT !.since = [k \in StatKeys |-> <<>>], !.fresh = FALSE]

\* The entry after a snapshot: Reset empties the buffers, the counts go on.
Reset(e) == [e EXCEPT !.buf = [k \in StatKeys |-> IF e.buf[k] = Nil THEN Nil ELSE <<>>],
                      !.since = [k \in StatKeys |-> <<>>], !.fresh = FALSE]

\* snapshot: the points of the hosts and of the clusters, sent to tsdbChan after.
snapshot ==
    /\ spc = "select" /\ "snapshot" \in ticks
    /\ ticks' = ticks \ {"snapshot"} /\ spc' = "sending"
    /\ \E r \in [Clusters -> UNION {ClusterPoints(c) : c \in Clusters}] :
          /\ \A c \in Clusters : r[c] \in ClusterPoints(c)
          /\ reported' = [k \in DOMAIN store \cup Clusters |->
                             IF k \in DOMAIN store THEN HostPoints[k] ELSE r[k]]
    /\ store' = [k \in DOMAIN store |-> Reset(store[k])]
    /\ gone' = {}
    /\ UNCHANGED <<forwardVars, decoded, interval, clock, left>>

\* The channel takes the points as fast as they are read from stdout.
Sent ==
    /\ spc = "sending" /\ spc' = "select"
    /\ UNCHANGED <<forwardVars, decoded, storeVars, interval, ticks, clock, left>>

\* cleanup: entries without an event for longer than Timeout go.
cleanup ==
    /\ spc = "select" /\ "cleanup" \in ticks
    /\ ticks' = ticks \ {"cleanup"}
    /\ LET idle == {k \in DOMAIN store : clock - store[k].mod > Timeout}
       IN  /\ store' = [k \in DOMAIN store \ idle |-> store[k]]
           /\ gone' = gone \cup idle
    /\ UNCHANGED <<forwardVars, decoded, reported, interval, spc, clock, left>>

\* time.Tick: a tick that finds an earlier one waiting is dropped.
Advance ==
    /\ left.seconds > 0
    /\ left' = [left EXCEPT !.seconds = @ - 1]
    /\ clock' = clock + 1
    /\ ticks' = ticks \cup {t \in {"snapshot", "cleanup"} :
                              clock' % (IF t = "snapshot" THEN interval ELSE CleanupInterval) = 0}
    /\ UNCHANGED <<forwardVars, decoded, storeVars, interval, spc>>

-------------------------------------------------------------------------------
Forwarder == \E h \in Hosts : (\E m \in Messages : Receive(h, m)) \/ Dial(h) \/ Send(h)
Network   == \E h \in Hosts : Break(h)
Server    == \E h \in Hosts : Write(h)
scheduler == snapshot \/ Sent \/ cleanup

Next == Forwarder \/ Network \/ Server \/ scheduler \/ Advance
Spec == Init /\ [][Next]_vars

-------------------------------------------------------------------------------
(* Properties.                                                               *)

Metrics == {m.metric : m \in Messages}
Tags    == UNION {m.tags : m \in Messages}
Keys    == [metric : Metrics, tags : SUBSET Tags,
            host : Hosts \cup {t[2] : t \in {u \in Tags : u[1] = "host"}}]

\* The forwarders, the connections, the store and the scheduler are in the states
\* their loops allow: only a loop that has an event to send holds its message, and a
\* buffer never exceeds MaxBufferLen
\* (forwarder/server.go, aggregator/store.go, aggregator/scheduler.go).
TypeOK ==
    /\ \A h \in Hosts : /\ fpc[h] \in {"read", "send"} /\ (msg[h] # Nil <=> fpc[h] = "send")
                        /\ conn[h] \in {"none", "up", "broken"}
    /\ \A k \in DOMAIN store :
          /\ k \in Keys /\ store[k].mod \in 0..clock
          /\ \A s \in StatKeys : store[k].buf[s] # Nil => Len(store[k].buf[s]) <= MaxBufferLen
    /\ spc \in {"select", "sending"} /\ ticks \subseteq {"snapshot", "cleanup"}
    /\ gone \subseteq Keys

\* A version 1 message without an op: its event has the tags of an earlier one.
Inherits(m) == m.ver = 1 /\ m.tags = {}

\* ev is the event of message m as the forwarder of host h passes it on.
Carries(h, ev, m) ==
    /\ ev.metric = m.metric /\ ev.error = m.error
    /\ DOMAIN ev.stats = {m.stats[i][1] : i \in DOMAIN m.stats}
    /\ \A k \in DOMAIN ev.stats : <<k, ev.stats[k]>> \in Range(m.stats)
    /\ m.metric \notin NoHost => HostOf(ev) # {}
    /\ ~Inherits(m) =>
          /\ {t \in ev.tags : t[1] # "host"} = {t \in m.tags : t[1] # "host"}
          /\ HostOf(ev) = IF HostOf(m) # {} \/ m.metric \in NoHost THEN HostOf(m) ELSE {h}

\* The event the aggregator is about to store is the one its application sent:
\* error and statistics are those of its message and of no earlier event of the
\* forwarder or of the connection, although both reuse one Event, and an event that is
\* not in NoHost has a host.  Unless the message has version 1 and no op (TagsOwn), its
\* tags are its own too, and the host is the message's or else the forwarder's
\* (statse/decoder.go parse, forwarder/server.go in, aggregator/server.go loop).
EventIntact ==
    \A h \in Hosts : wire[h] # <<>> =>
        Carries(h, Decoded(decoded[h], Head(wire[h]).event), Head(wire[h]).msg)

\* What the tests of parse say: an event has the tags of its message and, but for the
\* host that the filter adds, no others (statse/v1.go parseV1).
TagsOwn ==
    \A h \in Hosts : wire[h] # <<>> =>
        {t \in Head(wire[h]).event.tags : t[1] # "host"} \subseteq Head(wire[h]).msg.tags

\* A cleanup takes events that no snapshot has reported only if the scheduler is
\* late, with a snapshot tick waiting, or SnapshotInterval exceeds the timeout, which
\* Config.Validate lets pass (aggregator/store.go cleanupJob.do, scheduler.go loop).
LostOnlyIfLate ==
    [][\A k \in DOMAIN store \ DOMAIN store' :
          store[k].fresh => "snapshot" \in ticks \/ interval > Timeout]_vars

\* What ListenAndServe says: the messages stored are summarised, so that cleanup takes
\* none that no snapshot has seen (aggregator/store.go cleanupJob.do, config.go
\* validateSnapshotInterval).
Summarised == [][\A k \in DOMAIN store \ DOMAIN store' : ~store[k].fresh]_vars

\* From one snapshot to the next the counts of a series that is in both grow, of a
\* cluster too, unless an entry of it has been removed between them
\* (aggregator/snapshot.go snapshotJob.do, store.go cleanupJob.do).
CountsMonotone ==
    [][reported' # reported =>
          \A k \in DOMAIN reported \cap DOMAIN reported' :
             \/ \E g \in gone : g = k \/ Cluster(g) = k
             \/ reported'[k].okay >= reported[k].okay /\ reported'[k].err >= reported[k].err]_vars

\* What the points p of a statistic say of the values v it had.
Describes(p, v) ==
    LET S == ToSet(v)
    IN  /\ p.len = Min({Len(v), MaxBufferLen})
        /\ {p.min, p.p95, p.p99, p.max} \subseteq S
        /\ p.min <= p.p95 /\ p.p95 <= p.p99 /\ p.p99 <= p.max
        /\ Len(v) <= MaxBufferLen =>
              /\ p.min = Min(S) /\ p.max = Max(S)
              /\ p.sum = FoldLeft(LAMBDA a, b : a + b, 0, v)
              /\ 100 * Len(SelectSeq(v, LAMBDA x : x <= p.p95)) >= 95 * Len(v)

\* A snapshot reports the values written since the one before and no others: of a
\* host all of them up to MaxBufferLen and a sample of them beyond, or zero if there
\* were none; of a cluster those of its hosts, or nothing if there were none.  The
\* last value a host wrote is always in its sample
\* (aggregator/snapshot.go snapshotJob.do and calc, store.go buffer.Append and Reset).
StatsExact ==
    [][spc = "select" /\ spc' = "sending" =>
        /\ \A k \in DOMAIN store : \A s \in DOMAIN reported'[k].stats :
              LET v == store[k].since[s]
                  p == reported'[k].stats[s]
              IN  IF v = <<>> THEN p = calc(<<0>>)
                  ELSE Describes(p, v) /\ p.min <= Last(v) /\ Last(v) <= p.max
        /\ \A c \in Clusters : \A s \in StatKeys :
              LET v == FoldLeft(LAMBDA a, k : a \o store[k].since[s], <<>>, SetToSeq(Of(c)))
              IN  IF v = <<>> THEN s \notin DOMAIN reported'[c].stats
                  ELSE Describes(reported'[c].stats[s], v)]_vars

-------------------------------------------------------------------------------
(* The inductive invariant behind TypeOK, EventIntact and LostOnlyIfLate.    *)

\* What an Event of host h can hold.
EventOf(h) ==
    [metric : Metrics \cup {Nil}, tags : SUBSET (Tags \cup {<<"host", h>>}), error : BOOLEAN,
     stats : {Statistics(m.stats) : m \in Messages} \cup {NoStats}]

\* An Event that is sent or under way is the one of its message, whatever the
\* forwarder's Event held before; the aggregator decodes into an empty one.
ForwardInv ==
    /\ fpc \in [Hosts -> {"read", "send"}] /\ conn \in [Hosts -> {"none", "up", "broken"}]
    /\ msg \in [Hosts -> Messages \cup {Nil}]
    /\ DOMAIN event = Hosts /\ DOMAIN wire = Hosts
    /\ decoded = [h \in Hosts |-> ZeroEvent]
    /\ \A h \in Hosts :
          /\ event[h] \in EventOf(h)
          /\ fpc[h] = "send" => Carries(h, event[h], msg[h])
          /\ wire[h] \in Seq([event : EventOf(h), msg : Messages])
          /\ \A i \in DOMAIN wire[h] : Carries(h, wire[h][i].event, wire[h][i].msg)

Buffers == [StatKeys -> Seq(Int) \cup {Nil}]
Entries == [mod : Nat, okay : Nat, err : Nat, buf : Buffers, since : [StatKeys -> Seq(Int)],
            fresh : BOOLEAN]

\* With no snapshot due, what is not yet reported came after the last tick.
StoreInv ==
    /\ clock \in Nat /\ interval \in Nat \ {0}
    /\ \A k \in DOMAIN store :
          /\ store[k] \in Entries
          /\ store[k].fresh /\ "snapshot" \notin ticks => clock - store[k].mod <= clock % interval

IInv == TypeOK /\ ForwardInv /\ StoreInv

\* What has been reported of a series is what its entry, or the entries of its
\* cluster, had counted by then, and unless one of them is gone they have counted on.
CountInv ==
    \A count \in {"okay", "err"} :
       /\ IsFiniteSet(UNION {{k} \X (1..store[k][count]) : k \in DOMAIN store})
       /\ \A k \in DOMAIN reported :
             /\ reported[k][count] \in Nat
             /\ \/ \E g \in gone : g = k \/ Cluster(g) = k
                \/ IF k.host = Nil THEN reported[k][count] <= Total(k, count)
                   ELSE k \in DOMAIN store /\ reported[k][count] <= store[k][count]

\* What a buffer has of the values v written since the last snapshot: all of them, or
\* as many as it can hold, the last one among them.
Samples(b, v) ==
    LET s == IF b = Nil THEN <<>> ELSE b
    IN  /\ Len(s) = IF Len(v) < MaxBufferLen THEN Len(v) ELSE MaxBufferLen
        /\ Len(v) <= MaxBufferLen => s = v
        /\ ToSet(s) \subseteq ToSet(v)
        /\ v # <<>> => Last(v) \in ToSet(s)

\* The store has of every host and statistic nothing but the values written since the
\* last snapshot, up to MaxBufferLen of them, and all of them up to there
\* (aggregator/store.go buffer.Append and Reset, snapshot.go snapshotJob.do).
Sampled == \A k \in DOMAIN store : \A s \in StatKeys : Samples(store[k].buf[s], store[k].since[s])

===============================================================================
