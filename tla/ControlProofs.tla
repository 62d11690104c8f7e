----------------------------- MODULE ControlProofs -----------------------------
(***************************************************************************)
(* A program runs with settings that are valid, and that one file and one  *)
(* payload give; it feeds no subscriber twice, and what a host is          *)
(* served is its own: proofs for every set of documents, files and         *)
(* programs.                                                               *)
(***************************************************************************)
EXTENDS Control, SeqLemmas, FiniteSetTheorems, TLAPS

\* What Validate accepts and completes is what TypeOK asks of a running program.
LEMMA AcceptedIsValid ==
    ASSUME NEW s, DOMAIN s = {"filter", "relay", "agg", "interval"},
           s = [filter |-> s.filter, relay |-> s.relay, agg |-> s.agg, interval |-> s.interval],
           Validate(s)
    PROVE  /\ validFilter(Validated(s).filter) /\ Validated(s).filter # Nil
           /\ node.program # "collect-statse" => validRelay(Validated(s).relay)
<1>1. CASE s.filter = Nil
  <2>1. Validated(s).filter = BlockAll /\ Validated(s).relay = s.relay
    BY <1>1 DEF Validated
  <2>2. Len(BlockAll) = 1 /\ DOMAIN BlockAll = {1}
        /\ BlockAll[1] = [match |-> Nil, set |-> Nil, block |-> TRUE]
    BY DEF BlockAll
  <2>3. validFilter(BlockAll)
    BY <2>2, ControlAssumption DEF validFilter, validRule
  <2> QED BY <2>1, <2>3, ControlAssumption DEF Validate
<1>2. CASE s.filter # Nil
  BY <1>2 DEF Validated, Validate
<1> QED BY <1>1, <1>2

\* Decoding over settings gives settings.
LEMMA OverShape ==
    ASSUME NEW s, NEW v
    PROVE  /\ DOMAIN Over(s, v) = {"filter", "relay", "agg", "interval"}
           /\ Over(s, v) = [filter |-> Over(s, v).filter, relay |-> Over(s, v).relay,
                            agg |-> Over(s, v).agg, interval |-> Over(s, v).interval]
BY DEF Over

LEMMA FileAloneShape ==
    ASSUME NEW f
    PROVE  LET s == FileAlone(f)
           IN  /\ DOMAIN s = {"filter", "relay", "agg", "interval"}
               /\ s = [filter |-> s.filter, relay |-> s.relay, agg |-> s.agg, interval |-> s.interval]
BY OverShape DEF FileAlone, Defaults

LEMMA InitInvariant == Init => IInv
BY DEF Init, IInv, TypeOK, NoTrace, StructInv

\* Operators and the controller do not touch the program.
LEMMA OperatorStep == ASSUME IInv, Operator PROVE IInv'
<1> USE DEF IInv, Operator, program, client
<1>1. UNCHANGED <<node, pc, lpc, cfg, buf, last, running>>
  OBVIOUS
<1>2. (ctl # Nil => Decode(ctl))'
  BY DEF TypeOK, Edit, Start, Stop
<1>3. TypeOK'
  BY <1>1, <1>2 DEF TypeOK
<1>4. NoTrace' /\ StructInv'
  BY <1>1 DEF NoTrace, StructInv
<1> QED BY <1>3, <1>4

LEMMA FetchStep == ASSUME IInv, Fetch PROVE IInv'
<1> USE DEF IInv, world
<1>1. UNCHANGED <<ctl, node, pc, lpc, cfg, last, running>> /\ node.controlled
  BY DEF Fetch
<1>2. buf' # Nil /\ buf' # last'
  BY DEF Fetch, Differs
<1>3. TypeOK'
  BY <1>1, <1>2 DEF TypeOK
<1>4. NoTrace' /\ StructInv'
  BY <1>1 DEF NoTrace, StructInv
<1> QED BY <1>3, <1>4

LEMMA ReadFileStep == ASSUME IInv, ReadFile PROVE IInv'
<1> USE DEF IInv, world, client
<1>1. UNCHANGED <<ctl, node, pc, buf, last, running>> /\ lpc' = "update" /\ node.controlled
  BY DEF ReadFile
<1>2. cfg' = [struct |-> FileAlone(file), file |-> file]
  BY DEF ReadFile, Reset, NewConfig, FileAlone
<1>3. TypeOK'
  BY <1>1 DEF TypeOK
<1>4. NoTrace'
  BY <1>1 DEF NoTrace
<1>5. StructInv'
  BY <1>1, <1>2 DEF StructInv
<1> QED BY <1>3, <1>4, <1>5

\* A payload that is taken makes the program run, restart, or stay as it is.
LEMMA UpdateStep == ASSUME IInv, Update PROVE IInv'
<1> DEFINE s == Over(cfg.struct, Settings(buf))
<1> USE DEF IInv, world
<1>1. /\ UNCHANGED <<ctl, node>> /\ lpc' = "file" /\ buf' = Nil
      /\ lpc = "update" /\ buf # Nil /\ pc \in {"load", "run"}
  BY DEF Update, TypeOK
<1>2. node.controlled /\ cfg.struct = FileAlone(cfg.file)
  BY <1>1 DEF StructInv
<1>3. StructInv'
  BY <1>1 DEF StructInv
<1>4. CASE UNCHANGED <<pc, running>> \/ (pc = "run" /\ pc' = "restart" /\ UNCHANGED running)
  <2>1. TypeOK'
    BY <1>1, <1>2, <1>4 DEF TypeOK
  <2>2. NoTrace'
    BY <1>1, <1>4 DEF NoTrace
  <2> QED BY <2>1, <2>2, <1>3
<1>5. CASE Validate(s) /\ pc = "load"
  <2>1. pc' = "run" /\ running' = <<[set |-> Validated(s), file |-> cfg.file, view |-> buf]>>
    BY <1>5 DEF Update
  <2>2. /\ validFilter(Validated(s).filter) /\ Validated(s).filter # Nil
        /\ node.program # "collect-statse" => validRelay(Validated(s).relay)
    BY <1>5, OverShape, AcceptedIsValid
  <2>3. running' # <<>> /\ running'[1].set = Validated(s)
        /\ running'[1].file = cfg.file /\ running'[1].view = buf
    BY <2>1
  <2> HIDE DEF s
  <2>4. TypeOK'
    BY <1>1, <1>2, <2>1, <2>2, <2>3 DEF TypeOK, validFilter, validRelay
  <2>5. NoTrace'
    BY <1>1, <1>2, <2>3 DEF NoTrace, s
  <2> QED BY <2>4, <2>5, <1>3
<1>6. ~Validate(s) \/ (Validate(s) /\ pc = "run") \/ (Validate(s) /\ pc = "load")
  BY <1>1
<1> QED BY <1>4, <1>5, <1>6 DEF Update

LEMMA LoadFileStep == ASSUME IInv, LoadFile PROVE IInv'
<1> USE DEF IInv, world, client
<1>1. /\ UNCHANGED <<ctl, node, lpc, cfg, buf, last>> /\ ~node.controlled
      /\ pc = "load" /\ pc' = "run" /\ Validate(FileAlone(file))
      /\ running' = <<[set |-> Validated(FileAlone(file)), file |-> file, view |-> Nil]>>
  BY DEF LoadFile, FileAlone
<1>2. /\ validFilter(Validated(FileAlone(file)).filter) /\ Validated(FileAlone(file)).filter # Nil
      /\ node.program # "collect-statse" => validRelay(Validated(FileAlone(file)).relay)
  BY <1>1, FileAloneShape, AcceptedIsValid
<1>3. running' # <<>> /\ running'[1].set = Validated(FileAlone(file)) /\ running'[1].file = file
  BY <1>1
<1>4. TypeOK'
  BY <1>1, <1>2, <1>3 DEF TypeOK, validFilter, validRelay
<1>5. NoTrace'
  BY <1>1, <1>3 DEF NoTrace
<1>6. StructInv'
  BY <1>1 DEF StructInv
<1> QED BY <1>4, <1>5, <1>6

LEMMA SignalStep == ASSUME IInv, Signal PROVE IInv'
BY DEF IInv, Signal, world, client, TypeOK, NoTrace, StructInv

LEMMA HangStep == ASSUME IInv, Hang PROVE IInv'
BY DEF IInv, Hang, world, client, TypeOK, NoTrace, StructInv

LEMMA RestartStep == ASSUME IInv, Restart PROVE IInv'
BY DEF IInv, Restart, world, TypeOK, NoTrace, StructInv

LEMMA StutterStep == ASSUME IInv, UNCHANGED vars PROVE IInv'
BY DEF IInv, vars, world, client, TypeOK, NoTrace, StructInv

\* The inductive invariant of the load loop: what TypeOK and NoTrace say, and what
\* the struct holds while a payload is awaited (internal/config/load.go load).
THEOREM InductiveInvariant == Spec => []IInv
<1>1. ASSUME IInv, [Next]_vars PROVE IInv'
  BY <1>1, OperatorStep, SignalStep, FetchStep, ReadFileStep, UpdateStep, LoadFileStep,
     HangStep, RestartStep, StutterStep DEF Next, Load
<1> QED BY <1>1, InitInvariant, PTL DEF Spec

\* TypeOK: a process that runs has passed Config.Validate, and the client never
\* holds the payload it delivered last.
THEOREM TypeCorrect == Spec => []TypeOK
<1>1. IInv => TypeOK
  BY DEF IInv
<1> QED BY <1>1, InductiveInvariant, PTL

\* NoTrace: the settings of a running program depend on one file and one payload,
\* whatever was read, delivered and rejected before.
THEOREM SettingsUntainted == Spec => []NoTrace
<1>1. IInv => NoTrace
  BY DEF IInv
<1> QED BY <1>1, InductiveInvariant, PTL

-------------------------------------------------------------------------------
(* Routes.                                                                   *)

\* The relay of an id is that of a subscriber that has it.
LEMMA FeedMeans ==
    ASSUME NEW d \in Documents, NEW who \in SUBSET DOMAIN d.net.subs, NEW conns,
           NEW id \in {d.net.subs[i].id : i \in who}
    PROVE  \E i \in who : /\ d.net.subs[i].id = id
                          /\ Feed(d, who, conns)[id].host = d.net.subs[i].host
<1> DEFINE subs == d.net.subs
           at == {i \in who : subs[i].id = id}
<1>1. at # {}
  OBVIOUS
<1>2. DOMAIN subs = 1..Len(subs) /\ Len(subs) \in Nat
  BY ControlAssumption DEF Shaped
<1>3. at \subseteq 1..Len(subs)
  BY <1>2
<1>4. PICK S : S = at
  OBVIOUS
<1>5. Max(S) \in S
  BY <1>1, <1>2, <1>3, <1>4, GreatestOf
<1>6. Max(at) \in who /\ subs[Max(at)].id = id
  BY <1>4, <1>5
<1>7. Feed(d, who, conns)[id].host = subs[Max(at)].host
  BY DEF Feed
<1> QED BY <1>6, <1>7

LEMMA InitServed == Init => ServedInv
BY DEF Init, ServedInv

\* A process runs with a payload it was served.
LEMMA ServedStep == ASSUME ServedInv, TypeOK, [Next]_vars PROVE ServedInv'
<1> USE DEF ServedInv
<1>1. CASE Operator
  BY <1>1 DEF Operator, program, client, Edit, Start, Stop
<1>2. CASE Signal
  BY <1>2 DEF Signal, world, client
<1>3. CASE Fetch
  BY <1>3 DEF Fetch, world
<1>4. CASE ReadFile
  BY <1>4 DEF ReadFile, world, client
<1>5. CASE Update
  <2>1. UNCHANGED <<node, doc, output, ctl>> /\ buf # Nil
    BY <1>5 DEF Update, world
  <2>2. CASE pc = "load" /\ Validate(Over(cfg.struct, Settings(buf)))
    <3>1. running' = <<[set |-> Validated(Over(cfg.struct, Settings(buf))),
                        file |-> cfg.file, view |-> buf]>>
      BY <1>5, <2>2 DEF Update
    <3>2. running'[1].view = buf
      BY <3>1
    <3> QED BY <2>1, <3>2
  <2>3. CASE ~(pc = "load" /\ Validate(Over(cfg.struct, Settings(buf))))
    <3>1. running' = running
      BY <1>5, <2>3 DEF Update, TypeOK
    <3> QED BY <2>1, <3>1
  <2> QED BY <2>2, <2>3
<1>6. CASE LoadFile
  BY <1>6 DEF LoadFile, world, client
<1>7. CASE Hang
  BY <1>7 DEF Hang, world, client
<1>8. CASE Restart
  BY <1>8 DEF Restart, world
<1>9. CASE UNCHANGED vars
  BY <1>9 DEF vars, world, client
<1> QED BY <1>1, <1>2, <1>3, <1>4, <1>5, <1>6, <1>7, <1>8, <1>9 DEF Next, Load

\* What a forwarder or a poller is served.
LEMMA ServedView ==
    ASSUME ServedInv, ctl # Nil, Served # Nil,
           node.program \in {"tsp-forwarder", "tsp-poller"}
    PROVE  /\ Served = [filter |-> Served.filter, relay |-> Served.relay]
           /\ \E conns : Served.relay = relay(ctl, conns)
           /\ \E n : Served.filter = [i \in 1..n |-> Served.filter[i]]
           /\ Served.filter # Nil /\ Served.relay # Nil
<1>1. /\ ctl \in Documents /\ output \in Outputs /\ node \in Nodes
      /\ Served = View(ctl, output, node.program, node.host)
  BY DEF ServedInv, Served
<1>2. Served.filter # Nil /\ Served.relay # Nil
  BY <1>1, ControlAssumption
<1> DEFINE h == Host(ctl, node.host)
<1>3. h # Nil /\ output # Nil
  BY <1>1 DEF View
<1>4. output \in Seq(ToSet(output))
  BY <1>1, <1>3, ControlAssumption
<1>5. PICK R : /\ output \in Seq(R) /\ AddTag("host", h.id) \in R
               /\ AddTag("cluster", ClusterID(h)) \in R
  <2> DEFINE Q == ToSet(output) \cup {AddTag("host", h.id), AddTag("cluster", ClusterID(h))}
  <2>1. ToSet(output) \subseteq Q /\ AddTag("host", h.id) \in Q /\ AddTag("cluster", ClusterID(h)) \in Q
    OBVIOUS
  <2> HIDE DEF Q, h
  <2>2. output \in Seq(Q)
    BY <1>4, <2>1, SeqMonotonic
  <2> QED BY <2>1, <2>2
<1> HIDE DEF h
<1>6. newView(h, output) \in Seq(R)
  BY <1>5 DEF newView
<1>7. ClusterRule(h) \in Seq(R)
  BY <1>5 DEF ClusterRule
<1>8. newView(h, output) \o ClusterRule(h) \in Seq(R)
  BY <1>6, <1>7
<1>9. CASE node.program = "tsp-forwarder"
  <2>1. Served = [filter |-> newView(h, output) \o ClusterRule(h), relay |-> relay(ctl, Nil)]
    BY <1>1, <1>3, <1>9 DEF View, forwarderView, h
  <2>2. Served.filter \in Seq(R) /\ Served.relay = relay(ctl, Nil)
    BY <1>8, <2>1
  <2>3. Served.filter = [i \in 1..Len(Served.filter) |-> Served.filter[i]]
    BY <2>2
  <2> QED BY <1>2, <2>1, <2>2, <2>3
<1>10. CASE node.program = "tsp-poller"
  <2>1. Served = [filter |-> newView(h, output), relay |-> relay(ctl, 12)]
    BY <1>1, <1>3, <1>10 DEF View, pollerView, h
  <2>2. Served.filter \in Seq(R) /\ Served.relay = relay(ctl, 12)
    BY <1>6, <2>1
  <2>3. Served.filter = [i \in 1..Len(Served.filter) |-> Served.filter[i]]
    BY <2>2
  <2> QED BY <1>2, <2>1, <2>2, <2>3
<1> QED BY <1>9, <1>10

\* What the program then runs with: the relays served, and the rules served unless
\* the file has some.
LEMMA Laid ==
    ASSUME NoTrace, ServedInv, running # <<>>, node.controlled, ctl # Nil,
           running[1].view = Served, node.program \in {"tsp-forwarder", "tsp-poller"}
    PROVE  /\ ServedRelays = [n \in DOMAIN Served.relay |-> Served.relay[n]]
           /\ running[1].file = Nil \/ running[1].file.filter = Nil =>
                 running[1].set.filter = running[1].view.filter
<1> DEFINE f == running[1].file
           v == Served
           s == Over(FileAlone(f), Settings(v))
<1>1. /\ v = [filter |-> v.filter, relay |-> v.relay] /\ v.filter # Nil /\ v.relay # Nil
      /\ (\E conns : v.relay = relay(ctl, conns))
      /\ \E n : v.filter = [i \in 1..n |-> v.filter[i]]
  BY ServedView DEF ServedInv
<1> HIDE DEF v
<1>2. Settings(v).filter = v.filter /\ Settings(v).relay = v.relay
  BY <1>1 DEF Settings, Defaults, Override
<1>3. s.filter = MergeRules(FileAlone(f).filter, v.filter)
  BY <1>1, <1>2 DEF Over
<1>4. s.relay = IF FileAlone(f).relay = Nil THEN v.relay ELSE Override(v.relay, FileAlone(f).relay)
  BY <1>1, <1>2 DEF Over
<1>5. /\ FileAlone(f).filter = IF f = Nil \/ f.filter = Nil THEN Nil ELSE MergeRules(Nil, f.filter)
      /\ FileAlone(f).relay = IF f = Nil \/ f.relay = Nil THEN Nil ELSE f.relay
  BY DEF FileAlone, Over, Defaults
<1>6. running[1].set = Validated(s)
  BY DEF NoTrace, v
<1>7. DOMAIN s = {"filter", "relay", "agg", "interval"}
  BY DEF Over
<1>8. running[1].set.relay = s.relay
  BY <1>6, <1>7 DEF Validated
<1>9. ServedRelays = [n \in DOMAIN v.relay |-> v.relay[n]]
  <2> DEFINE local == IF f = Nil \/ f.relay = Nil THEN {} ELSE DOMAIN f.relay \ DOMAIN v.relay
  <2>1. ServedRelays = [n \in DOMAIN s.relay \ local |-> s.relay[n]]
    BY <1>8 DEF ServedRelays, v
  <2>2. CASE f = Nil \/ f.relay = Nil
    BY <1>4, <1>5, <2>1, <2>2
  <2>3. CASE ~(f = Nil \/ f.relay = Nil)
    <3>1. s.relay = Override(v.relay, f.relay) \/ s.relay = v.relay
      BY <1>4, <1>5, <2>3
    <3>2. DOMAIN Override(v.relay, f.relay) = DOMAIN v.relay \cup DOMAIN f.relay
          /\ \A n \in DOMAIN v.relay : Override(v.relay, f.relay)[n] = v.relay[n]
      BY DEF Override
    <3>3. DOMAIN s.relay \ local = DOMAIN v.relay /\ \A n \in DOMAIN v.relay : s.relay[n] = v.relay[n]
      BY <2>3, <3>1, <3>2
    <3> HIDE DEF s, local
    <3> QED BY <2>1, <3>3
  <2> QED BY <2>2, <2>3
<1>10. ASSUME f = Nil \/ f.filter = Nil PROVE running[1].set.filter = v.filter
  <2>1. s.filter = MergeRules(Nil, v.filter)
    BY <1>3, <1>5, <1>10
  <2>2. MergeRules(Nil, v.filter) = [i \in DOMAIN v.filter |-> v.filter[i]]
    BY DEF MergeRules
  <2>3. s.filter = v.filter
    BY <1>1, <2>1, <2>2
  <2> HIDE DEF s
  <2>4. Validated(s) = s
    BY <1>1, <2>3 DEF Validated
  <2> QED BY <1>6, <2>3, <2>4
<1> QED BY <1>9, <1>10 DEF v

\* The relays of a view: whom they lead to, and that they lead to a direct subscriber
\* of an id of its own and to the aggregator.
LEMMA RelayMeans ==
    ASSUME NEW d \in Documents, NEW conns
    PROVE  LET r    == relay(d, conns)
               subs == ToSet(d.net.subs)
           IN  /\ \A n \in DOMAIN r :
                     \/ n = "aggregator" /\ d.net.agg # Nil /\ r[n].host = d.net.agg
                     \/ /\ \E s \in subs : s.direct /\ s.id = n /\ r[n].host = s.host
                        /\ ~(n = "aggregator" /\ d.net.agg # Nil)
               /\ \A s \in subs : s.direct => s.id \in DOMAIN r
               /\ d.net.agg # Nil => "aggregator" \in DOMAIN r
<1> DEFINE subs == d.net.subs
           f == Feed(d, Direct(d), conns)
           r == relay(d, conns)
<1>1. subs \in Seq(ToSet(subs)) /\ Direct(d) \in SUBSET DOMAIN subs
  BY ControlAssumption DEF Direct, Shaped
<1>2. DOMAIN f = {subs[i].id : i \in Direct(d)}
  BY DEF Feed
<1>3. \A id \in DOMAIN f : \E i \in Direct(d) : subs[i].id = id /\ f[id].host = subs[i].host
  BY <1>1, <1>2, FeedMeans
<1>4. \A i \in Direct(d) : subs[i] \in ToSet(subs) /\ subs[i].direct
  BY <1>1 DEF Direct, ToSet
<1> HIDE DEF f
<1>5. \A id \in DOMAIN f : \E s \in ToSet(subs) : s.direct /\ s.id = id /\ f[id].host = s.host
  BY <1>3, <1>4
<1>6. \A s \in ToSet(subs) : s.direct => s.id \in DOMAIN f
  <2> SUFFICES ASSUME NEW s \in ToSet(subs), s.direct PROVE s.id \in DOMAIN f
    OBVIOUS
  <2>1. PICK i \in DOMAIN subs : subs[i] = s
    BY DEF ToSet
  <2>2. i \in Direct(d)
    BY <2>1 DEF Direct
  <2> QED BY <1>2, <2>1, <2>2
<1>7. CASE d.net.agg = Nil
  <2>1. r = f
    BY <1>7 DEF relay, f
  <2> QED BY <1>5, <1>6, <1>7, <2>1
<1>8. CASE d.net.agg # Nil
  <2>1. r = [k \in {"aggregator"} \cup DOMAIN f |->
               IF k = "aggregator" THEN [host |-> d.net.agg, dedup |-> FALSE, conns |-> Nil] ELSE f[k]]
    BY <1>8 DEF relay, f, Override
  <2>2. DOMAIN r = {"aggregator"} \cup DOMAIN f /\ r["aggregator"].host = d.net.agg
    BY <2>1
  <2>3. \A k \in DOMAIN f : k # "aggregator" => r[k] = f[k]
    BY <2>1
  <2> HIDE DEF r
  <2> QED BY <1>5, <1>6, <1>8, <2>2, <2>3 DEF r
<1> QED BY <1>7, <1>8

\* The relays of the aggregator.
LEMMA AggregatorMeans ==
    ASSUME NEW d \in Documents, d.net.agg # Nil, Host(d, d.net.agg) # Nil
    PROVE  LET r    == View(d, <<>>, "tsp-aggregator", d.net.agg).relay
               subs == ToSet(d.net.subs)
           IN  /\ \A n \in DOMAIN r : \E s \in subs : ~s.direct /\ s.id = n /\ r[n].host = s.host
               /\ \A s \in subs : ~s.direct => s.id \in DOMAIN r
<1> DEFINE subs == d.net.subs
           f == Feed(d, Indirect(d), Nil)
<1>1. subs \in Seq(ToSet(subs)) /\ Indirect(d) \in SUBSET DOMAIN subs
  BY ControlAssumption DEF Indirect, Shaped
<1>2. DOMAIN f = {subs[i].id : i \in Indirect(d)}
  BY DEF Feed
<1>3. \A id \in DOMAIN f : \E i \in Indirect(d) : subs[i].id = id /\ f[id].host = subs[i].host
  BY <1>1, <1>2, FeedMeans
<1>4. \A i \in Indirect(d) : subs[i] \in ToSet(subs) /\ ~subs[i].direct
  BY <1>1 DEF Indirect, ToSet
<1> HIDE DEF f
<1>5. \A s \in ToSet(subs) : ~s.direct => s.id \in DOMAIN f
  <2> SUFFICES ASSUME NEW s \in ToSet(subs), ~s.direct PROVE s.id \in DOMAIN f
    OBVIOUS
  <2>1. PICK i \in DOMAIN subs : subs[i] = s
    BY DEF ToSet
  <2>2. i \in Indirect(d)
    BY <2>1 DEF Indirect
  <2> QED BY <1>2, <2>1, <2>2
<1>6. View(d, <<>>, "tsp-aggregator", d.net.agg) = aggregatorView(d, Host(d, d.net.agg), <<>>)
  BY ControlAssumption DEF View, isAggregator
<1>7. View(d, <<>>, "tsp-aggregator", d.net.agg).relay = f
  BY <1>6 DEF aggregatorView, f
<1> QED BY <1>3, <1>4, <1>5, <1>7

\* The ways to a subscriber that has its host and its id to itself.
LEMMA OneWay ==
    ASSUME ctl \in Documents, NEW conns, NEW s \in ToSet(ctl.net.subs), Alone(s),
           ServedRelays = [n \in DOMAIN relay(ctl, conns) |-> relay(ctl, conns)[n]]
    PROVE  Cardinality(Paths(s)) <= 1 /\ (Paths(s) # {} \/ Unroutable(s))
<1> DEFINE d == ctl
           r == relay(d, conns)
           subs == ToSet(d.net.subs)
           v == View(d, <<>>, "tsp-aggregator", d.net.agg)
           to(m, host) == {n \in DOMAIN m : m[n].host = host}
           through == d.net.agg # Nil /\ to(r, d.net.agg) # {} /\ Host(d, d.net.agg) # Nil
<1>0. \A S : S = {} \/ (\E x : S = {x}) => Cardinality(S) <= 1
  <2>1. Cardinality({}) = 0
    BY FS_EmptySet
  <2> SUFFICES ASSUME NEW S, S = {} \/ \E x : S = {x} PROVE Cardinality(S) <= 1
    OBVIOUS
  <2>2. CASE S = {}
    BY <2>1, <2>2
  <2>3. CASE \E x : S = {x}
    <3>1. PICK x : S = {x}
      BY <2>3
    <3>2. Cardinality({x}) = 1
      BY FS_Singleton
    <3>3. Cardinality(S) = 1
      BY <3>1, <3>2
    <3> QED BY <3>3
  <2> QED BY <2>2, <2>3
<1>1. /\ \A t \in subs : t.direct \in BOOLEAN
      /\ \A t \in subs : t # s => t.host # s.host
      /\ \A t \in subs : t # s => (t.direct = s.direct => t.id # s.id)
      /\ s.host # d.net.agg
  BY ControlAssumption DEF Alone, Shaped
<1>2. /\ \A n \in DOMAIN r :
            \/ n = "aggregator" /\ d.net.agg # Nil /\ r[n].host = d.net.agg
            \/ /\ \E t \in subs : t.direct /\ t.id = n /\ r[n].host = t.host
               /\ ~(n = "aggregator" /\ d.net.agg # Nil)
      /\ \A t \in subs : t.direct => t.id \in DOMAIN r
      /\ d.net.agg # Nil => "aggregator" \in DOMAIN r
  BY RelayMeans
<1>3. ASSUME through
      PROVE  /\ \A n \in DOMAIN v.relay : \E t \in subs : ~t.direct /\ t.id = n /\ v.relay[n].host = t.host
             /\ \A t \in subs : ~t.direct => t.id \in DOMAIN v.relay
  BY <1>3, AggregatorMeans
<1>4. Paths(s) = to(r, s.host) \cup
        (IF through THEN {<<"aggregator", n>> : n \in to(v.relay, s.host)} ELSE {})
  <2>1. DOMAIN ServedRelays = DOMAIN r /\ \A n \in DOMAIN r : ServedRelays[n] = r[n]
    OBVIOUS
  <2>2. to(ServedRelays, s.host) = to(r, s.host) /\ to(ServedRelays, d.net.agg) = to(r, d.net.agg)
    BY <2>1
  <2> HIDE DEF r, v
  <2> QED BY <2>2 DEF Paths, v
<1> HIDE DEF r, v
<1>5. to(r, s.host) = IF s.direct /\ ~Unroutable(s) THEN {s.id} ELSE {}
  <2>1. ASSUME NEW n \in to(r, s.host)
        PROVE  s.direct /\ n = s.id /\ ~(n = "aggregator" /\ d.net.agg # Nil)
    <3>1. n \in DOMAIN r /\ r[n].host = s.host
      OBVIOUS
    <3>2. PICK t \in subs : t.direct /\ t.id = n /\ r[n].host = t.host
      BY <1>1, <1>2, <3>1
    <3>3. t = s
      BY <1>1, <3>1, <3>2
    <3> QED BY <1>1, <1>2, <3>1, <3>2, <3>3
  <2>2. ASSUME s.direct, ~(s.id = "aggregator" /\ d.net.agg # Nil)
        PROVE  s.id \in to(r, s.host)
    <3>1. s.id \in DOMAIN r
      BY <1>2, <2>2
    <3>2. PICK t \in subs : t.direct /\ t.id = s.id /\ r[s.id].host = t.host
      BY <1>2, <2>2, <3>1
    <3>3. t = s
      BY <1>1, <2>2, <3>2
    <3> QED BY <3>1, <3>2, <3>3
  <2> QED BY <2>1, <2>2 DEF Unroutable
<1>6. ASSUME through PROVE to(v.relay, s.host) = IF s.direct THEN {} ELSE {s.id}
  <2>1. ASSUME NEW n \in to(v.relay, s.host) PROVE ~s.direct /\ n = s.id
    <3>1. PICK t \in subs : ~t.direct /\ t.id = n /\ v.relay[n].host = t.host
      BY <1>3, <1>6, <2>1
    <3> QED BY <1>1, <3>1
  <2>2. ASSUME ~s.direct PROVE s.id \in to(v.relay, s.host)
    <3>1. s.id \in DOMAIN v.relay
      BY <1>3, <1>6, <2>2
    <3>2. PICK t \in subs : ~t.direct /\ t.id = s.id /\ v.relay[s.id].host = t.host
      BY <1>3, <1>6, <3>1
    <3>3. t = s
      BY <1>1, <2>2, <3>2
    <3> QED BY <3>1, <3>2, <3>3
  <2> QED BY <2>1, <2>2
<1>7. d.net.agg # Nil => to(r, d.net.agg) # {}
  <2> SUFFICES ASSUME d.net.agg # Nil PROVE "aggregator" \in to(r, d.net.agg)
    OBVIOUS
  <2> QED BY <1>2
<1>8. CASE s.direct
  <2>1. Paths(s) = IF Unroutable(s) THEN {} ELSE {s.id}
    BY <1>4, <1>5, <1>6, <1>8
  <2> QED BY <1>0, <2>1
<1>9. CASE ~s.direct
  <2>1. Unroutable(s) <=> ~through
    BY <1>7, <1>9 DEF Unroutable
  <2>2. Paths(s) = IF through THEN {<<"aggregator", n>> : n \in to(v.relay, s.host)} ELSE {}
    BY <1>4, <1>5, <1>9
  <2>3. Paths(s) = IF through THEN {<<"aggregator", s.id>>} ELSE {}
    <3>1. CASE through
      <4>1. to(v.relay, s.host) = {s.id}
        BY <1>6, <1>9, <3>1
      <4>2. PICK T : T = to(v.relay, s.host)
        OBVIOUS
      <4>3. {<<"aggregator", n>> : n \in T} = {<<"aggregator", s.id>>}
        BY <4>1, <4>2
      <4> QED BY <2>2, <3>1, <4>2, <4>3
    <3>2. CASE ~through
      BY <2>2, <3>2
    <3> QED BY <3>1, <3>2
  <2> QED BY <1>0, <2>1, <2>3
<1> QED BY <1>1, <1>8, <1>9

\* Routed: a forwarder or poller that runs with what the controller serves feeds no
\* subscriber that has its id and host to itself by two ways, itself and through the
\* aggregator, and feeds each by one unless it is Unroutable, and nobody the network
\* file does not name; two views, the one of the program and the one of the aggregator,
\* and the local file make the ways (internal/config/load.go load,
\* control/tsp-forwarder/control.go).
THEOREM Routes == Spec => []Routed
<1>1. NoTrace /\ TypeOK /\ ServedInv => Routed
  <2> SUFFICES ASSUME NoTrace, TypeOK, ServedInv, pc = "run", ctl # Nil, node.controlled,
                      node.program \in {"tsp-forwarder", "tsp-poller"},
                      running[1].view = Served
               PROVE  /\ \A s \in ToSet(ctl.net.subs) : Alone(s) =>
                            Cardinality(Paths(s)) <= 1 /\ (Paths(s) # {} \/ Unroutable(s))
                      /\ \A n \in DOMAIN ServedRelays :
                            ServedRelays[n].host \in {s.host : s \in ToSet(ctl.net.subs)}
                                                       \cup {ctl.net.agg}
                      /\ running[1].file = Nil \/ running[1].file.filter = Nil =>
                            running[1].set.filter = running[1].view.filter
    BY DEF Routed, UpToDate
  <2>1. running # <<>> /\ Served # Nil /\ ctl \in Documents
    BY DEF TypeOK, ServedInv
  <2>2. PICK conns : Served.relay = relay(ctl, conns)
    BY <2>1, ServedView
  <2>3. ServedRelays = [n \in DOMAIN relay(ctl, conns) |-> relay(ctl, conns)[n]]
    BY <2>1, <2>2, Laid
  <2>4. \A s \in ToSet(ctl.net.subs) : Alone(s) =>
           Cardinality(Paths(s)) <= 1 /\ (Paths(s) # {} \/ Unroutable(s))
    BY <2>1, <2>3, OneWay
  <2>5. ASSUME NEW n \in DOMAIN ServedRelays
        PROVE  ServedRelays[n].host \in {s.host : s \in ToSet(ctl.net.subs)} \cup {ctl.net.agg}
    <3>1. n \in DOMAIN relay(ctl, conns) /\ ServedRelays[n] = relay(ctl, conns)[n]
      BY <2>3
    <3>2. \/ relay(ctl, conns)[n].host = ctl.net.agg
          \/ \E s \in ToSet(ctl.net.subs) : relay(ctl, conns)[n].host = s.host
      BY <2>1, <3>1, RelayMeans
    <3> QED BY <3>1, <3>2
  <2>6. running[1].file = Nil \/ running[1].file.filter = Nil =>
           running[1].set.filter = running[1].view.filter
    BY <2>1, Laid
  <2> QED BY <2>4, <2>5, <2>6
<1>2. IInv => NoTrace /\ TypeOK
  BY DEF IInv
<1> QED BY <1>1, <1>2, InitServed, ServedStep, InductiveInvariant, PTL DEF Spec

-------------------------------------------------------------------------------
(* What a host is served is its own.                                         *)

\* The queries of the first n groups that match, by group and place.
Matching(d, ids, n) ==
    UNION {{i} \X DOMAIN d.groups[i].queries : i \in {j \in 1..n : Match(d.groups[j], ids)}}
QueryAt(d, t) == d.groups[t[1]].queries[t[2]]

\* s lists the queries at the places P, each of them once.
Lists(d, s, P) ==
    \E f : /\ f \in [1..Len(s) -> P]
           /\ \A t \in P : \E k \in 1..Len(s) : f[k] = t
           /\ \A j, k \in 1..Len(s) : f[j] = f[k] => j = k
           /\ \A k \in 1..Len(s) : s[k] = QueryAt(d, f[k])

LEMMA ListsMore ==
    ASSUME NEW d, NEW S, NEW s \in Seq(S), NEW t \in Seq(S), NEW P, Lists(d, s, P), NEW n,
           t = d.groups[n].queries, \A x \in P : x[1] # n
    PROVE  Lists(d, s \o t, P \cup ({n} \X DOMAIN t))
<1>1. PICK f : /\ f \in [1..Len(s) -> P]
               /\ \A x \in P : \E k \in 1..Len(s) : f[k] = x
               /\ \A j, k \in 1..Len(s) : f[j] = f[k] => j = k
               /\ \A k \in 1..Len(s) : s[k] = QueryAt(d, f[k])
  BY DEF Lists
<1>2. /\ Len(s) \in Nat /\ Len(t) \in Nat /\ DOMAIN t = 1..Len(t)
      /\ Len(s \o t) = Len(s) + Len(t)
      /\ \A k \in 1..Len(s \o t) : (s \o t)[k] = IF k <= Len(s) THEN s[k] ELSE t[k - Len(s)]
  BY ConcatProperties, LenProperties
<1> DEFINE a == Len(s)
           b == Len(t)
           g == [k \in 1..(a + b) |-> IF k <= a THEN f[k] ELSE <<n, k - a>>]
           Q == P \cup ({n} \X DOMAIN t)
<1> HIDE DEF a, b
<1>3. a \in Nat /\ b \in Nat
  BY <1>2 DEF a, b
<1>4. \A k \in 1..(a + b) : IF k <= a THEN k \in 1..a /\ g[k] = f[k] /\ f[k] \in P
                            ELSE k - a \in 1..b /\ g[k] = <<n, k - a>>
  BY <1>1, <1>3 DEF a
<1>5. g \in [1..(a + b) -> Q]
  <2>1. ASSUME NEW k \in 1..(a + b) PROVE g[k] \in Q
    <3>1. CASE k <= a
      BY <1>4, <3>1
    <3>2. CASE ~(k <= a)
      <4>1. k - a \in DOMAIN t /\ g[k] = <<n, k - a>>
        BY <1>2, <1>4, <3>2 DEF b
      <4> QED BY <4>1
    <3> QED BY <3>1, <3>2
  <2> QED BY <2>1
<1>6. ASSUME NEW x \in Q PROVE \E k \in 1..(a + b) : g[k] = x
  <2>1. CASE x \in P
    <3>1. PICK k \in 1..a : f[k] = x
      BY <1>1, <2>1 DEF a
    <3>2. k \in 1..(a + b) /\ k <= a
      BY <1>3
    <3> QED BY <1>4, <3>1, <3>2
  <2>2. CASE x \in {n} \X DOMAIN t
    <3>1. PICK i \in 1..b : x = <<n, i>>
      BY <1>2, <2>2 DEF b
    <3>2. i + a \in 1..(a + b) /\ ~(i + a <= a) /\ (i + a) - a = i
      BY <1>3
    <3> QED BY <1>4, <3>1, <3>2
  <2> QED BY <2>1, <2>2
<1>7. ASSUME NEW j \in 1..(a + b), NEW k \in 1..(a + b), g[j] = g[k] PROVE j = k
  <2>1. CASE j <= a /\ k <= a
    BY <1>1, <1>4, <1>7, <2>1 DEF a
  <2>2. CASE ~(j <= a) /\ ~(k <= a)
    <3>1. j - a = k - a
      BY <1>4, <1>7, <2>2
    <3> QED BY <1>3, <3>1
  <2>3. CASE j <= a /\ ~(k <= a)
    <3>1. g[j] \in P /\ g[k] = <<n, k - a>>
      BY <1>4, <2>3
    <3> QED BY <1>7, <3>1
  <2>4. CASE ~(j <= a) /\ k <= a
    <3>1. g[k] \in P /\ g[j] = <<n, j - a>>
      BY <1>4, <2>4
    <3> QED BY <1>7, <3>1
  <2> QED BY <2>1, <2>2, <2>3, <2>4
<1>8. ASSUME NEW k \in 1..(a + b) PROVE (s \o t)[k] = QueryAt(d, g[k])
  <2>1. CASE k <= a
    <3>1. k \in 1..Len(s \o t) /\ k <= Len(s)
      BY <1>2, <2>1 DEF a, b
    <3>2. (s \o t)[k] = s[k]
      BY <1>2, <3>1
    <3> QED BY <1>1, <1>4, <2>1, <3>2 DEF a
  <2>2. CASE ~(k <= a)
    <3>1. k \in 1..Len(s \o t) /\ ~(k <= Len(s))
      BY <1>2, <2>2 DEF a, b
    <3>2. (s \o t)[k] = t[k - a]
      BY <1>2, <3>1 DEF a
    <3>3. g[k] = <<n, k - a>>
      BY <1>4, <2>2
    <3> QED BY <3>2, <3>3 DEF QueryAt
  <2> QED BY <2>1, <2>2
<1>9. Len(s \o t) = a + b
  BY <1>2 DEF a, b
<1> HIDE DEF g, Q
<1>10. Lists(d, s \o t, Q)
  <2> DEFINE r == s \o t
  <2>1. 1..Len(r) = 1..(a + b)
    BY <1>9
  <2> HIDE DEF r
  <2>2. g \in [1..Len(r) -> Q]
    BY <1>5, <2>1
  <2>3. \A x \in Q : \E k \in 1..Len(r) : g[k] = x
    BY <1>6, <2>1
  <2>4. \A j, k \in 1..Len(r) : g[j] = g[k] => j = k
    BY <1>7, <2>1
  <2>5. \A k \in 1..Len(r) : r[k] = QueryAt(d, g[k])
    BY <1>8, <2>1 DEF r
  <2>6. Lists(d, r, Q)
    BY <2>2, <2>3, <2>4, <2>5, Zenon DEF Lists
  <2> QED BY <2>6 DEF r
<1> QED BY <1>10 DEF Q

\* Queries lists the queries of the groups that match.
LEMMA QueriesMeans ==
    ASSUME NEW d \in Documents, NEW ids
    PROVE  /\ \E S : Queries(d, ids) \in Seq(S)
           /\ Lists(d, Queries(d, ids), Matching(d, ids, Len(d.groups)))
<1> DEFINE groups == d.groups
           N == Len(groups)
           S == UNION {ToSet(groups[i].queries) : i \in 1..N}
           More(s, n) == IF Match(groups[n], ids) THEN s \o groups[n].queries ELSE s
           step == [x \in Seq(S) \X (1..N) |-> More(x[1], x[2])]
           Is(f) == f = [n \in 0..N |-> IF n = 0 THEN <<>>
                                        ELSE IF Match(groups[n], ids) THEN f[n - 1] \o groups[n].queries
                                        ELSE f[n - 1]]
<1>1. N \in Nat /\ DOMAIN groups = 1..N /\ \A n \in 1..N : groups[n].queries \in Seq(S)
  <2>1. groups \in Seq(ToSet(groups)) /\ \A g \in ToSet(groups) : g.queries \in Seq(ToSet(g.queries))
    BY ControlAssumption DEF Shaped
  <2>2. N \in Nat /\ DOMAIN groups = 1..N
    BY <2>1, LenProperties
  <2>3. ASSUME NEW n \in 1..N PROVE groups[n].queries \in Seq(S)
    <3>1. groups[n] \in ToSet(groups)
      BY <2>2 DEF ToSet
    <3>2. groups[n].queries \in Seq(ToSet(groups[n].queries))
      BY <2>1, <3>1
    <3>3. ToSet(groups[n].queries) \subseteq S
      OBVIOUS
    <3> HIDE DEF S
    <3> QED BY <3>2, <3>3, SeqMonotonic
  <2> QED BY <2>2, <2>3
<1> HIDE DEF S
<1>2. \E f : Is(f)
  <2>1. <<>> \in Seq(S)
    BY EmptySeq
  <2>2. step \in [Seq(S) \X (1..N) -> Seq(S)]
    <3>1. ASSUME NEW x \in Seq(S) \X (1..N) PROVE More(x[1], x[2]) \in Seq(S)
      <4>1. x[1] \in Seq(S) /\ groups[x[2]].queries \in Seq(S)
        BY <1>1
      <4>2. x[1] \o groups[x[2]].queries \in Seq(S)
        BY <4>1, ConcatProperties
      <4> QED BY <4>1, <4>2
    <3> HIDE DEF More
    <3> QED BY <3>1
  <2>3. PICK f \in [0..N -> Seq(S)] : /\ f[0] = <<>>
                                      /\ \A n \in 1..N : f[n] = step[<<f[n - 1], n>>]
    <3>1. \E f : f \in [0..N -> Seq(S)] /\ Unrolls(f, N, <<>>, step)
      <4> HIDE DEF step, N
      <4> QED BY <1>1, <2>1, <2>2, Recursion
    <3> QED BY <3>1 DEF Unrolls
  <2>4. ASSUME NEW n \in 1..N PROVE f[n] = More(f[n - 1], n)
    <3>1. n - 1 \in 0..N
      BY <1>1
    <3> QED BY <2>3, <3>1
  <2>5. f = [n \in 0..N |-> f[n]]
    OBVIOUS
  <2>6. ASSUME NEW n \in 0..N
        PROVE  f[n] = IF n = 0 THEN <<>>
                      ELSE IF Match(groups[n], ids) THEN f[n - 1] \o groups[n].queries ELSE f[n - 1]
    <3>1. n # 0 => n \in 1..N
      BY <1>1
    <3> QED BY <2>3, <2>4, <3>1
  <2>7. Is(f)
    BY <2>5, <2>6
  <2> QED BY <2>7
<1> DEFINE found == CHOOSE f : Is(f)
<1>3. Is(found)
  <2> HIDE DEF Is
  <2> QED BY <1>2
<1>4. Queries(d, ids) = found[N]
  BY DEF Queries
<1> HIDE DEF found
<1>5. found[0] = <<>> /\ \A n \in 1..N : found[n] = More(found[n - 1], n)
  <2>1. 0 \in 0..N
    BY <1>1
  <2>2. ASSUME NEW n \in 1..N PROVE n \in 0..N /\ n # 0
    BY <1>1
  <2> QED BY <1>3, <2>1, <2>2
<1> HIDE DEF Is
<1> DEFINE Good(s, n) == s \in Seq(S) /\ Lists(d, s, Matching(d, ids, n))
           T == {n \in 0..N : Good(found[n], n)}
<1>6. 0 \in T
  <2>1. Matching(d, ids, 0) = {}
    BY DEF Matching
  <2>2. <<>> \in Seq(S) /\ Len(<<>>) = 0
    BY EmptySeq
  <2>3. PICK e : e \in [1..0 -> {}]
    <3>1. [k \in 1..0 |-> k] \in [1..0 -> {}]
      OBVIOUS
    <3> QED BY <3>1
  <2>4. Lists(d, <<>>, {})
    BY <2>2, <2>3 DEF Lists
  <2>5. 0 \in 0..N
    BY <1>1
  <2> QED BY <1>5, <2>1, <2>2, <2>4, <2>5
<1>7. ASSUME NEW n \in 1..N, n - 1 \in T PROVE n \in T
  <2> DEFINE s == found[n - 1]
             t == groups[n].queries
             P == Matching(d, ids, n - 1)
  <2>1. s \in Seq(S) /\ Lists(d, s, P) /\ n \in 0..N /\ found[n] = More(s, n) /\ t \in Seq(S)
    BY <1>1, <1>5, <1>7
  <2> HIDE DEF s
  <2>2. CASE Match(groups[n], ids)
    <3>1. \A x \in P : x[1] # n
      BY <1>1 DEF Matching
    <3>2. Matching(d, ids, n) = P \cup ({n} \X DOMAIN t)
      <4>1. {j \in 1..n : Match(groups[j], ids)}
              = {j \in 1..(n - 1) : Match(groups[j], ids)} \cup {n}
        BY <1>1, <2>2
      <4> QED BY <4>1 DEF Matching
    <3>3. s \o t \in Seq(S)
      BY <2>1, ConcatProperties
    <3> HIDE DEF P
    <3>4. Lists(d, s \o t, P \cup ({n} \X DOMAIN t))
      BY <2>1, <3>1, ListsMore
    <3>5. found[n] = s \o t
      BY <2>1, <2>2
    <3> QED BY <2>1, <3>2, <3>3, <3>4, <3>5
  <2>3. CASE ~Match(groups[n], ids)
    <3>1. {j \in 1..n : Match(groups[j], ids)} = {j \in 1..(n - 1) : Match(groups[j], ids)}
      BY <1>1, <2>3
    <3>2. Matching(d, ids, n) = P
      BY <3>1 DEF Matching
    <3>3. found[n] = s
      BY <2>1, <2>3
    <3> QED BY <2>1, <3>2, <3>3
  <2> QED BY <2>2, <2>3
<1> HIDE DEF T
<1>8. N \in T
  <2>1. \A n \in 0..N : n \in T
    <3> HIDE DEF N
    <3> QED BY <1>1, <1>6, <1>7, UpTo
  <2> QED BY <1>1, <2>1
<1> QED BY <1>4, <1>8 DEF T

\* r is s and then elements of t, each of them once and only if it is not in s.
Extends(r, s, t) ==
    /\ Len(s) <= Len(r)
    /\ \A k \in 1..Len(s) : r[k] = s[k]
    /\ \A k \in 1..Len(r) : Len(s) < k =>
          r[k] \in ToSet(t) /\ \A j \in 1..Len(r) : r[j] = r[k] => j = k

\* An element that is not yet there can be appended.
LEMMA ExtendsMore ==
    ASSUME NEW S, NEW r \in Seq(S), NEW s \in Seq(S), NEW t, Extends(r, s, t),
           NEW x \in S, x \in ToSet(t), x \notin ToSet(r)
    PROVE  Extends(Append(r, x), s, t)
<1> DEFINE q == Append(r, x)
<1>1. /\ Len(r) \in Nat /\ Len(s) \in Nat /\ Len(q) = Len(r) + 1
      /\ q[Len(r) + 1] = x /\ \A k \in 1..Len(r) : q[k] = r[k]
  BY AppendProperties, LenProperties
<1>2. \A k \in 1..Len(r) : r[k] # x
  BY LenProperties DEF ToSet
<1> HIDE DEF q
<1>3. \A k \in 1..Len(q) : k \in 1..Len(r) \/ k = Len(r) + 1
  BY <1>1
<1>4. Len(s) <= Len(q) /\ \A k \in 1..Len(s) : q[k] = s[k]
  <2>1. Len(s) <= Len(r) /\ \A k \in 1..Len(s) : k \in 1..Len(r) /\ r[k] = s[k]
    BY <1>1 DEF Extends
  <2> QED BY <1>1, <2>1
<1>5. ASSUME NEW k \in 1..Len(q), Len(s) < k
      PROVE  q[k] \in ToSet(t) /\ \A j \in 1..Len(q) : q[j] = q[k] => j = k
  <2>1. CASE k \in 1..Len(r)
    <3>1. r[k] \in ToSet(t) /\ \A j \in 1..Len(r) : r[j] = r[k] => j = k
      BY <1>5, <2>1 DEF Extends
    <3> QED BY <1>1, <1>2, <1>3, <2>1, <3>1
  <2>2. CASE k = Len(r) + 1
    BY <1>1, <1>2, <1>3, <2>2
  <2> QED BY <1>3, <2>1, <2>2
<1> QED BY <1>4, <1>5 DEF Extends, q

\* What appendObject makes of the objects of a view.
LEMMA AppendNewMeans ==
    ASSUME NEW S, NEW s \in Seq(S), NEW t \in Seq(S)
    PROVE  /\ AppendNew(s, t) \in Seq(S) /\ Extends(AppendNew(s, t), s, t)
           /\ ToSet(AppendNew(s, t)) = ToSet(s) \cup ToSet(t)
<1> DEFINE N == Len(t)
           More(o, n) == IF t[n] \in ToSet(o) THEN o ELSE Append(o, t[n])
           step == [x \in Seq(S) \X (1..N) |-> More(x[1], x[2])]
           Is(f) == f = [n \in 0..N |-> IF n = 0 THEN s
                                        ELSE IF t[n] \in ToSet(f[n - 1]) THEN f[n - 1]
                                             ELSE Append(f[n - 1], t[n])]
<1>1. N \in Nat /\ DOMAIN t = 1..N /\ \A n \in 1..N : t[n] \in S
  BY LenProperties, ElementOfSeq
<1>2. \E f : Is(f)
  <2>1. step \in [Seq(S) \X (1..N) -> Seq(S)]
    <3>1. ASSUME NEW x \in Seq(S) \X (1..N) PROVE More(x[1], x[2]) \in Seq(S)
      <4>1. x[1] \in Seq(S) /\ t[x[2]] \in S
        BY <1>1
      <4>2. Append(x[1], t[x[2]]) \in Seq(S)
        BY <4>1, AppendProperties
      <4> QED BY <4>1, <4>2
    <3> HIDE DEF More
    <3> QED BY <3>1
  <2>2. PICK f \in [0..N -> Seq(S)] : /\ f[0] = s
                                      /\ \A n \in 1..N : f[n] = step[<<f[n - 1], n>>]
    <3>1. \E f : f \in [0..N -> Seq(S)] /\ Unrolls(f, N, s, step)
      <4> HIDE DEF step, N
      <4> QED BY <1>1, <2>1, Recursion
    <3> QED BY <3>1 DEF Unrolls
  <2>3. ASSUME NEW n \in 1..N PROVE f[n] = More(f[n - 1], n)
    <3>1. n - 1 \in 0..N
      BY <1>1
    <3> QED BY <2>2, <3>1
  <2>4. f = [n \in 0..N |-> f[n]]
    OBVIOUS
  <2>5. ASSUME NEW n \in 0..N
        PROVE  f[n] = IF n = 0 THEN s
                      ELSE IF t[n] \in ToSet(f[n - 1]) THEN f[n - 1] ELSE Append(f[n - 1], t[n])
    <3>1. n # 0 => n \in 1..N
      BY <1>1
    <3> QED BY <2>2, <2>3, <3>1
  <2>6. Is(f)
    BY <2>4, <2>5
  <2> QED BY <2>6
<1> DEFINE objects == CHOOSE f : Is(f)
<1>3. Is(objects)
  <2> HIDE DEF Is
  <2> QED BY <1>2
<1>4. AppendNew(s, t) = objects[N]
  BY DEF AppendNew
<1> HIDE DEF objects
<1>5. objects[0] = s /\ \A n \in 1..N : objects[n] = More(objects[n - 1], n)
  <2>1. 0 \in 0..N
    BY <1>1
  <2>2. ASSUME NEW n \in 1..N PROVE n \in 0..N /\ n # 0
    BY <1>1
  <2> QED BY <1>3, <2>1, <2>2
<1> HIDE DEF Is
<1> DEFINE Good(r, n) == /\ r \in Seq(S) /\ Extends(r, s, t)
                         /\ ToSet(r) = ToSet(s) \cup {t[k] : k \in 1..n}
           T == {n \in 0..N : Good(objects[n], n)}
<1>6. 0 \in T
  <2>1. Extends(s, s, t)
    <3>1. Len(s) \in Nat
      BY LenProperties
    <3> QED BY <3>1 DEF Extends
  <2>2. Good(s, 0) /\ 0 \in 0..N
    BY <1>1, <2>1
  <2> HIDE DEF Good
  <2> QED BY <1>5, <2>2
<1>7. ASSUME NEW n \in 1..N, n - 1 \in T PROVE n \in T
  <2> DEFINE o == objects[n - 1]
  <2>1. Good(o, n - 1) /\ n \in 0..N /\ objects[n] = More(o, n)
    BY <1>1, <1>5, <1>7
  <2> HIDE DEF o
  <2>2. t[n] \in ToSet(t) /\ t[n] \in S
    BY <1>1 DEF ToSet
  <2>3. {t[k] : k \in 1..n} = {t[k] : k \in 1..(n - 1)} \cup {t[n]}
    <3>1. \A k \in 1..n : k \in 1..(n - 1) \/ k = n
      BY <1>1
    <3>2. \A k \in 1..(n - 1) : k \in 1..n
      BY <1>1
    <3>3. n \in 1..n
      BY <1>1
    <3> QED BY <3>1, <3>2, <3>3
  <2>4. CASE t[n] \in ToSet(o)
    <3>1. Good(o, n)
      BY <2>1, <2>3, <2>4
    <3> HIDE DEF Good
    <3> QED BY <2>1, <2>4, <3>1
  <2>5. CASE t[n] \notin ToSet(o)
    <3>1. o \in Seq(S) /\ Extends(o, s, t) /\ ToSet(o) = ToSet(s) \cup {t[k] : k \in 1..(n - 1)}
      BY <2>1
    <3>2. Append(o, t[n]) \in Seq(S)
      BY <2>2, <3>1, AppendProperties
    <3>3. Extends(Append(o, t[n]), s, t)
      BY <2>2, <2>5, <3>1, ExtendsMore
    <3>4. ToSet(Append(o, t[n])) = ToSet(o) \cup {t[n]}
      <4>1. /\ Len(o) \in Nat /\ DOMAIN o = 1..Len(o)
            /\ DOMAIN Append(o, t[n]) = 1..(Len(o) + 1)
            /\ Append(o, t[n])[Len(o) + 1] = t[n]
            /\ \A k \in 1..Len(o) : Append(o, t[n])[k] = o[k]
        BY <2>2, <3>1, <3>2, AppendProperties, LenProperties
      <4>2. PICK a : a = Append(o, t[n])
        OBVIOUS
      <4>3. \A k \in 1..(Len(o) + 1) : k \in 1..Len(o) \/ k = Len(o) + 1
        BY <4>1
      <4>4. \A k \in 1..Len(o) : k \in 1..(Len(o) + 1)
        BY <4>1
      <4>5. Len(o) + 1 \in 1..(Len(o) + 1)
        BY <4>1
      <4>6. ToSet(a) \subseteq ToSet(o) \cup {t[n]}
        BY <4>1, <4>2, <4>3 DEF ToSet
      <4>7. ToSet(o) \cup {t[n]} \subseteq ToSet(a)
        BY <4>1, <4>2, <4>4, <4>5 DEF ToSet
      <4> QED BY <4>2, <4>6, <4>7
    <3>5. Good(Append(o, t[n]), n)
      BY <2>3, <3>1, <3>2, <3>3, <3>4
    <3> HIDE DEF Good
    <3> QED BY <2>1, <2>5, <3>5
  <2> QED BY <2>4, <2>5
<1> HIDE DEF T
<1>8. N \in T
  <2>1. \A n \in 0..N : n \in T
    <3> HIDE DEF N
    <3> QED BY <1>1, <1>6, <1>7, UpTo
  <2> QED BY <1>1, <2>1
<1>9. ToSet(t) = {t[k] : k \in 1..N}
  BY <1>1 DEF ToSet
<1> QED BY <1>4, <1>8, <1>9 DEF T

\* What a list has: the queries at its places, ...
LEMMA ListsSet ==
    ASSUME NEW d, NEW S, NEW s \in Seq(S), NEW P, Lists(d, s, P)
    PROVE  ToSet(s) = {QueryAt(d, t) : t \in P} /\ IsFiniteSet(P)
<1>1. PICK f : /\ f \in [1..Len(s) -> P]
               /\ \A t \in P : \E k \in 1..Len(s) : f[k] = t
               /\ \A k \in 1..Len(s) : s[k] = QueryAt(d, f[k])
  BY DEF Lists
<1>2. Len(s) \in Nat /\ DOMAIN s = 1..Len(s)
  BY LenProperties
<1>3. ToSet(s) = {QueryAt(d, t) : t \in P}
  BY <1>1, <1>2 DEF ToSet
<1>4. IsFiniteSet(1..Len(s))
  BY <1>2, FS_Interval
<1>5. f \in Surjection(1..Len(s), P)
  BY <1>1 DEF Surjection
<1> QED BY <1>3, <1>4, <1>5, FS_Surjection

\* Where a query is in a list, and where it is among places.
InList(s, x)   == {k \in 1..Len(s) : s[k] = x}
Among(d, P, x) == {t \in P : QueryAt(d, t) = x}

\* ... and none more often than it has places.
LEMMA ListsTimes ==
    ASSUME NEW d, NEW S, NEW s \in Seq(S), NEW P, Lists(d, s, P), NEW x
    PROVE  Cardinality(InList(s, x)) <= Cardinality(Among(d, P, x))
<1>1. PICK f : /\ f \in [1..Len(s) -> P]
               /\ \A j, k \in 1..Len(s) : f[j] = f[k] => j = k
               /\ \A k \in 1..Len(s) : s[k] = QueryAt(d, f[k])
  BY DEF Lists
<1> DEFINE A == {k \in 1..Len(s) : s[k] = x}
           B == {t \in P : QueryAt(d, t) = x}
           g == [k \in A |-> f[k]]
<1>2. IsFiniteSet(B)
  <2>1. B \subseteq P
    OBVIOUS
  <2> HIDE DEF B
  <2> QED BY <2>1, ListsSet, FS_Subset
<1>3. g \in Injection(A, B)
  <2>1. g \in [A -> B]
    BY <1>1
  <2>2. \A j, k \in A : g[j] = g[k] => j = k
    BY <1>1
  <2> HIDE DEF g, A, B
  <2> QED BY <2>1, <2>2 DEF Injection, IsInjective
<1> HIDE DEF g, A, B
<1>4. Cardinality(A) <= Cardinality(B)
  BY <1>2, <1>3, FS_Injection
<1> QED BY <1>4 DEF A, B, InList, Among

\* The queries served are those of the groups that target the host or its process.
LEMMA QueriesOwn ==
    ASSUME NEW d \in Documents, NEW h, NEW p
    PROVE  OwnQueries(d, h, p)
<1> DEFINE path == ToSet(h.path)
           proc == IF p \in h.procs THEN {p} ELSE {}
           N  == Len(d.groups)
           P1 == Matching(d, path, N)
           P2 == Matching(d, proc, N)
           T  == Targeting(d, h, p)
           s  == Queries(d, path)
           t  == IF p \in h.procs THEN Queries(d, {p}) ELSE <<>>
           q  == AppendNew(s, t)
<1>1. DOMAIN d.groups = 1..N
  BY ControlAssumption, LenProperties DEF Shaped
<1>2. T = P1 \cup P2
  <2>1. \A g : Match(g, path \cup proc) <=> Match(g, path) \/ Match(g, proc)
    BY DEF Match
  <2>2. T = UNION {{i} \X DOMAIN d.groups[i].queries : i \in {j \in 1..N : Match(d.groups[j], path \cup proc)}}
    BY <1>1 DEF Targeting
  <2> HIDE DEF path, proc, T
  <2> QED BY <2>1, <2>2 DEF Matching
<1>3. Lists(d, s, P1)
  BY QueriesMeans
<1>4. Lists(d, t, P2)
  <2>1. CASE p \in h.procs
    BY <2>1, QueriesMeans
  <2>2. CASE p \notin h.procs
    <3>1. P2 = {}
      BY <2>2 DEF Matching, Match
    <3>2. PICK e : e \in [1..0 -> {}]
      <4>1. [k \in 1..0 |-> k] \in [1..0 -> {}]
        OBVIOUS
      <4> QED BY <4>1
    <3>3. Lists(d, <<>>, {})
      BY <3>2, EmptySeq DEF Lists
    <3> QED BY <2>2, <3>1, <3>3
  <2> QED BY <2>1, <2>2
<1>5. PICK S : s \in Seq(S) /\ t \in Seq(S)
  <2>1. PICK S1 : s \in Seq(S1)
    BY QueriesMeans
  <2>2. PICK S2 : t \in Seq(S2)
    <3>1. CASE p \in h.procs
      BY <3>1, QueriesMeans
    <3>2. CASE p \notin h.procs
      BY <3>2, EmptySeq
    <3> QED BY <3>1, <3>2
  <2>3. S1 \subseteq S1 \cup S2 /\ S2 \subseteq S1 \cup S2
    OBVIOUS
  <2> HIDE DEF s, t
  <2>4. s \in Seq(S1 \cup S2) /\ t \in Seq(S1 \cup S2)
    BY <2>1, <2>2, <2>3, SeqMonotonic
  <2> QED BY <2>4
<1>6. q = jmxView(d, h, p)
  BY DEF jmxView
<1> HIDE DEF s, t, P1, P2, T
<1>7. q \in Seq(S) /\ Extends(q, s, t) /\ ToSet(q) = ToSet(s) \cup ToSet(t)
  BY <1>5, AppendNewMeans
<1> HIDE DEF q
<1>8. /\ ToSet(s) = {QueryAt(d, x) : x \in P1} /\ ToSet(t) = {QueryAt(d, x) : x \in P2}
      /\ IsFiniteSet(P1) /\ IsFiniteSet(P2)
  BY <1>3, <1>4, <1>5, ListsSet
<1>9. ToSet(q) = {QueryAt(d, x) : x \in T}
  BY <1>2, <1>7, <1>8
<1>10. IsFiniteSet(T)
  BY <1>2, <1>8, FS_Union
<1>11. Len(q) \in Nat /\ DOMAIN q = 1..Len(q) /\ Len(s) \in Nat /\ DOMAIN s = 1..Len(s)
  BY <1>5, <1>7, LenProperties
<1>12. ASSUME NEW x \in ToSet(q)
       PROVE  Cardinality({n \in DOMAIN q : q[n] = x}) <= Cardinality({y \in T : QueryAt(d, y) = x})
  <2> DEFINE A == {n \in DOMAIN q : q[n] = x}
             B == {y \in T : QueryAt(d, y) = x}
  <2>1. IsFiniteSet(B) /\ Cardinality(B) \in Nat
    <3>1. B \subseteq T
      OBVIOUS
    <3> HIDE DEF B
    <3> QED BY <1>10, <3>1, FS_Subset, FS_CardinalityType
  <2>2. CASE x \in ToSet(s)
    <3> DEFINE A1 == InList(s, x)
               B1 == Among(d, P1, x)
    <3>1. PICK j \in 1..Len(s) : s[j] = x
      BY <1>11, <2>2 DEF ToSet
    <3>2. j \in 1..Len(q) /\ q[j] = x
      BY <1>11, <3>1, <1>7 DEF Extends
    <3>3. ASSUME NEW k \in A PROVE k \in A1
      <4>1. k \in 1..Len(q) /\ q[k] = x
        BY <1>11
      <4>2. CASE k \in 1..Len(s)
        BY <1>7, <4>1, <4>2 DEF Extends, InList
      <4>3. CASE k \notin 1..Len(s)
        <5>1. Len(s) < k
          BY <1>11, <4>1, <4>3
        <5>2. j = k
          BY <1>7, <3>2, <4>1, <5>1 DEF Extends
        <5> QED BY <3>1, <4>3, <5>2
      <4> QED BY <4>2, <4>3 DEF InList
    <3>4. A \subseteq A1 /\ B1 \subseteq B
      BY <1>2, <3>3 DEF Among
    <3>5. Cardinality(A1) <= Cardinality(B1)
      BY <1>3, <1>5, ListsTimes
    <3>6. IsFiniteSet(A1)
      <4>1. A1 \subseteq 1..Len(s)
        BY DEF InList
      <4>2. IsFiniteSet(1..Len(s))
        BY <1>11, FS_Interval
      <4> HIDE DEF A1
      <4> QED BY <4>1, <4>2, FS_Subset
    <3> HIDE DEF A, B, A1, B1
    <3>7. /\ Cardinality(A) <= Cardinality(A1) /\ Cardinality(B1) <= Cardinality(B)
          /\ IsFiniteSet(A) /\ IsFiniteSet(B1)
      BY <2>1, <3>4, <3>6, FS_Subset
    <3>8. Cardinality(A) \in Nat /\ Cardinality(A1) \in Nat /\ Cardinality(B1) \in Nat
      BY <3>6, <3>7, FS_CardinalityType
    <3>9. Cardinality(A) <= Cardinality(B)
      BY <2>1, <3>5, <3>7, <3>8
    <3> QED BY <3>9 DEF A, B
  <2>3. CASE x \notin ToSet(s)
    <3>1. PICK n \in 1..Len(q) : q[n] = x
      BY <1>11 DEF ToSet
    <3>2. Len(s) < n
      <4>1. n \notin 1..Len(s)
        BY <1>7, <1>11, <2>3, <3>1 DEF Extends, ToSet
      <4> QED BY <1>11, <4>1
    <3>3. A = {n}
      BY <1>7, <1>11, <3>1, <3>2 DEF Extends
    <3>4. PICK y : y \in B
      BY <1>9
    <3>5. {y} \subseteq B
      BY <3>4
    <3> HIDE DEF A, B
    <3>6. Cardinality(A) = 1 /\ Cardinality({y}) = 1 /\ Cardinality({y}) <= Cardinality(B)
      BY <2>1, <3>3, <3>5, FS_Singleton, FS_Subset
    <3> QED BY <3>6 DEF A, B
  <2> QED BY <2>2, <2>3
<1> QED BY <1>6, <1>9, <1>12 DEF OwnQueries, QueryAt, T

\* The hosts of a document are finitely many, have an id and are in a cluster.
LEMMA HostsMean ==
    ASSUME NEW d \in Documents, Decode(d)
    PROVE  /\ IsFiniteSet(Hosts(d))
           /\ \A h \in Hosts(d) : h.id # Nil /\ ClusterID(h) # Nil
<1>1. d.tree \in Seq(ToSet(d.tree)) /\ \A h \in Hosts(d) : h.path \in Seq(NS(d)) /\ Len(h.path) >= 2
  BY ControlAssumption DEF Shaped
<1>2. Len(d.tree) \in Nat /\ DOMAIN d.tree = 1..Len(d.tree)
  BY <1>1, LenProperties
<1>3. IsFiniteSet(Hosts(d))
  <2> DEFINE I == {j \in DOMAIN d.tree : IsHost(d.tree[j])}
             H == Hosts(d)
             f == [i \in I |-> d.tree[i]]
  <2>1. IsFiniteSet(I)
    <3>1. I \subseteq 1..Len(d.tree) /\ IsFiniteSet(1..Len(d.tree))
      BY <1>2, FS_Interval
    <3> HIDE DEF I
    <3> QED BY <3>1, FS_Subset
  <2>2. H = {d.tree[i] : i \in I}
    BY DEF Hosts
  <2> HIDE DEF I, H
  <2>3. f \in Surjection(I, H)
    BY <2>2 DEF Surjection
  <2> HIDE DEF f
  <2>4. IsFiniteSet(H)
    BY <2>1, <2>3, FS_Surjection
  <2> QED BY <2>4 DEF H
<1>4. Nil \notin NS(d)
  BY DEF Decode, addGroup, Range, NS, ToSet
<1>5. ASSUME NEW h \in Hosts(d) PROVE h.id # Nil /\ ClusterID(h) # Nil
  <2>1. h.id \in NS(d)
    BY DEF Hosts, NS, ToSet
  <2>2. Len(h.path) \in Nat /\ Len(h.path) >= 2 /\ h.path \in Seq(NS(d)) /\ h.path # <<>>
    BY <1>1, LenProperties, EmptySeq
  <2>3. Len(h.path) - 1 \in 1..Len(h.path)
    BY <2>2
  <2>4. h.path[Len(h.path) - 1] \in NS(d)
    BY <2>2, <2>3, ElementOfSeq
  <2> QED BY <1>4, <2>1, <2>2, <2>4 DEF ClusterID
<1> QED BY <1>3, <1>5

\* A name stands for the host that has it, for the only one that has it as its short
\* name, or for one that the document does not have.
LEMMA HostMeans ==
    ASSUME NEW d \in Documents, Decode(d), NEW id, Host(d, id) # Nil, NEW h, h = Host(d, id)
    PROVE  /\ InScope(d, h.id)
           /\ \/ h \in Hosts(d) /\ h.id = id
              \/ /\ h \in Hosts(d) /\ h.short = id /\ h.id # id
                 /\ {g \in Hosts(d) : id \in {g.id, g.short}} = {h}
              \/ h.id = id /\ h.path = <<>> /\ id \notin {g.id : g \in Hosts(d)}
<1> DEFINE exact   == {g \in Hosts(d) : g.id = id}
           inexact == {g \in Hosts(d) : g.short = id}
           found   == IF exact # {} THEN CHOOSE g \in exact : TRUE
                      ELSE IF Unambiguous(inexact) THEN CHOOSE g \in inexact : TRUE
                      ELSE [kind |-> "host", id |-> id, short |-> id, path |-> <<>>,
                            procs |-> {}, statse |-> Nil]
<1>1. h = found /\ InScope(d, h.id)
  BY DEF Host
<1>2. CASE exact # {}
  <2>1. h \in exact
    BY <1>1, <1>2
  <2> QED BY <1>1, <2>1
<1>3. CASE exact = {} /\ Unambiguous(inexact)
  <2>1. IsFiniteSet(inexact)
    <3>1. inexact \subseteq Hosts(d)
      OBVIOUS
    <3> HIDE DEF inexact
    <3> QED BY <3>1, HostsMean, FS_Subset
  <2>2. PICK x : inexact = {x}
    <3> HIDE DEF inexact
    <3> QED BY <1>3, <2>1, FS_Singleton DEF Unambiguous
  <2>3. h = x
    BY <1>1, <1>3, <2>2
  <2>4. h \in Hosts(d) /\ h.short = id
    BY <2>2, <2>3
  <2>5. h.id # id
    BY <1>3, <2>4
  <2>6. {g \in Hosts(d) : id \in {g.id, g.short}} = {h}
    BY <1>3, <2>2, <2>3
  <2> QED BY <1>1, <2>4, <2>5, <2>6
<1>4. CASE exact = {} /\ ~Unambiguous(inexact)
  <2>1. h = [kind |-> "host", id |-> id, short |-> id, path |-> <<>>, procs |-> {}, statse |-> Nil]
    BY <1>1, <1>4
  <2>2. id \notin {g.id : g \in Hosts(d)}
    BY <1>4
  <2> QED BY <1>1, <2>1, <2>2
<1> QED BY <1>2, <1>3, <1>4

\* A cluster's aggregator is one of its hosts; a host without a cluster has none.
LEMMA AggregatorOf ==
    ASSUME NEW d \in Documents, Decode(d), NEW h, NEW a, a = aggregator(d, h), a # Nil
    PROVE  a \in Hosts(d) /\ a.statse.agg /\ InScope(d, a.id) /\ ClusterID(a) = ClusterID(h)
<1> DEFINE IsAgg(g) == g.statse # Nil /\ g.statse.agg
           aggs == {i \in Cluster(d, ClusterID(h)) : IsAgg(d.tree[i])}
<1>1. aggs # {} /\ a = d.tree[Min(aggs)]
  BY DEF aggregator
<1>2. aggs \subseteq Nat
  <2>1. DOMAIN d.tree = 1..Len(d.tree)
    BY ControlAssumption, LenProperties DEF Shaped
  <2> QED BY <2>1 DEF Cluster
<1>3. Min(aggs) \in aggs
  <2> HIDE DEF aggs
  <2> QED BY <1>1, <1>2, LeastOf DEF Min
<1>4. PICK m : m = Min(aggs)
  OBVIOUS
<1>5. m \in Cluster(d, ClusterID(h)) /\ IsAgg(d.tree[m]) /\ a = d.tree[m]
  BY <1>1, <1>3, <1>4
<1> QED BY <1>5 DEF Cluster, Hosts

\* The first rule of a view adds the host's name.
LEMMA FirstRule ==
    ASSUME NEW h, NEW x
    PROVE  (Append(<<>>, x) \o ClusterRule(h))[1] = x
<1> DEFINE c == ClusterRule(h)
<1>1. PICK S : <<x>> \in Seq(S) /\ c \in Seq(S)
  <2>1. PICK y : c = <<>> \/ c = <<y>>
    BY DEF ClusterRule
  <2>2. <<x>> \in Seq({x, y}) /\ <<y>> \in Seq({x, y}) /\ <<>> \in Seq({x, y})
    OBVIOUS
  <2> QED BY <2>1, <2>2
<1>2. Append(<<>>, x) = <<x>> /\ Len(<<x>>) = 1 /\ <<x>>[1] = x
  OBVIOUS
<1> HIDE DEF c
<1>3. (<<x>> \o c)[1] = IF 1 <= Len(<<x>>) THEN <<x>>[1] ELSE c[1 - Len(<<x>>)]
  <2>1. Len(c) \in Nat /\ 1 \in 1..(Len(<<x>>) + Len(c))
    BY <1>1, <1>2, LenProperties
  <2> QED BY <1>1, <2>1, ConcatProperties
<1> QED BY <1>2, <1>3 DEF c

\* What a document that is accepted serves a host is the host's own.
LEMMA ServesOwn ==
    ASSUME NEW d \in Documents, Decode(d)
    PROVE  Own(d)
<1> SUFFICES ASSUME NEW id, Host(d, id) # Nil, NEW h, h = Host(d, id)
             PROVE  OwnOf(d, id, h)
  BY DEF Own
<1>0. PICK v : v = statseView(d, id, h, <<>>)
  OBVIOUS
<1> DEFINE a == aggregator(d, h)
<1>1. /\ v.agg = IF a = Nil THEN Nil ELSE a.id
      /\ v.interval = snapshotInterval(d, h)
      /\ v.filter = Append(<<>>, AddTag("host", id)) \o ClusterRule(h)
  BY <1>0 DEF statseView
<1>2. a # Nil => a \in Hosts(d) /\ a.statse.agg /\ InScope(d, a.id) /\ ClusterID(a) = ClusterID(h)
  BY AggregatorOf
<1>3. \A g \in Hosts(d) : g.id # Nil /\ ClusterID(g) # Nil
  BY HostsMean
<1>4. /\ InScope(d, h.id)
      /\ \/ h \in Hosts(d) /\ h.id = id
         \/ /\ h \in Hosts(d) /\ h.short = id /\ h.id # id
            /\ {g \in Hosts(d) : id \in {g.id, g.short}} = {h}
         \/ h.id = id /\ h.path = <<>> /\ id \notin {g.id : g \in Hosts(d)}
  BY HostMeans
<1>5. h \notin Hosts(d) => ClusterID(h) = Nil /\ a = Nil
  <2>1. h \notin Hosts(d) => ClusterID(h) = Nil
    BY <1>4 DEF ClusterID
  <2> HIDE DEF a
  <2> QED BY <1>2, <1>3, <2>1
<1>6. ASSUME NEW g \in Hosts(d), ClusterID(g) = ClusterID(h)
      PROVE  statseView(d, g.id, g, <<>>).agg = v.agg
  <2>1. aggregator(d, g) = a
    BY <1>6 DEF aggregator
  <2> QED BY <1>1, <2>1 DEF statseView
<1>7. v.interval # Nil <=> (h \in Hosts(d) /\ v.agg = h.id)
  <2>1. snapshotInterval(d, h) =
           IF a = Nil \/ a.id # h.id THEN Nil
           ELSE IF a.statse.interval = Nil THEN "10s" ELSE a.statse.interval
    BY DEF snapshotInterval
  <2>2. "10s" # Nil
    BY ControlAssumption
  <2> HIDE DEF a
  <2> QED BY <1>1, <1>3, <1>5, <2>1, <2>2
<1>8. v.filter[1] = forwarderView(d, h, <<>>).filter[1] \/ (id = h.short /\ id # h.id)
  <2>1. forwarderView(d, h, <<>>).filter = Append(<<>>, AddTag("host", h.id)) \o ClusterRule(h)
    BY DEF forwarderView, newView
  <2>2. v.filter[1] = AddTag("host", id)
    BY <1>1, FirstRule
  <2>3. forwarderView(d, h, <<>>).filter[1] = AddTag("host", h.id)
    BY <2>1, FirstRule
  <2> QED BY <1>4, <2>2, <2>3
<1>9. \A p : OwnQueries(d, h, p)
  BY QueriesOwn
<1> HIDE DEF a
<1>10. h \in Hosts(d) => h.id = id \/ {g \in Hosts(d) : id \in {g.id, g.short}} = {h}
  BY <1>4, <1>5, <1>3
<1>11. h \notin Hosts(d) => /\ id \notin {g.id : g \in Hosts(d)}
                            /\ ClusterID(h) = Nil /\ v.agg = Nil
  BY <1>1, <1>4, <1>5
<1>12. v.agg # Nil => \E g \in Hosts(d) :
          g.id = v.agg /\ g.statse.agg /\ InScope(d, g.id) /\ ClusterID(g) = ClusterID(h)
  BY <1>1, <1>2
<1> QED BY <1>0, <1>4, <1>6, <1>7, <1>8, <1>9, <1>10, <1>11, <1>12 DEF OwnOf

\* With every document the controller starts with, what a host is served is its own:
\* its name, its cluster's one aggregator, its interval and its queries, each as often
\* as its groups have it (config.go Host and Cluster, control/collect-statse/control.go,
\* control/collect-jmx/control.go).
THEOREM OwnViews == Spec => OwnView
<1>1. ServedInv /\ [Next]_vars => [ctl' # ctl /\ ctl' # Nil => Own(ctl')]_vars
  <2> SUFFICES ASSUME ServedInv, Next, ctl' # ctl, ctl' # Nil
               PROVE  Own(ctl')
    BY DEF vars, world
  <2>1. Start
    BY DEF Next, Operator, Edit, Stop, Signal, Load, Fetch, ReadFile, Update, LoadFile, Hang, Restart, world
  <2>2. ctl' = doc /\ Decode(doc) /\ doc \in Documents
    BY <2>1 DEF Start, ServedInv
  <2>3. Own(doc)
    BY <2>2, ServesOwn
  <2> QED BY <2>2, <2>3
<1>2. IInv => TypeOK
  BY DEF IInv
<1> QED BY <1>1, <1>2, InitServed, ServedStep, InductiveInvariant, PTL DEF Spec, OwnView

===============================================================================
