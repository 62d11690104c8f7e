----------------------------- MODULE StatseProofs -----------------------------
(***************************************************************************)
(* Proofs about Statse: the inductive invariant, and from it the states of *)
(* the collector, that an event reaches the store as its application sent  *)
(* it, and what a cleanup may take. CountInv, on top of it, gives that     *)
(* counts do not go back, and Sampled what the buffers have at a snapshot. *)
(***************************************************************************)
EXTENDS Statse, SeqLemmas, FiniteSetTheorems

\* What the remainder of a number and of the next one are.
LEMMA ModStep ==
    ASSUME NEW n \in Nat, NEW d \in Nat \ {0}
    PROVE  /\ n % d \in 0..(d - 1)
           /\ (n + 1) % d # 0 => (n + 1) % d = (n % d) + 1
  <1> DEFINE q == n \div d  r == n % d  p == (n + 1) \div d  s == (n + 1) % d
  <1>1. /\ r \in 0..(d - 1) /\ s \in 0..(d - 1) /\ q \in Int /\ p \in Int
        /\ n = d * q + r /\ n + 1 = d * p + s
    OBVIOUS
  <1> HIDE DEF q, r, p, s
  <1>2. d * p = d * q + (1 + r - s) /\ d * p \in Int /\ d * q \in Int
    BY <1>1
  <1>3. CASE p >= q + 1
    <2>1. d * p >= d * q + d
      BY <1>1, <1>3
    <2> QED BY <1>1, <1>2, <2>1 DEF r, s
  <1>4. CASE p = q
    BY <1>1, <1>2, <1>4 DEF r, s
  <1>5. CASE p <= q - 1
    <2>1. d * q >= d * p + d
      BY <1>1, <1>5
    <2> QED BY <1>1, <1>2, <2>1 DEF r, s
  <1> QED BY <1>1, <1>3, <1>4, <1>5

-------------------------------------------------------------------------------
(* The forwarder and the wire.                                               *)

\* parseStatistics gives each statistic of the message one of the values it has
\* there.
LEMMA StatisticsOf ==
    ASSUME NEW m \in Messages
    PROVE  /\ DOMAIN Statistics(m.stats) = {m.stats[i][1] : i \in DOMAIN m.stats}
           /\ \A k \in DOMAIN Statistics(m.stats) :
                 <<k, Statistics(m.stats)[k]>> \in Range(m.stats)
           /\ \A i \in DOMAIN m.stats : m.stats[i] \in StatKeys \X Int
  <1> DEFINE s == m.stats
             First(k, i) == s[i][1] = k /\ \A j \in 1..(i-1) : s[j][1] # k
  <1>1. /\ s \in Seq(StatKeys \X Int) /\ DOMAIN s = 1..Len(s) /\ Len(s) \in Nat
        /\ \A i \in DOMAIN s : s[i] \in StatKeys \X Int
    BY StatseAssumption, LenProperties, ElementOfSeq
  <1>2. DOMAIN Statistics(s) = {s[i][1] : i \in DOMAIN s}
    BY DEF Statistics
  <1>3. ASSUME NEW k \in DOMAIN Statistics(s) PROVE <<k, Statistics(s)[k]>> \in Range(s)
    <2> DEFINE T == {i \in DOMAIN s : s[i][1] = k}
               c == CHOOSE i \in DOMAIN s : First(k, i)
    <2>1. T \subseteq Nat /\ T # {}
      BY <1>1, <1>2
    <2>2. PICK i \in T : \A j \in T : i <= j
      <3> HIDE DEF T
      <3> QED BY <2>1, LeastOf
    <2>3. i \in DOMAIN s /\ First(k, i)
      <3>1. ASSUME NEW j \in 1..(i-1), s[j][1] = k PROVE FALSE
        <4>1. j \in DOMAIN s /\ ~(i <= j)
          BY <1>1, <2>2
        <4> QED BY <2>2, <3>1, <4>1
      <3> QED BY <2>2, <3>1
    <2>4. c \in DOMAIN s /\ First(k, c)
      <3> HIDE DEF First
      <3> QED BY <2>3
    <2>5. Statistics(s)[k] = s[c][2]
      BY <1>2 DEF Statistics
    <2> HIDE DEF c
    <2>6. s[c] = <<k, s[c][2]>>
      BY <1>1, <2>4
    <2>7. Range(s) = {s[j] : j \in DOMAIN s}
      BY DEF Range
    <2> QED BY <2>4, <2>5, <2>6, <2>7
  <1> QED BY <1>1, <1>2, <1>3

\* What parse makes of the forwarder's Event is again one, and of a valid message
\* its tags, statistics and error, whatever the Event held before.
LEMMA ParseEvent ==
    ASSUME NEW h \in Hosts, NEW ev \in EventOf(h), NEW m \in Messages
    PROVE  /\ parse(ev, m) \in EventOf(h)
           /\ parse(ev, m).metric = m.metric
           /\ ~m.bad => /\ parse(ev, m).error = m.error
                        /\ parse(ev, m).stats = Statistics(m.stats)
                        /\ ~(m.ver = 1 /\ m.tags = {}) => parse(ev, m).tags = m.tags
  <1>1. /\ m.metric \in Metrics /\ m.tags \subseteq Tags /\ m.error \in BOOLEAN /\ m.bad \in BOOLEAN
        /\ Statistics(m.stats) \in {Statistics(x.stats) : x \in Messages}
    BY StatseAssumption DEF Metrics, Tags
  <1> DEFINE S == {Statistics(x.stats) : x \in Messages} \cup {NoStats}
             E == [metric : Metrics \cup {Nil}, tags : SUBSET (Tags \cup {<<"host", h>>}),
                   error : BOOLEAN, stats : S]
             st == Statistics(m.stats)
  <1>2. EventOf(h) = E /\ st \in S /\ NoStats \in S
    BY <1>1 DEF EventOf
  <1> HIDE DEF S, st
  <1> DEFINE f == parseFields(ev, m)
  <1>6. /\ f \in E /\ f.metric = ev.metric /\ f.tags = ev.tags
        /\ f.error = m.error /\ f.stats = st
    <2>1. f = [ev EXCEPT !.stats = st, !.error = m.error]
      BY DEF parseFields, st
    <2> HIDE DEF f
    <2>2. ev \in E
      BY <1>2
    <2> QED BY <1>1, <1>2, <2>1, <2>2
  <1> HIDE DEF f
  <1>3. CASE m.ver = 1
    <2>1. parse(ev, m) = [f EXCEPT !.metric = m.metric, !.tags = IF m.tags = {} THEN @ ELSE m.tags]
      BY <1>3 DEF parse, parseV1, f
    <2> QED BY <1>1, <1>2, <1>3, <1>6, <2>1 DEF st
  <1>4. CASE m.ver # 1 /\ ~m.bad
    <2>1. parse(ev, m) = [f EXCEPT !.metric = m.metric, !.tags = m.tags]
      BY <1>4 DEF parse, parseV2, validateTags, f
    <2> QED BY <1>1, <1>2, <1>4, <1>6, <2>1 DEF st
  <1>5. CASE m.ver # 1 /\ m.bad
    <2>1. parse(ev, m) = [ev EXCEPT !.metric = m.metric, !.stats = NoStats, !.error = FALSE]
      BY <1>2, <1>5 DEF parse, parseV2, validateTags
    <2> QED BY <1>1, <1>2, <1>5, <2>1
  <1> QED BY <1>1, <1>3, <1>4, <1>5

\* The event that passes the filter is the one of its message.
LEMMA RewrittenCarries ==
    ASSUME NEW h \in Hosts, NEW ev \in EventOf(h), NEW m \in Messages, ~m.bad
    PROVE  /\ Rewritten(h, parse(ev, m)) \in EventOf(h)
           /\ Carries(h, Rewritten(h, parse(ev, m)), m)
  <1> DEFINE p == parse(ev, m)
             r == Rewritten(h, p)
  <1>1. /\ p \in EventOf(h) /\ p.metric = m.metric /\ p.error = m.error
        /\ p.stats = Statistics(m.stats)
        /\ ~(m.ver = 1 /\ m.tags = {}) => p.tags = m.tags
    BY ParseEvent
  <1> HIDE DEF p
  <1>2. /\ r \in EventOf(h) /\ r.metric = p.metric /\ r.error = p.error /\ r.stats = p.stats
        /\ r.tags = IF p.metric \in NoHost \/ HostOf(p) # {} THEN p.tags
                    ELSE p.tags \cup {<<"host", h>>}
    BY <1>1 DEF Rewritten, EventOf
  <1> HIDE DEF r
  <1>3. HostOf(r) = IF HostOf(p) # {} \/ m.metric \in NoHost THEN HostOf(p) ELSE {h}
    <2>1. CASE HostOf(p) # {} \/ m.metric \in NoHost
      BY <1>1, <1>2, <2>1 DEF HostOf
    <2>2. CASE HostOf(p) = {} /\ m.metric \notin NoHost
      <3>1. r.tags = p.tags \cup {<<"host", h>>}
        BY <1>1, <1>2, <2>2
      <3>2. \A u \in p.tags : u[1] # "host"
        BY <2>2 DEF HostOf
      <3>3. {u \in r.tags : u[1] = "host"} = {<<"host", h>>}
        BY <3>1, <3>2
      <3>4. HostOf(r) = {t[2] : t \in {<<"host", h>>}}
        BY <3>3 DEF HostOf
      <3> QED BY <2>2, <3>4
    <2> QED BY <2>1, <2>2
  <1>4. {t \in r.tags : t[1] # "host"} = {t \in p.tags : t[1] # "host"}
    BY <1>2
  <1>5. /\ DOMAIN r.stats = {m.stats[i][1] : i \in DOMAIN m.stats}
        /\ \A k \in DOMAIN r.stats : <<k, r.stats[k]>> \in Range(m.stats)
    <2>1. r.stats = Statistics(m.stats)
      BY <1>1, <1>2
    <2> QED BY <2>1, StatisticsOf, Zenon
  <1>6. Carries(h, r, m)
    <2>1. m.metric \notin NoHost => HostOf(r) # {}
      BY <1>3
    <2>2. ASSUME ~Inherits(m)
          PROVE  /\ {t \in r.tags : t[1] # "host"} = {t \in m.tags : t[1] # "host"}
                 /\ HostOf(r) = IF HostOf(m) # {} \/ m.metric \in NoHost THEN HostOf(m) ELSE {h}
      <3>1. p.tags = m.tags
        BY <1>1, <2>2 DEF Inherits
      <3>2. HostOf(p) = HostOf(m)
        BY <3>1 DEF HostOf
      <3> QED BY <1>3, <1>4, <3>1, <3>2
    <2>3. r.metric = m.metric /\ r.error = m.error
      BY <1>1, <1>2
    <2> QED BY <1>5, <2>1, <2>2, <2>3, Zenon DEF Carries
  <1> QED BY <1>2, <1>6 DEF r, p

\* The aggregator decodes into an empty Event, which gives the event that was sent.
LEMMA DecodedEvent ==
    ASSUME NEW h \in Hosts, NEW e \in EventOf(h)
    PROVE  Decoded(ZeroEvent, e) = e
  <1>1. /\ e.tags = {} => e.tags = ZeroEvent.tags
        /\ e.error \in BOOLEAN /\ ZeroEvent.error = FALSE
        /\ e.stats = NoStats => e.stats = ZeroEvent.stats
    BY DEF ZeroEvent, EventOf
  <1>2. e = [metric |-> e.metric, tags |-> e.tags, error |-> e.error, stats |-> e.stats]
    BY DEF EventOf
  <1> QED BY <1>1, <1>2 DEF Decoded

-------------------------------------------------------------------------------
(* The parts of the invariant.                                               *)

Loops ==
    \A h \in Hosts : /\ fpc[h] \in {"read", "send"} /\ (msg[h] # Nil <=> fpc[h] = "send")
                     /\ conn[h] \in {"none", "up", "broken"}

Kept ==
    \A k \in DOMAIN store :
       /\ k \in Keys /\ store[k].mod \in 0..clock
       /\ \A s \in StatKeys : store[k].buf[s] # Nil => Len(store[k].buf[s]) <= MaxBufferLen

Sched == spc \in {"select", "sending"} /\ ticks \subseteq {"snapshot", "cleanup"} /\ gone \subseteq Keys

Fields ==
    /\ fpc \in [Hosts -> {"read", "send"}] /\ conn \in [Hosts -> {"none", "up", "broken"}]
    /\ msg \in [Hosts -> Messages \cup {Nil}]
    /\ DOMAIN event = Hosts /\ DOMAIN wire = Hosts
    /\ decoded = [h \in Hosts |-> ZeroEvent]

EventAt(h) == event[h] \in EventOf(h) /\ (fpc[h] = "send" => Carries(h, event[h], msg[h]))

WireAt(h) ==
    /\ wire[h] \in Seq([event : EventOf(h), msg : Messages])
    /\ \A i \in DOMAIN wire[h] : Carries(h, wire[h][i].event, wire[h][i].msg)

FrontInv == Loops /\ Fields /\ \A h \in Hosts : EventAt(h) /\ WireAt(h)
BackInv  == Kept /\ Sched /\ StoreInv

LEMMA Parts == IInv <=> FrontInv /\ BackInv
  <1>1. TypeOK <=> Loops /\ Kept /\ Sched
    BY DEF TypeOK, Loops, Kept, Sched
  <1>2. ForwardInv <=> Fields /\ \A h \in Hosts : EventAt(h) /\ WireAt(h)
    BY DEF ForwardInv, Fields, EventAt, WireAt
  <1> QED BY <1>1, <1>2 DEF IInv, FrontInv, BackInv

\* The initial state is as the invariant says.
LEMMA InitInv == Init => IInv
  <1> SUFFICES ASSUME Init PROVE FrontInv /\ BackInv
    BY Parts
  <1>1. Loops /\ Fields
    BY StatseAssumption DEF Init, Loops, Fields
  <1>2. ASSUME NEW h \in Hosts PROVE EventAt(h) /\ WireAt(h)
    <2>1. event[h] = ZeroEvent /\ fpc[h] = "read" /\ wire[h] = <<>>
      BY DEF Init
    <2>2. ZeroEvent \in EventOf(h)
      BY DEF ZeroEvent, EventOf
    <2>3. <<>> \in Seq([event : EventOf(h), msg : Messages]) /\ DOMAIN (<<>>) = {}
      BY EmptySeq
    <2> QED BY <2>1, <2>2, <2>3 DEF EventAt, WireAt
  <1>3. BackInv
    <2>1. DOMAIN store = {}
      BY DEF Init
    <2>2. interval \in Nat /\ interval >= 1
      BY StatseAssumption DEF Init, validateSnapshotInterval
    <2>3. interval \in Nat \ {0} /\ clock \in Nat
      BY <2>2 DEF Init
    <2> QED BY <2>1, <2>3 DEF Init, BackInv, Kept, Sched, StoreInv
  <1> QED BY <1>1, <1>2, <1>3 DEF FrontInv

\* What concerns one part only leaves the other alone.
LEMMA BackFrame ==
    ASSUME BackInv, UNCHANGED <<storeVars, schedVars, clock>>
    PROVE  BackInv'
  BY DEF BackInv, Kept, Sched, StoreInv, storeVars, schedVars

LEMMA FrontFrame ==
    ASSUME FrontInv, UNCHANGED <<forwardVars, decoded>>
    PROVE  FrontInv'
  BY DEF FrontInv, Loops, Fields, EventAt, WireAt, forwardVars

LEMMA ReceiveFront ==
    ASSUME FrontInv, NEW h \in Hosts, NEW m \in Messages, Receive(h, m)
    PROVE  FrontInv'
  <1> DEFINE ev == parse(event[h], m)
  <1>1. event[h] \in EventOf(h) /\ m.bad \in BOOLEAN
    BY StatseAssumption DEF FrontInv, EventAt
  <1>2. ev \in EventOf(h)
    BY <1>1, ParseEvent
  <1>3. UNCHANGED <<conn, wire, decoded>> /\ fpc[h] = "read"
    BY DEF Receive
  <1>4. \A g \in Hosts : WireAt(g)'
    BY <1>3 DEF FrontInv, WireAt
  <1>5. CASE m.bad \/ ev.metric \in Blocked
    <2>1. event' = [event EXCEPT ![h] = ev] /\ UNCHANGED <<fpc, msg>>
      BY <1>5 DEF Receive
    <2>2. Loops' /\ Fields'
      BY <1>3, <2>1 DEF FrontInv, Loops, Fields
    <2>3. ASSUME NEW g \in Hosts PROVE EventAt(g)'
      BY <1>2, <1>3, <2>1 DEF FrontInv, EventAt, Fields
    <2> QED BY <1>4, <2>2, <2>3 DEF FrontInv
  <1>6. CASE ~(m.bad \/ ev.metric \in Blocked)
    <2> DEFINE r == Rewritten(h, ev)
    <2>1. /\ event' = [event EXCEPT ![h] = r]
          /\ fpc' = [fpc EXCEPT ![h] = "send"] /\ msg' = [msg EXCEPT ![h] = m]
      BY <1>6 DEF Receive
    <2>2. r \in EventOf(h) /\ Carries(h, r, m)
      BY <1>1, <1>6, RewrittenCarries
    <2> HIDE DEF r
    <2>3. m # Nil
      BY StatseAssumption
    <2>4. Loops' /\ Fields'
      BY <1>3, <2>1, <2>3 DEF FrontInv, Loops, Fields
    <2>5. ASSUME NEW g \in Hosts PROVE EventAt(g)'
      <3>1. CASE g = h
        BY <3>1, <2>1, <2>2 DEF FrontInv, EventAt, Fields
      <3>2. CASE g # h
        <4>1. event'[g] = event[g] /\ fpc'[g] = fpc[g] /\ msg'[g] = msg[g]
          BY <3>2, <2>1 DEF FrontInv, Fields
        <4> QED BY <4>1 DEF FrontInv, EventAt
      <3> QED BY <3>1, <3>2
    <2> QED BY <1>4, <2>4, <2>5 DEF FrontInv
  <1> QED BY <1>5, <1>6

LEMMA DialFront ==
    ASSUME FrontInv, NEW h \in Hosts, Dial(h)
    PROVE  FrontInv'
  <1>1. Loops' /\ Fields'
    BY DEF Dial, FrontInv, Loops, Fields
  <1>2. ASSUME NEW g \in Hosts PROVE EventAt(g)' /\ WireAt(g)'
    BY DEF Dial, FrontInv, EventAt, WireAt
  <1> QED BY <1>1, <1>2 DEF FrontInv

LEMMA SendFront ==
    ASSUME FrontInv, NEW h \in Hosts, Send(h)
    PROVE  FrontInv'
  <1>1. /\ fpc[h] = "send" /\ fpc' = [fpc EXCEPT ![h] = "read"]
        /\ msg' = [msg EXCEPT ![h] = Nil] /\ UNCHANGED <<event, decoded>>
    BY DEF Send
  <1>2. ASSUME NEW g \in Hosts PROVE EventAt(g)'
    <2>1. fpc'[g] = "send" => g # h /\ fpc[g] = "send"
      BY <1>1 DEF FrontInv, Fields
    <2>2. g # h => msg'[g] = msg[g]
      BY <1>1 DEF FrontInv, Fields
    <2> QED BY <1>1, <2>1, <2>2 DEF FrontInv, EventAt
  <1>3. CASE conn[h] = "up" /\ wire' = [wire EXCEPT ![h] = Append(@, [event |-> event[h], msg |-> msg[h]])]
             /\ UNCHANGED conn
    <2> DEFINE e == [event |-> event[h], msg |-> msg[h]]
               S == [event : EventOf(h), msg : Messages]
    <2>1. e \in S /\ Carries(h, e.event, e.msg)
      <3>1. msg[h] \in Messages
        BY <1>1 DEF FrontInv, Loops, Fields
      <3>2. event[h] \in EventOf(h) /\ Carries(h, event[h], msg[h])
        BY <1>1 DEF FrontInv, EventAt
      <3> QED BY <3>1, <3>2
    <2>2. wire' = [wire EXCEPT ![h] = Append(wire[h], e)]
      BY <1>3
    <2> HIDE DEF e
    <2>3. Loops' /\ Fields'
      BY <1>1, <1>3, <2>2 DEF FrontInv, Loops, Fields
    <2>4. ASSUME NEW g \in Hosts PROVE WireAt(g)'
      <3>1. CASE g = h
        <4>1. wire'[h] = Append(wire[h], e)
          BY <2>2 DEF FrontInv, Fields
        <4>2. wire[h] \in Seq(S) /\ \A i \in DOMAIN wire[h] : Carries(h, wire[h][i].event, wire[h][i].msg)
          BY DEF FrontInv, WireAt
        <4> DEFINE w == wire[h]
        <4> HIDE DEF S, w
        <4>3. /\ Append(w, e) \in Seq(S) /\ Len(w) \in Nat /\ DOMAIN w = 1..Len(w)
              /\ DOMAIN Append(w, e) = 1..Len(w) + 1
              /\ \A i \in 1..Len(w) : Append(w, e)[i] = w[i] /\ Append(w, e)[Len(w) + 1] = e
          BY <2>1, <4>2, AppendProperties, LenProperties DEF w
        <4>4. ASSUME NEW i \in 1..Len(w) + 1
              PROVE  Carries(h, Append(w, e)[i].event, Append(w, e)[i].msg)
          <5>1. CASE i \in 1..Len(w)
            BY <5>1, <4>2, <4>3 DEF w
          <5>2. CASE i = Len(w) + 1
            <6>1. Append(w, e)[i] = e
              BY <5>2, <4>2, <2>1, AppendProperties DEF w
            <6> QED BY <6>1, <2>1
          <5> QED BY <5>1, <5>2, <4>3
        <4> QED BY <3>1, <4>1, <4>3, <4>4 DEF WireAt, S, w
      <3>2. CASE g # h
        BY <3>2, <2>2 DEF FrontInv, WireAt, Fields
      <3> QED BY <3>1, <3>2
    <2> QED BY <1>2, <2>3, <2>4 DEF FrontInv
  <1>4. CASE conn[h] = "broken" /\ UNCHANGED wire
             /\ (conn' = [conn EXCEPT ![h] = "none"] \/ UNCHANGED conn)
    <2>1. Loops' /\ Fields'
      BY <1>1, <1>4 DEF FrontInv, Loops, Fields
    <2>2. ASSUME NEW g \in Hosts PROVE WireAt(g)'
      BY <1>4 DEF FrontInv, WireAt
    <2> QED BY <1>2, <2>1, <2>2 DEF FrontInv
  <1> QED BY <1>3, <1>4 DEF Send

LEMMA BreakFront ==
    ASSUME FrontInv, NEW h \in Hosts, Break(h)
    PROVE  FrontInv'
  <1>1. PICK n \in 0..Len(wire[h]) :
           /\ conn' = [conn EXCEPT ![h] = "broken"]
           /\ wire' = [wire EXCEPT ![h] = SubSeq(wire[h], 1, n)]
           /\ UNCHANGED <<fpc, event, msg, decoded>>
    BY DEF Break
  <1>2. Loops' /\ Fields'
    BY <1>1 DEF FrontInv, Loops, Fields
  <1>3. ASSUME NEW g \in Hosts PROVE EventAt(g)'
    BY <1>1 DEF FrontInv, EventAt
  <1>4. ASSUME NEW g \in Hosts PROVE WireAt(g)'
    <2>1. CASE g = h
      <3>1. PICK S, w : S = [event : EventOf(g), msg : Messages] /\ w = wire[g] /\ w \in Seq(S)
        BY DEF FrontInv, WireAt
      <3>2. /\ Len(w) \in Nat /\ DOMAIN w = 1..Len(w)
            /\ \A i \in 1..Len(w) : Carries(g, w[i].event, w[i].msg)
        BY <3>1, LenProperties DEF FrontInv, WireAt
      <3>3. n \in 0..Len(w) /\ wire'[g] = SubSeq(w, 1, n)
        BY <1>1, <2>1, <3>1 DEF FrontInv, Fields
      <3>4. /\ SubSeq(w, 1, n) \in Seq(S) /\ DOMAIN SubSeq(w, 1, n) = 1..n
            /\ \A i \in 1..n : SubSeq(w, 1, n)[i] = w[i] /\ i \in 1..Len(w)
        <4>1. n \in Int /\ 1 \in Int /\ 1..n \subseteq 1..Len(w) /\ n - 1 + 1 = n
          BY <3>2, <3>3
        <4>2. \A i \in 1..n : w[i] \in S
          BY <3>1, <3>2, <4>1, ElementOfSeq
        <4>3. /\ SubSeq(w, 1, n) \in Seq(S)
              /\ Len(SubSeq(w, 1, n)) = IF 1 <= n THEN n - 1 + 1 ELSE 0
              /\ \A i \in 1..(n - 1 + 1) : SubSeq(w, 1, n)[i] = w[1 + i - 1]
          BY <4>1, <4>2, SubSeqProperties
        <4>4. \A i \in 1..n : 1 + i - 1 = i
          BY <4>1
        <4>5. Len(SubSeq(w, 1, n)) = n
          BY <3>2, <3>3, <4>3
        <4>6. DOMAIN SubSeq(w, 1, n) = 1..n
          BY <4>3, <4>5, LenProperties
        <4> QED BY <4>1, <4>3, <4>4, <4>6
      <3> QED BY <3>1, <3>2, <3>3, <3>4 DEF WireAt
    <2>2. CASE g # h
      BY <1>1, <2>2 DEF FrontInv, WireAt, Fields
    <2> QED BY <2>1, <2>2
  <1> QED BY <1>2, <1>3, <1>4 DEF FrontInv

LEMMA WriteFront ==
    ASSUME FrontInv, NEW h \in Hosts, Write(h)
    PROVE  FrontInv'
  <1>1. /\ wire[h] # <<>> /\ wire' = [wire EXCEPT ![h] = Tail(wire[h])]
        /\ decoded' = [decoded EXCEPT ![h] = ZeroEvent]
        /\ UNCHANGED <<fpc, event, msg, conn>>
    BY DEF Write, Cleared
  <1>2. Loops' /\ Fields'
    BY <1>1 DEF FrontInv, Loops, Fields
  <1>3. ASSUME NEW g \in Hosts PROVE EventAt(g)'
    BY <1>1 DEF FrontInv, EventAt
  <1>4. ASSUME NEW g \in Hosts PROVE WireAt(g)'
    <2>1. CASE g = h
      <3> DEFINE w == wire[h]
                 S == [event : EventOf(h), msg : Messages]
      <3>1. wire'[h] = Tail(w)
        BY <1>1 DEF FrontInv, Fields
      <3>2. w \in Seq(S) /\ w # <<>> /\ \A i \in DOMAIN w : Carries(h, w[i].event, w[i].msg)
        BY <1>1 DEF FrontInv, WireAt
      <3> HIDE DEF w, S
      <3>3. /\ Tail(w) \in Seq(S) /\ Len(w) \in Nat \ {0} /\ DOMAIN w = 1..Len(w)
            /\ DOMAIN Tail(w) = 1..Len(w) - 1
            /\ \A i \in 1..Len(w) - 1 : Tail(w)[i] = w[i + 1]
        BY <3>2, HeadTailProperties, EmptySeq, LenProperties
      <3>4. ASSUME NEW i \in DOMAIN Tail(w)
            PROVE  Carries(h, Tail(w)[i].event, Tail(w)[i].msg)
        <4>1. i + 1 \in DOMAIN w /\ Tail(w)[i] = w[i + 1]
          BY <3>3
        <4> QED BY <3>2, <4>1
      <3> QED BY <2>1, <3>1, <3>3, <3>4 DEF WireAt, S
    <2>2. CASE g # h
      BY <1>1, <2>2 DEF FrontInv, WireAt, Fields
    <2> QED BY <2>1, <2>2
  <1> QED BY <1>2, <1>3, <1>4 DEF FrontInv

-------------------------------------------------------------------------------
(* The store.                                                                *)

\* The event at the head of a connection, as it is decoded: the statistics are
\* those of StatKeys and its key is one of Keys.
LEMMA HeadEvent ==
    ASSUME FrontInv, NEW h \in Hosts, wire[h] # <<>>
    PROVE  /\ Head(wire[h]) \in [event : EventOf(h), msg : Messages]
           /\ Decoded(decoded[h], Head(wire[h]).event) = Head(wire[h]).event
           /\ Carries(h, Head(wire[h]).event, Head(wire[h]).msg)
  <1> DEFINE w == wire[h]
             S == [event : EventOf(h), msg : Messages]
  <1>1. w \in Seq(S) /\ w # <<>> /\ \A i \in DOMAIN w : Carries(h, w[i].event, w[i].msg)
    BY DEF FrontInv, WireAt
  <1> HIDE DEF w, S
  <1>2. Head(w) \in S /\ Head(w) = w[1] /\ 1 \in DOMAIN w
    BY <1>1, HeadTailProperties, EmptySeq, LenProperties
  <1>3. Carries(h, Head(w).event, Head(w).msg)
    BY <1>1, <1>2
  <1>4. decoded[h] = ZeroEvent
    BY DEF FrontInv, Fields
  <1>5. Head(w).event \in EventOf(h)
    BY <1>2 DEF S
  <1> QED BY <1>2, <1>3, <1>4, <1>5, DecodedEvent DEF w, S

LEMMA EventStats ==
    ASSUME NEW h \in Hosts, NEW ev \in EventOf(h), NEW m \in Messages, Carries(h, ev, m)
    PROVE  /\ DOMAIN ev.stats \subseteq StatKeys
           /\ \A k \in DOMAIN ev.stats : ev.stats[k] \in Int
           /\ ev.error \in BOOLEAN
  <1>1. /\ DOMAIN ev.stats = {m.stats[i][1] : i \in DOMAIN m.stats}
        /\ \A k \in DOMAIN ev.stats : <<k, ev.stats[k]>> \in Range(m.stats)
    BY DEF Carries
  <1>2. \A i \in DOMAIN m.stats : m.stats[i] \in StatKeys \X Int
    BY StatisticsOf
  <1>3. Range(m.stats) \subseteq StatKeys \X Int
    BY <1>2 DEF Range
  <1>4. ASSUME NEW k \in DOMAIN ev.stats PROVE ev.stats[k] \in Int
    <2>1. <<k, ev.stats[k]>> \in StatKeys \X Int
      BY <1>1, <1>3
    <2> QED BY <2>1
  <1>5. ev.error \in BOOLEAN
    BY DEF EventOf
  <1> QED BY <1>1, <1>2, <1>4, <1>5

LEMMA EventKey ==
    ASSUME NEW h \in Hosts, NEW ev \in EventOf(h), NEW m \in Messages, Carries(h, ev, m),
           HostOf(ev) # {}
    PROVE  KeyOf(ev) \in Keys
  <1>1. ev.metric \in Metrics
    BY DEF Carries, Metrics
  <1>2. ev.tags \subseteq Tags \cup {<<"host", h>>}
    BY DEF EventOf
  <1>3. {t \in ev.tags : t[1] # "host"} \in SUBSET Tags
    BY <1>2
  <1> DEFINE H == Hosts \cup {t[2] : t \in {u \in Tags : u[1] = "host"}}
             c == CHOOSE g \in HostOf(ev) : TRUE
  <1>4. c \in HostOf(ev)
    OBVIOUS
  <1>5. HostOf(ev) \subseteq H
    <2>1. ASSUME NEW t \in ev.tags, t[1] = "host" PROVE t[2] \in H
      <3>1. CASE t \in Tags
        BY <2>1, <3>1
      <3>2. CASE t = <<"host", h>>
        BY <3>2
      <3> QED BY <1>2, <3>1, <3>2
    <2> QED BY <2>1 DEF HostOf
  <1>6. c \in H
    BY <1>4, <1>5
  <1> HIDE DEF c, H
  <1>7. KeyOf(ev) = [metric |-> ev.metric, tags |-> {t \in ev.tags : t[1] # "host"}, host |-> c]
    BY DEF KeyOf, c
  <1>8. Keys = [metric : Metrics, tags : SUBSET Tags, host : H]
    BY DEF Keys, H
  <1> QED BY <1>1, <1>3, <1>6, <1>7, <1>8

\* A buffer as the store keeps it.
Buffer(b) == b = Nil \/ (b \in Seq(Int) /\ Len(b) <= MaxBufferLen)

\* buffer.Append keeps a buffer within MaxBufferLen.
LEMMA AppendedBuffer ==
    ASSUME NEW b, Buffer(b), b \in Seq(Int) \cup {Nil}, NEW v \in Int, NEW n \in Appended(b, v)
    PROVE  n \in Seq(Int) /\ Len(n) <= MaxBufferLen
  <1> DEFINE c == IF b = Nil THEN <<>> ELSE b
  <1>1. c \in Seq(Int) /\ Len(c) <= MaxBufferLen /\ Len(c) \in Nat /\ DOMAIN c = 1..Len(c)
    BY StatseAssumption, EmptySeq, LenProperties DEF Buffer
  <1>2. n \in IF Len(c) < MaxBufferLen THEN {Append(c, v)} ELSE {[c EXCEPT ![i] = v] : i \in DOMAIN c}
    BY DEF Appended
  <1> HIDE DEF c
  <1>3. CASE Len(c) < MaxBufferLen
    <2>1. n = Append(c, v)
      BY <1>2, <1>3
    <2>2. Append(c, v) \in Seq(Int) /\ Len(Append(c, v)) = Len(c) + 1
      BY <1>1, AppendProperties
    <2> QED BY <1>1, <1>3, <2>1, <2>2, StatseAssumption
  <1>4. CASE ~(Len(c) < MaxBufferLen)
    <2>1. PICK i \in DOMAIN c : n = [c EXCEPT ![i] = v]
      BY <1>2, <1>4
    <2>2. n \in Seq(Int) /\ Len(n) = Len(c)
      BY <1>1, <2>1, ExceptSeq
    <2> QED BY <1>1, <2>2
  <1> QED BY <1>3, <1>4

\* An entry as the store keeps it.
Entry(e) == e \in Entries /\ \A s \in StatKeys : Buffer(e.buf[s])

LEMMA NewEntry == Entry(newEntry)
  <1>1. <<>> \in Seq(Int)
    BY EmptySeq
  <1>2. [k \in StatKeys |-> Nil] \in Buffers /\ [k \in StatKeys |-> <<>>] \in [StatKeys -> Seq(Int)]
    BY <1>1 DEF Buffers
  <1>3. newEntry \in Entries
    BY <1>2 DEF newEntry, Entries
  <1>4. \A s \in StatKeys : newEntry.buf[s] = Nil
    BY DEF newEntry
  <1>5. \A s \in StatKeys : Buffer(newEntry.buf[s])
    BY <1>4 DEF Buffer
  <1> QED BY <1>3, <1>5, Zenon DEF Entry

\* An event makes an entry of an entry, with the time of the event.
LEMMA UpdatedEntry ==
    ASSUME NEW e, Entry(e), clock \in Nat,
           NEW ev, DOMAIN ev.stats \subseteq StatKeys, ev.error \in BOOLEAN,
           \A k \in DOMAIN ev.stats : ev.stats[k] \in Int,
           NEW u \in Updated(e, ev)
    PROVE  Entry(u) /\ u.mod = clock
  <1> DEFINE n == [e EXCEPT !.mod = clock, !.fresh = TRUE]
  <1>1. n \in Entries /\ n.mod = clock /\ n.buf = e.buf /\ n.okay = e.okay /\ n.err = e.err
    BY DEF Entry, Entries
  <1> HIDE DEF n
  <1>2. CASE ev.error
    <2>1. u = [n EXCEPT !.err = @ + 1]
      BY <1>2 DEF Updated, ModTime, n
    <2>2. u \in Entries /\ u.mod = clock /\ u.buf = e.buf
      BY <1>1, <2>1 DEF Entries
    <2> QED BY <2>2 DEF Entry
  <1>3. CASE ~ev.error
    <2> DEFINE P == [k \in StatKeys |-> IF k \in DOMAIN ev.stats
                             THEN Appended(e.buf[k], ev.stats[k]) ELSE {e.buf[k]}]
               q == [k \in StatKeys |-> IF k \in DOMAIN ev.stats
                                     THEN Append(e.since[k], ev.stats[k]) ELSE e.since[k]]
    <2>1. PICK b \in Product(P) : u = [n EXCEPT !.okay = @ + 1, !.buf = b, !.since = q]
      BY <1>3 DEF Updated, ModTime, n
    <2>2. q \in [StatKeys -> Seq(Int)]
      <3>1. ASSUME NEW k \in StatKeys PROVE q[k] \in Seq(Int)
        <4>1. e.since[k] \in Seq(Int)
          BY DEF Entry, Entries
        <4>2. k \in DOMAIN ev.stats => Append(e.since[k], ev.stats[k]) \in Seq(Int)
          BY <4>1, AppendProperties
        <4> QED BY <4>1, <4>2
      <3> QED BY <3>1
    <2>3. b \in [StatKeys -> UNION {P[k] : k \in StatKeys}] /\ \A k \in StatKeys : b[k] \in P[k]
      BY <2>1 DEF Product
    <2>4. ASSUME NEW k \in StatKeys PROVE Buffer(b[k]) /\ b[k] \in Seq(Int) \cup {Nil}
      <3>1. e.buf[k] \in Seq(Int) \cup {Nil} /\ Buffer(e.buf[k])
        BY DEF Entry, Entries, Buffers
      <3>2. CASE k \in DOMAIN ev.stats
        <4>1. b[k] \in Appended(e.buf[k], ev.stats[k])
          BY <2>3, <3>2
        <4> QED BY <3>1, <3>2, <4>1, AppendedBuffer DEF Buffer
      <3>3. CASE k \notin DOMAIN ev.stats
        BY <2>3, <3>1, <3>3
      <3> QED BY <3>2, <3>3
    <2>5. b \in Buffers
      BY <2>3, <2>4 DEF Buffers
    <2> HIDE DEF q, P
    <2>6. u \in Entries /\ u.mod = clock /\ u.buf = b
      <3> DEFINE Since == [StatKeys -> Seq(Int)]
      <3>1. q \in Since /\ n.okay + 1 \in Nat
        BY <1>1, <2>2 DEF Entries
      <3>2. Entries = [mod : Nat, okay : Nat, err : Nat, buf : Buffers, since : Since, fresh : BOOLEAN]
        BY DEF Entries
      <3>3. u = [n EXCEPT !.okay = n.okay + 1, !.buf = b, !.since = q]
        BY <2>1
      <3> HIDE DEF Since
      <3> QED BY <1>1, <2>5, <3>1, <3>2, <3>3
    <2> QED BY <2>4, <2>6 DEF Entry
  <1> QED BY <1>2, <1>3

\* What the invariant says of one entry.
StoreAt(k) ==
    /\ k \in Keys /\ Entry(store[k]) /\ store[k].mod \in 0..clock
    /\ store[k].fresh /\ "snapshot" \notin ticks => clock - store[k].mod <= clock % interval

StoreAll ==
    Sched /\ clock \in Nat /\ interval \in Nat \ {0} /\ \A k \in DOMAIN store : StoreAt(k)

LEMMA BackParts == BackInv <=> StoreAll
  <1>1. ASSUME NEW k \in DOMAIN store, store[k] \in Entries
        PROVE  (\A s \in StatKeys : store[k].buf[s] # Nil => Len(store[k].buf[s]) <= MaxBufferLen)
                <=> \A s \in StatKeys : Buffer(store[k].buf[s])
    <2>1. \A s \in StatKeys : store[k].buf[s] \in Seq(Int) \cup {Nil}
      BY <1>1 DEF Entries, Buffers
    <2>2. ASSUME NEW s \in StatKeys
          PROVE  (store[k].buf[s] # Nil => Len(store[k].buf[s]) <= MaxBufferLen)
                 <=> Buffer(store[k].buf[s])
      BY <2>1 DEF Buffer
    <2> QED BY <2>2
  <1>2. ASSUME BackInv
        PROVE  StoreAll
    BY <1>1, <1>2 DEF StoreAll, BackInv, Kept, StoreInv, StoreAt, Entry
  <1>3. ASSUME StoreAll
        PROVE  BackInv
    BY <1>1, <1>3 DEF StoreAll, BackInv, Kept, StoreInv, StoreAt, Entry
  <1> QED BY <1>2, <1>3

LEMMA BackPartsNext == BackInv' <=> StoreAll'
  BY BackParts, PTL

LEMMA WriteBack ==
    ASSUME FrontInv, BackInv, NEW h \in Hosts, Write(h)
    PROVE  BackInv'
  <1> DEFINE ev == Head(wire[h]).event
             m  == Head(wire[h]).msg
             k  == KeyOf(ev)
             e  == IF k \in DOMAIN store THEN store[k] ELSE newEntry
  <1>1. /\ wire[h] # <<>> /\ UNCHANGED <<reported, gone, schedVars, clock>>
        /\ Decoded(decoded[h], ev) = ev
        /\ Head(wire[h]) \in [event : EventOf(h), msg : Messages] /\ Carries(h, ev, m)
    BY HeadEvent DEF Write
  <1>2. ev \in EventOf(h) /\ m \in Messages
    BY <1>1
  <1>3. IF HostOf(ev) = {} THEN UNCHANGED store
        ELSE \E u \in Updated(e, ev) : store' = Stored(k, u)
    BY <1>1 DEF Write
  <1>4. CASE HostOf(ev) = {}
    BY <1>1, <1>3, <1>4, BackFrame DEF storeVars
  <1>5. CASE HostOf(ev) # {}
    <2> HIDE DEF ev, m
    <2>1. PICK u \in Updated(e, ev) : store' = Stored(k, u)
      BY <1>3, <1>5
    <2>2. k \in Keys
      BY <1>1, <1>2, <1>5, EventKey
    <2> HIDE DEF k
    <2>3. Sched /\ clock \in Nat /\ interval \in Nat \ {0} /\ \A x \in DOMAIN store : StoreAt(x)
      BY BackParts DEF StoreAll
    <2>4. Entry(e)
      BY <2>3, NewEntry DEF StoreAt
    <2> HIDE DEF e
    <2>5. Entry(u) /\ u.mod = clock
      BY <1>1, <1>2, <2>3, <2>4, EventStats, UpdatedEntry
    <2>6. /\ DOMAIN store' = {k} \cup DOMAIN store /\ store'[k] = u
          /\ \A x \in DOMAIN store : x # k => store'[x] = store[x]
      BY <2>1 DEF Stored
    <2>7. UNCHANGED <<interval, spc, ticks, gone, clock>>
      BY <1>1 DEF schedVars
    <2>8. ASSUME NEW x \in DOMAIN store' PROVE StoreAt(x)'
      <3>1. CASE x = k
        <4>1. clock - u.mod = 0 /\ clock % interval \in Nat /\ u.mod \in 0..clock
          BY <2>3, <2>5
        <4>2. Entry(u)'
          BY <2>5, <2>7 DEF Entry
        <4> QED BY <2>2, <2>3, <2>5, <2>6, <2>7, <3>1, <4>1 DEF StoreAt, Entry
      <3>2. CASE x # k
        <4>1. x \in DOMAIN store /\ store'[x] = store[x] /\ StoreAt(x)
          BY <2>3, <2>6, <3>2
        <4> QED BY <2>7, <4>1 DEF StoreAt, Entry
      <3> QED BY <3>1, <3>2
    <2>9. Sched'
      BY <2>3, <2>7 DEF Sched
    <2>10. clock' \in Nat /\ interval' \in Nat \ {0}
      BY <2>3, <2>7
    <2> QED BY <2>8, <2>9, <2>10, BackPartsNext DEF StoreAll
  <1> QED BY <1>4, <1>5

LEMMA snapshotBack ==
    ASSUME BackInv, snapshot
    PROVE  BackInv'
  <1>1. /\ ticks' = ticks \ {"snapshot"} /\ spc' = "sending" /\ gone' = {}
        /\ store' = [k \in DOMAIN store |-> Reset(store[k])] /\ UNCHANGED <<interval, clock>>
    BY DEF snapshot
  <1>2. Sched /\ clock \in Nat /\ interval \in Nat \ {0} /\ \A k \in DOMAIN store : StoreAt(k)
    BY BackParts DEF StoreAll
  <1>3. ASSUME NEW k \in DOMAIN store' PROVE StoreAt(k)'
    <2> DEFINE e == store[k]
               b == [s \in StatKeys |-> IF e.buf[s] = Nil THEN Nil ELSE <<>>]
    <2>1. k \in DOMAIN store /\ store'[k] = Reset(e) /\ StoreAt(k)
      BY <1>1, <1>2
    <2>2. e \in Entries /\ e.mod \in 0..clock
      BY <2>1 DEF StoreAt, Entry
    <2>3. <<>> \in Seq(Int) /\ Len(<<>>) = 0
      BY EmptySeq
    <2>4. b \in Buffers /\ [s \in StatKeys |-> <<>>] \in [StatKeys -> Seq(Int)]
      BY <2>3 DEF Buffers
    <2>5. \A s \in StatKeys : b[s] = Nil \/ b[s] = <<>>
      OBVIOUS
    <2>6. \A s \in StatKeys : Buffer(b[s])
      BY <2>3, <2>5, StatseAssumption DEF Buffer
    <2>7. Reset(e) = [e EXCEPT !.buf = b, !.since = [s \in StatKeys |-> <<>>], !.fresh = FALSE]
      BY DEF Reset
    <2> HIDE DEF e, b
    <2>8. Reset(e) \in Entries /\ Reset(e).mod = e.mod /\ Reset(e).buf = b /\ Reset(e).fresh = FALSE
      BY <2>2, <2>4, <2>7 DEF Entries
    <2>9. Entry(store'[k])
      BY <2>1, <2>6, <2>8 DEF Entry
    <2>10. k \in Keys
      BY <2>1 DEF StoreAt
    <2> QED BY <1>1, <2>1, <2>2, <2>8, <2>9, <2>10 DEF StoreAt, Entry
  <1>4. Sched'
    BY <1>1, <1>2 DEF Sched
  <1> QED BY <1>1, <1>2, <1>3, <1>4, BackPartsNext DEF StoreAll

LEMMA SentBack ==
    ASSUME BackInv, Sent
    PROVE  BackInv'
  <1>1. spc' = "select" /\ UNCHANGED <<storeVars, interval, ticks, clock>>
    BY DEF Sent
  <1> QED BY <1>1 DEF BackInv, Kept, Sched, StoreInv, storeVars

LEMMA cleanupBack ==
    ASSUME BackInv, cleanup
    PROVE  BackInv'
  <1> DEFINE idle == {k \in DOMAIN store : clock - store[k].mod > Timeout}
  <1>1. /\ ticks' = ticks \ {"cleanup"} /\ UNCHANGED <<interval, spc, clock>>
        /\ store' = [k \in DOMAIN store \ idle |-> store[k]] /\ gone' = gone \cup idle
    BY DEF cleanup
  <1>2. Sched /\ clock \in Nat /\ interval \in Nat \ {0} /\ \A k \in DOMAIN store : StoreAt(k)
    BY BackParts DEF StoreAll
  <1>3. idle \subseteq Keys
    BY <1>2 DEF StoreAt
  <1>4. DOMAIN store' = DOMAIN store \ idle
    BY <1>1
  <1> HIDE DEF idle
  <1>5. ASSUME NEW k \in DOMAIN store' PROVE StoreAt(k)'
    <2>1. k \in DOMAIN store /\ store'[k] = store[k] /\ StoreAt(k)
      BY <1>1, <1>2, <1>4
    <2>2. "snapshot" \in ticks' <=> "snapshot" \in ticks
      BY <1>1
    <2> QED BY <1>1, <2>1, <2>2 DEF StoreAt, Entry
  <1>6. Sched'
    BY <1>1, <1>2, <1>3 DEF Sched
  <1> QED BY <1>1, <1>2, <1>5, <1>6, BackPartsNext DEF StoreAll

LEMMA AdvanceBack ==
    ASSUME BackInv, Advance
    PROVE  BackInv'
  <1> DEFINE due == {t \in {"snapshot", "cleanup"} :
                       clock' % (IF t = "snapshot" THEN interval ELSE CleanupInterval) = 0}
  <1>1. clock' = clock + 1 /\ ticks' = ticks \cup due /\ UNCHANGED <<storeVars, interval, spc>>
    BY DEF Advance
  <1>2. Sched /\ clock \in Nat /\ interval \in Nat \ {0} /\ \A k \in DOMAIN store : StoreAt(k)
    BY BackParts DEF StoreAll
  <1>3. "snapshot" \notin ticks' => "snapshot" \notin ticks /\ clock' % interval # 0
    BY <1>1
  <1>4. "snapshot" \notin ticks' => clock' % interval = (clock % interval) + 1
    BY <1>1, <1>2, <1>3, ModStep
  <1>5. clock % interval \in Nat
    BY <1>2, ModStep
  <1>6. ASSUME NEW k \in DOMAIN store' PROVE StoreAt(k)'
    <2>1. k \in DOMAIN store /\ store'[k] = store[k] /\ StoreAt(k)
      BY <1>1, <1>2 DEF storeVars
    <2>2. store[k].mod \in 0..clock'
      BY <1>1, <1>2, <2>1 DEF StoreAt
    <2>3. store[k].fresh /\ "snapshot" \notin ticks' => clock' - store[k].mod <= clock' % interval
      <3>1. store[k].fresh /\ "snapshot" \notin ticks' => clock - store[k].mod <= clock % interval
        BY <1>3, <2>1 DEF StoreAt
      <3> QED BY <1>1, <1>2, <1>4, <1>5, <2>2, <3>1
    <2> QED BY <1>1, <2>1, <2>2, <2>3 DEF StoreAt, Entry
  <1>7. Sched'
    <2>1. due \subseteq {"snapshot", "cleanup"}
      OBVIOUS
    <2> HIDE DEF due
    <2> QED BY <1>1, <1>2, <2>1 DEF Sched, storeVars
  <1> QED BY <1>1, <1>2, <1>6, <1>7, BackPartsNext DEF StoreAll

-------------------------------------------------------------------------------
(* The theorems.                                                             *)

LEMMA StepInv == IInv /\ [Next]_vars => IInv'
  <1> SUFFICES ASSUME FrontInv, BackInv, [Next]_vars PROVE FrontInv' /\ BackInv'
    <2>1. IInv' <=> FrontInv' /\ BackInv'
      BY Parts, PTL
    <2> QED BY <2>1, Parts
  <1>1. ASSUME NEW h \in Hosts, NEW m \in Messages, Receive(h, m) PROVE FrontInv' /\ BackInv'
    BY <1>1, ReceiveFront, BackFrame DEF Receive
  <1>2. ASSUME NEW h \in Hosts, Dial(h) PROVE FrontInv' /\ BackInv'
    BY <1>2, DialFront, BackFrame DEF Dial
  <1>3. ASSUME NEW h \in Hosts, Send(h) PROVE FrontInv' /\ BackInv'
    BY <1>3, SendFront, BackFrame DEF Send
  <1>4. ASSUME NEW h \in Hosts, Break(h) PROVE FrontInv' /\ BackInv'
    BY <1>4, BreakFront, BackFrame DEF Break
  <1>5. ASSUME NEW h \in Hosts, Write(h) PROVE FrontInv' /\ BackInv'
    BY <1>5, WriteFront, WriteBack
  <1>6. CASE snapshot
    BY <1>6, FrontFrame, snapshotBack DEF snapshot
  <1>7. CASE Sent
    BY <1>7, FrontFrame, SentBack DEF Sent
  <1>8. CASE cleanup
    BY <1>8, FrontFrame, cleanupBack DEF cleanup
  <1>9. CASE Advance
    BY <1>9, FrontFrame, AdvanceBack DEF Advance
  <1>10. CASE UNCHANGED vars
    BY <1>10, FrontFrame, BackFrame DEF vars
  <1> QED
    BY <1>1, <1>2, <1>3, <1>4, <1>5, <1>6, <1>7, <1>8, <1>9, <1>10
    DEF Next, Forwarder, Network, Server, scheduler

\* The invariant holds in every state the collector can reach.
THEOREM InductiveInvariant == Spec => []IInv
  BY InitInv, StepInv, PTL DEF Spec

\* Type correctness, with the limit of MaxBufferLen on every buffer, for every set of
\* forwarders and messages (aggregator/store.go buffer.Append).
THEOREM TypeCorrect == Spec => []TypeOK
  <1>1. IInv => TypeOK
    BY DEF IInv
  <1> QED BY <1>1, InductiveInvariant, PTL

\* An event is stored as its application sent it, although the forwarder and the
\* connection each reuse one Event (statse/decoder.go parse, aggregator/server.go loop).
THEOREM EventsIntact == Spec => []EventIntact
  <1>1. IInv => EventIntact
    <2> SUFFICES ASSUME FrontInv, NEW h \in Hosts, wire[h] # <<>>
                 PROVE  Carries(h, Decoded(decoded[h], Head(wire[h]).event), Head(wire[h]).msg)
      BY Parts DEF EventIntact
    <2> QED BY HeadEvent
  <1> QED BY <1>1, InductiveInvariant, PTL

\* What a cleanup takes unreported, it takes with a snapshot due or an interval beyond
\* the timeout (aggregator/store.go cleanupJob.do, scheduler.go loop).
THEOREM CleanupLoses == Spec => LostOnlyIfLate
  <1> DEFINE A == \A k \in DOMAIN store \ DOMAIN store' :
                     store[k].fresh => "snapshot" \in ticks \/ interval > Timeout
  <1>1. IInv /\ [Next]_vars => [A]_vars
    <2> SUFFICES ASSUME BackInv, [Next]_vars, NEW k \in DOMAIN store, k \notin DOMAIN store',
                        store[k].fresh, "snapshot" \notin ticks
                 PROVE  interval > Timeout
      BY Parts
    <2>1. StoreAt(k) /\ clock \in Nat /\ interval \in Nat \ {0}
      BY BackParts DEF StoreAll
    <2>2. cleanup
      <3>1. ASSUME NEW h \in Hosts, Write(h) PROVE DOMAIN store \subseteq DOMAIN store'
        BY <3>1 DEF Write, Stored
      <3>2. ASSUME snapshot PROVE DOMAIN store \subseteq DOMAIN store'
        BY <3>2 DEF snapshot
      <3>3. ASSUME NEW h \in Hosts, NEW m \in Messages, Receive(h, m) PROVE store' = store
        BY <3>3 DEF Receive, storeVars
      <3>4. ASSUME NEW h \in Hosts, Dial(h) \/ Send(h) \/ Break(h) PROVE store' = store
        BY <3>4 DEF Dial, Send, Break, storeVars
      <3>5. ASSUME Sent \/ Advance \/ UNCHANGED vars PROVE store' = store
        BY <3>5 DEF Sent, Advance, vars, storeVars
      <3> QED BY <3>1, <3>2, <3>3, <3>4, <3>5
              DEF Next, Forwarder, Network, Server, scheduler
    <2>3. clock - store[k].mod > Timeout
      BY <2>2 DEF cleanup
    <2>4. clock - store[k].mod <= clock % interval /\ store[k].mod \in 0..clock
      BY <2>1 DEF StoreAt
    <2>5. clock % interval \in 0..(interval - 1)
      BY <2>1, ModStep
    <2>6. Timeout \in Nat
      BY StatseAssumption
    <2> QED BY <2>1, <2>3, <2>4, <2>5, <2>6
  <1> QED BY <1>1, InductiveInvariant, PTL DEF Spec, LostOnlyIfLate

-------------------------------------------------------------------------------
(* The counts.                                                               *)

\* The events that the entries of K in the store s have counted.
CountedIn(s, K, count) == UNION {{k} \X (1..s[k][count]) : k \in K}

\* Entries that count on, and more of them, have counted more.
LEMMA CountedMore ==
    ASSUME NEW s, NEW t, NEW K, NEW L, NEW count, K \subseteq L,
           \A k \in K : s[k][count] \in Nat /\ t[k][count] \in Nat /\ s[k][count] <= t[k][count]
    PROVE  CountedIn(s, K, count) \subseteq CountedIn(t, L, count)
  <1> SUFFICES ASSUME NEW x \in CountedIn(s, K, count) PROVE x \in CountedIn(t, L, count)
    OBVIOUS
  <1>1. PICK k \in K : x \in {k} \X (1..s[k][count])
    BY DEF CountedIn
  <1>2. x \in {k} \X (1..t[k][count])
    BY <1>1
  <1> QED BY <1>1, <1>2 DEF CountedIn

\* Entries of which one counts one event more have counted one more.
LEMMA CountedOne ==
    ASSUME NEW s, NEW t, NEW k, NEW K, NEW count, NEW n \in Nat,
           \A x \in K : x # k => t[x][count] = s[x][count],
           t[k][count] \in Nat, t[k][count] <= n + 1,
           k \in K => n <= s[k][count] /\ s[k][count] \in Nat,
           k \notin K => n = 0
    PROVE  CountedIn(t, K \cup {k}, count) \subseteq CountedIn(s, K, count) \cup {<<k, n + 1>>}
  <1> SUFFICES ASSUME NEW x \in CountedIn(t, K \cup {k}, count), x # <<k, n + 1>>
               PROVE  x \in CountedIn(s, K, count)
    OBVIOUS
  <1>1. PICK j \in K \cup {k} : x \in {j} \X (1..t[j][count])
    BY DEF CountedIn
  <1>2. CASE j # k
    BY <1>1, <1>2 DEF CountedIn
  <1>3. CASE j = k
    <2>1. PICK i \in 1..t[k][count] : x = <<k, i>>
      BY <1>1, <1>3
    <2>2. i <= n /\ i >= 1 /\ i \in Nat
      BY <2>1
    <2>3. k \in K
      BY <2>2
    <2>4. i \in 1..s[k][count]
      BY <2>2, <2>3
    <2> QED BY <2>1, <2>3, <2>4 DEF CountedIn
  <1> QED BY <1>2, <1>3

\* An event counts once.
LEMMA UpdatedCounts ==
    ASSUME NEW e \in Entries, NEW ev, ev.error \in BOOLEAN, NEW u \in Updated(e, ev),
           NEW count \in {"okay", "err"}
    PROVE  u[count] \in {e[count], e[count] + 1}
  <1> DEFINE n == [e EXCEPT !.mod = clock, !.fresh = TRUE]
  <1>1. DOMAIN n = {"mod", "okay", "err", "buf", "since", "fresh"} /\ n.okay = e.okay /\ n.err = e.err
    BY DEF Entries
  <1>2. CASE ev.error
    <2>1. u = [n EXCEPT !.err = @ + 1]
      BY <1>2 DEF Updated, ModTime
    <2> HIDE DEF n
    <2>2. u.okay = e.okay /\ u.err = e.err + 1
      BY <1>1, <2>1
    <2> QED BY <2>2
  <1>3. CASE ~ev.error
    <2>1. PICK b, q : u = [n EXCEPT !.okay = @ + 1, !.buf = b, !.since = q]
      BY <1>3 DEF Updated, ModTime
    <2> HIDE DEF n
    <2>2. u.okay = e.okay + 1 /\ u.err = e.err
      BY <1>1, <2>1
    <2> QED BY <2>2
  <1> QED BY <1>2, <1>3

\* What the store counts is finite.
CountFinite(count) == IsFiniteSet(CountedIn(store, DOMAIN store, count))

\* What has been reported of a series is behind what the store counts of it.
Gone(k) == \E g \in gone : g = k \/ Cluster(g) = k
Behind(k, count) ==
    /\ reported[k][count] \in Nat
    /\ \/ Gone(k)
       \/ IF k.host = Nil THEN reported[k][count] <= Cardinality(CountedIn(store, Of(k), count))
          ELSE k \in DOMAIN store /\ reported[k][count] <= store[k][count]

LEMMA CountParts ==
    CountInv <=> \A count \in {"okay", "err"} :
                    CountFinite(count) /\ \A k \in DOMAIN reported : Behind(k, count)
  BY Zenon DEF CountInv, CountFinite, Behind, Gone, CountedIn, Total, Counted

LEMMA CountPartsNext ==
    CountInv' <=> (\A count \in {"okay", "err"} :
                    CountFinite(count) /\ \A k \in DOMAIN reported : Behind(k, count))'
  BY CountParts, PTL

LEMMA InitCount == Init => CountInv
  <1> SUFFICES ASSUME Init, NEW count \in {"okay", "err"} PROVE CountFinite(count)
    <2>1. Init => DOMAIN reported = {}
      BY DEF Init
    <2> QED BY <2>1, CountParts
  <1>1. DOMAIN store = {}
    BY DEF Init
  <1>2. CountedIn(store, DOMAIN store, count) = {}
    BY <1>1 DEF CountedIn
  <1> QED BY <1>2, FS_EmptySet DEF CountFinite

\* The entries of a cluster are entries, the host of a cluster is none.
LEMMA OneOfKeys ==
    ASSUME BackInv, NEW k \in DOMAIN store
    PROVE  /\ k \in Keys /\ k.host # Nil /\ Cluster(k).host = Nil
           /\ store[k] \in Entries /\ store[k].okay \in Nat /\ store[k].err \in Nat
  <1>1. k \in Keys /\ store[k] \in Entries
    BY BackParts DEF StoreAll, StoreAt, Entry
  <1>2. Nil \notin Hosts \cup {t[2] : t \in {u \in Tags : u[1] = "host"}}
    BY StatseAssumption DEF Tags
  <1>3. k.host # Nil
    BY <1>1, <1>2 DEF Keys
  <1>4. store[k].okay \in Nat /\ store[k].err \in Nat
    BY <1>1 DEF Entries
  <1> QED BY <1>1, <1>3, <1>4 DEF Cluster

LEMMA CountFrame ==
    ASSUME CountInv, UNCHANGED storeVars
    PROVE  CountInv'
  <1>1. UNCHANGED <<store, reported, gone>>
    BY DEF storeVars
  <1> SUFFICES ASSUME NEW count \in {"okay", "err"}
               PROVE  CountFinite(count)' /\ \A k \in DOMAIN reported' : Behind(k, count)'
    BY CountPartsNext
  <1>2. CountFinite(count)'
    BY <1>1, CountParts DEF CountFinite, CountedIn
  <1>3. ASSUME NEW k \in DOMAIN reported' PROVE Behind(k, count)'
    <2>1. k \in DOMAIN reported /\ Behind(k, count)
      BY <1>1, CountParts
    <2> QED BY <1>1, <2>1 DEF Behind, Gone, CountedIn, Of, Cluster
  <1> QED BY <1>2, <1>3

\* An event makes the store count on.
LEMMA WriteCount ==
    ASSUME FrontInv, BackInv, CountInv, NEW h \in Hosts, Write(h)
    PROVE  CountInv'
  <1> DEFINE ev == Head(wire[h]).event
             m  == Head(wire[h]).msg
             k  == KeyOf(ev)
             e  == IF k \in DOMAIN store THEN store[k] ELSE newEntry
  <1>1. /\ wire[h] # <<>> /\ UNCHANGED <<reported, gone>>
        /\ Decoded(decoded[h], ev) = ev
        /\ Head(wire[h]) \in [event : EventOf(h), msg : Messages] /\ Carries(h, ev, m)
    BY HeadEvent DEF Write
  <1>2. ev.error \in BOOLEAN
    BY <1>1 DEF EventOf
  <1>3. IF HostOf(ev) = {} THEN UNCHANGED store
        ELSE \E u \in Updated(e, ev) : store' = Stored(k, u)
    BY <1>1 DEF Write
  <1>4. CASE HostOf(ev) = {}
    BY <1>1, <1>3, <1>4, CountFrame DEF storeVars
  <1>5. CASE HostOf(ev) # {}
    <2> HIDE DEF ev, m
    <2>1. PICK u \in Updated(e, ev) : store' = Stored(k, u)
      BY <1>3, <1>5
    <2> HIDE DEF k
    <2>2. e \in Entries
      BY NewEntry, OneOfKeys DEF Entry
    <2>3. k \in DOMAIN store => e = store[k]
      OBVIOUS
    <2>4. k \notin DOMAIN store => e.okay = 0 /\ e.err = 0
      BY DEF newEntry
    <2> HIDE DEF e
    <2>5. /\ DOMAIN store' = DOMAIN store \cup {k} /\ store'[k] = u
          /\ \A x \in DOMAIN store : x # k => store'[x] = store[x]
      BY <2>1 DEF Stored
    <2> SUFFICES ASSUME NEW count \in {"okay", "err"}
                 PROVE  CountFinite(count)' /\ \A x \in DOMAIN reported' : Behind(x, count)'
      BY CountPartsNext
    <2>6. u[count] \in {e[count], e[count] + 1} /\ e[count] \in Nat
      <3>1. u[count] \in {e[count], e[count] + 1}
        BY <1>2, <2>2, UpdatedCounts
      <3>2. e.okay \in Nat /\ e.err \in Nat
        BY <2>2 DEF Entries
      <3> QED BY <3>1, <3>2
    <2>7. \A x \in DOMAIN store : store[x][count] \in Nat
      BY OneOfKeys
    <2>8. \A x \in DOMAIN store : store'[x][count] \in Nat /\ store[x][count] <= store'[x][count]
      BY <2>3, <2>5, <2>6, <2>7
    <2>9. PICK n \in Nat : n = e[count]
      BY <2>6
    <2>10. CountedIn(store', DOMAIN store \cup {k}, count)
             \subseteq CountedIn(store, DOMAIN store, count) \cup {<<k, n + 1>>}
      <3>1. /\ \A x \in DOMAIN store : x # k => store'[x][count] = store[x][count]
            /\ store'[k][count] \in Nat /\ store'[k][count] <= n + 1
            /\ k \in DOMAIN store => n <= store[k][count] /\ store[k][count] \in Nat
            /\ k \notin DOMAIN store => n = 0
        BY <2>3, <2>4, <2>5, <2>6, <2>7, <2>9
      <3> QED BY <3>1, CountedOne
    <2>11. IsFiniteSet(CountedIn(store', DOMAIN store', count))
      <3>1. IsFiniteSet(CountedIn(store, DOMAIN store, count))
        BY CountParts DEF CountFinite
      <3>2. IsFiniteSet(CountedIn(store, DOMAIN store, count) \cup {<<k, n + 1>>})
        BY <3>1, FS_AddElement
      <3> QED BY <2>5, <2>10, <3>2, FS_Subset
    <2>12. CountFinite(count)'
      BY <2>11 DEF CountFinite, CountedIn
    <2>13. ASSUME NEW x \in DOMAIN reported' PROVE Behind(x, count)'
      <3>1. x \in DOMAIN reported /\ Behind(x, count) /\ reported'[x] = reported[x] /\ gone' = gone
        BY <1>1, CountParts
      <3>2. CASE Gone(x)
        BY <3>1, <3>2 DEF Behind, Gone, Cluster
      <3>3. CASE ~Gone(x) /\ x.host # Nil
        <4>1. x \in DOMAIN store /\ reported[x][count] <= store[x][count] /\ reported[x][count] \in Nat
          BY <3>1, <3>3 DEF Behind
        <4>2. x \in DOMAIN store' /\ reported'[x][count] <= store'[x][count] /\ reported'[x][count] \in Nat
          BY <2>5, <2>7, <2>8, <3>1, <4>1
        <4> QED BY <3>3, <4>2 DEF Behind
      <3>4. CASE ~Gone(x) /\ x.host = Nil
        <4> DEFINE K == {y \in DOMAIN store : Cluster(y) = x}
                   L == {y \in DOMAIN store' : Cluster(y) = x}
        <4>1. reported[x][count] <= Cardinality(CountedIn(store, K, count)) /\ reported[x][count] \in Nat
          BY <3>1, <3>4 DEF Behind, Of
        <4>2. K \subseteq L /\ L \subseteq DOMAIN store' /\ K \subseteq DOMAIN store
          BY <2>5
        <4> HIDE DEF K, L
        <4>3. CountedIn(store, K, count) \subseteq CountedIn(store', L, count)
          BY <2>7, <2>8, <4>2, CountedMore
        <4>4. CountedIn(store', L, count) \subseteq CountedIn(store', DOMAIN store', count)
          BY <4>2 DEF CountedIn
        <4>5. IsFiniteSet(CountedIn(store', L, count))
          BY <2>11, <4>4, FS_Subset
        <4>6. /\ Cardinality(CountedIn(store, K, count)) \in Nat
              /\ Cardinality(CountedIn(store', L, count)) \in Nat
              /\ Cardinality(CountedIn(store, K, count)) <= Cardinality(CountedIn(store', L, count))
          BY <4>3, <4>5, FS_Subset, FS_CardinalityType
        <4>7. reported'[x][count] <= Cardinality(CountedIn(store', L, count)) /\ reported'[x][count] \in Nat
          BY <3>1, <4>1, <4>6
        <4>8. Of(x)' = L
          BY DEF Of, L, Cluster
        <4>9. (CountedIn(store, Of(x), count))' = CountedIn(store', L, count)
          BY <4>8 DEF CountedIn
        <4> QED BY <3>4, <4>7, <4>9 DEF Behind
      <3> QED BY <3>2, <3>3, <3>4
    <2> QED BY <2>12, <2>13
  <1> QED BY <1>4, <1>5

LEMMA cleanupCount ==
    ASSUME BackInv, CountInv, cleanup
    PROVE  CountInv'
  <1> DEFINE idle == {k \in DOMAIN store : clock - store[k].mod > Timeout}
  <1>1. /\ store' = [k \in DOMAIN store \ idle |-> store[k]] /\ gone' = gone \cup idle
        /\ UNCHANGED reported
    BY DEF cleanup
  <1>2. DOMAIN store' = DOMAIN store \ idle /\ \A x \in DOMAIN store' : store'[x] = store[x]
    BY <1>1
  <1>3. idle \subseteq DOMAIN store
    OBVIOUS
  <1> HIDE DEF idle
  <1> SUFFICES ASSUME NEW count \in {"okay", "err"}
               PROVE  CountFinite(count)' /\ \A x \in DOMAIN reported' : Behind(x, count)'
    BY CountPartsNext
  <1>4. CountFinite(count)'
    <2>1. CountedIn(store', DOMAIN store', count) \subseteq CountedIn(store, DOMAIN store, count)
      BY <1>2 DEF CountedIn
    <2>2. IsFiniteSet(CountedIn(store', DOMAIN store', count))
      BY <2>1, CountParts, FS_Subset DEF CountFinite
    <2> QED BY <2>2 DEF CountFinite, CountedIn
  <1>5. ASSUME NEW x \in DOMAIN reported' PROVE Behind(x, count)'
    <2>1. x \in DOMAIN reported /\ Behind(x, count) /\ reported'[x] = reported[x]
      BY <1>1, CountParts
    <2>2. CASE Gone(x) \/ \E y \in idle : y = x \/ Cluster(y) = x
      <3>1. Gone(x)'
        BY <1>1, <2>2 DEF Gone, Cluster
      <3> QED BY <2>1, <3>1 DEF Behind
    <2>3. CASE ~(Gone(x) \/ \E y \in idle : y = x \/ Cluster(y) = x) /\ x.host # Nil
      <3>1. x \in DOMAIN store' /\ store'[x] = store[x]
        BY <1>2, <2>1, <2>3 DEF Behind
      <3> QED BY <2>1, <2>3, <3>1 DEF Behind
    <2>4. CASE ~(Gone(x) \/ \E y \in idle : y = x \/ Cluster(y) = x) /\ x.host = Nil
      <3>1. {y \in DOMAIN store' : Cluster(y) = x} = {y \in DOMAIN store : Cluster(y) = x}
        BY <1>2, <1>3, <2>4
      <3>2. Of(x)' = Of(x)
        BY <3>1 DEF Of, Cluster
      <3>3. \A y \in Of(x) : store'[y] = store[y]
        BY <1>2, <3>1 DEF Of
      <3>4. (CountedIn(store, Of(x), count))' = CountedIn(store, Of(x), count)
        BY <3>2, <3>3 DEF CountedIn
      <3> QED BY <2>1, <2>4, <3>4 DEF Behind
    <2> QED BY <2>2, <2>3, <2>4
  <1> QED BY <1>4, <1>5

\* What a snapshot reports: of an entry its counts, of a cluster those of its entries.
LEMMA Snapped ==
    ASSUME BackInv, CountInv, snapshot, NEW count \in {"okay", "err"}
    PROVE  /\ DOMAIN reported' = DOMAIN store \cup Clusters
           /\ \A k \in DOMAIN store : reported'[k][count] = store[k][count]
           /\ \A c \in Clusters : reported'[c][count] = Cardinality(CountedIn(store, Of(c), count))
  <1>1. PICK r \in [Clusters -> UNION {ClusterPoints(c) : c \in Clusters}] :
             /\ \A c \in Clusters : r[c] \in ClusterPoints(c)
             /\ reported' = [k \in DOMAIN store \cup Clusters |->
                                IF k \in DOMAIN store THEN HostPoints[k] ELSE r[k]]
    BY DEF snapshot
  <1>2. ASSUME NEW k \in DOMAIN store PROVE reported'[k][count] = store[k][count]
    <2>1. reported'[k] = Points(store[k].okay, store[k].err, store[k].buf)
      BY <1>1, <1>2 DEF HostPoints
    <2>2. reported'[k].okay = store[k].okay /\ reported'[k].err = store[k].err
      BY <2>1 DEF Points
    <2> QED BY <2>2
  <1>3. ASSUME NEW c \in Clusters
        PROVE  reported'[c][count] = Cardinality(CountedIn(store, Of(c), count))
    <2>1. c.host = Nil
      BY OneOfKeys DEF Clusters
    <2>2. c \notin DOMAIN store
      BY <2>1, OneOfKeys
    <2>3. reported'[c] = r[c] /\ r[c] \in ClusterPoints(c)
      BY <1>1, <2>2
    <2>4. PICK b : r[c] = Points(Total(c, "okay"), Total(c, "err"), b)
      BY <2>3 DEF ClusterPoints
    <2>5. r[c].okay = Total(c, "okay") /\ r[c].err = Total(c, "err")
      BY <2>4 DEF Points
    <2>6. Total(c, count) = Cardinality(CountedIn(store, Of(c), count))
      BY DEF Total, Counted, CountedIn
    <2> QED BY <2>3, <2>5, <2>6
  <1> QED BY <1>1, <1>2, <1>3

LEMMA snapshotCount ==
    ASSUME BackInv, CountInv, snapshot
    PROVE  CountInv'
  <1>1. store' = [k \in DOMAIN store |-> Reset(store[k])] /\ gone' = {}
    BY DEF snapshot
  <1> SUFFICES ASSUME NEW count \in {"okay", "err"}
               PROVE  CountFinite(count)' /\ \A x \in DOMAIN reported' : Behind(x, count)'
    BY CountPartsNext
  <1>2. DOMAIN store' = DOMAIN store /\ \A k \in DOMAIN store : store'[k][count] = store[k][count]
    <2>1. ASSUME NEW k \in DOMAIN store PROVE Reset(store[k])[count] = store[k][count]
      BY OneOfKeys DEF Reset, Entries
    <2> QED BY <1>1, <2>1
  <1>3. \A K \in SUBSET DOMAIN store : CountedIn(store', K, count) = CountedIn(store, K, count)
    BY <1>2 DEF CountedIn
  <1>4. CountFinite(count)'
    <2>1. IsFiniteSet(CountedIn(store', DOMAIN store', count))
      BY <1>2, <1>3, CountParts DEF CountFinite
    <2> QED BY <2>1 DEF CountFinite, CountedIn
  <1>5. ASSUME NEW x \in DOMAIN reported' PROVE Behind(x, count)'
    <2>1. CASE x \in DOMAIN store
      <3>1. /\ reported'[x][count] = store'[x][count] /\ x \in DOMAIN store' /\ x.host # Nil
            /\ reported'[x][count] \in Nat
        BY <1>2, <2>1, Snapped, OneOfKeys
      <3> QED BY <3>1 DEF Behind
    <2>2. CASE x \in Clusters
      <3>1. x.host = Nil
        BY <2>2, OneOfKeys DEF Clusters
      <3>2. Of(x) \in SUBSET DOMAIN store /\ Of(x)' = Of(x)
        BY <1>2 DEF Of, Cluster
      <3>3. (CountedIn(store, Of(x), count))' = CountedIn(store, Of(x), count)
        BY <1>3, <3>2 DEF CountedIn
      <3>4. reported'[x][count] = Cardinality(CountedIn(store, Of(x), count))
        BY <2>2, Snapped
      <3>5. Cardinality(CountedIn(store, Of(x), count)) \in Nat
        <4>1. CountedIn(store, Of(x), count) \subseteq CountedIn(store, DOMAIN store, count)
          BY <3>2 DEF CountedIn
        <4> QED BY <4>1, CountParts, FS_Subset, FS_CardinalityType DEF CountFinite
      <3> QED BY <3>1, <3>3, <3>4, <3>5 DEF Behind
    <2> QED BY <2>1, <2>2, Snapped
  <1> QED BY <1>4, <1>5

LEMMA CountStep == IInv /\ CountInv /\ [Next]_vars => CountInv'
  <1> SUFFICES ASSUME FrontInv, BackInv, CountInv, [Next]_vars PROVE CountInv'
    BY Parts
  <1>1. ASSUME NEW h \in Hosts, NEW m \in Messages, Receive(h, m) PROVE CountInv'
    BY <1>1, CountFrame DEF Receive
  <1>2. ASSUME NEW h \in Hosts, Dial(h) \/ Send(h) \/ Break(h) PROVE CountInv'
    BY <1>2, CountFrame DEF Dial, Send, Break
  <1>3. ASSUME NEW h \in Hosts, Write(h) PROVE CountInv'
    BY <1>3, WriteCount
  <1>4. CASE Sent \/ Advance \/ UNCHANGED vars
    BY <1>4, CountFrame DEF Sent, Advance, vars
  <1> QED BY <1>1, <1>2, <1>3, <1>4, cleanupCount, snapshotCount
          DEF Next, Forwarder, Network, Server, scheduler

\* Counts do not go back: what a snapshot reports of a series, of a host's or of the
\* sum over a cluster, is at least what the one before did, whatever was written between
\* them, unless an entry of it was removed (aggregator/snapshot.go snapshotJob.do).
THEOREM CountsGrow == Spec => CountsMonotone
  <1> DEFINE A == reported' # reported =>
                    \A k \in DOMAIN reported \cap DOMAIN reported' :
                       \/ \E g \in gone : g = k \/ Cluster(g) = k
                       \/ reported'[k].okay >= reported[k].okay /\ reported'[k].err >= reported[k].err
  <1>1. IInv /\ CountInv /\ [Next]_vars => [A]_vars
    <2> SUFFICES ASSUME BackInv, CountInv, [Next]_vars, reported' # reported,
                        NEW k \in DOMAIN reported, k \in DOMAIN reported',
                        ~ \E g \in gone : g = k \/ Cluster(g) = k
                 PROVE  reported'[k].okay >= reported[k].okay /\ reported'[k].err >= reported[k].err
      BY Parts
    <2>1. snapshot
      <3>1. ASSUME NEW h \in Hosts, NEW m \in Messages, Receive(h, m) PROVE FALSE
        BY <3>1 DEF Receive, storeVars
      <3>2. ASSUME NEW h \in Hosts, Dial(h) \/ Send(h) \/ Break(h) \/ Write(h) PROVE FALSE
        BY <3>2 DEF Dial, Send, Break, Write, storeVars
      <3>3. ~(Sent \/ Advance \/ cleanup \/ UNCHANGED vars)
        BY DEF Sent, Advance, cleanup, vars, storeVars
      <3> QED BY <3>1, <3>2, <3>3 DEF Next, Forwarder, Network, Server, scheduler
    <2>2. ASSUME NEW count \in {"okay", "err"} PROVE reported'[k][count] >= reported[k][count]
      <3>1. Behind(k, count) /\ ~Gone(k)
        BY CountParts DEF Gone
      <3>2. CASE k \in DOMAIN store
        <4>1. k.host # Nil /\ store[k][count] \in Nat
          BY <3>2, OneOfKeys
        <4> QED BY <2>1, <3>1, <3>2, <4>1, Snapped DEF Behind
      <3>3. CASE k \in Clusters
        <4>1. k.host = Nil
          BY <3>3, OneOfKeys DEF Clusters
        <4>2. reported[k][count] <= Cardinality(CountedIn(store, Of(k), count))
              /\ reported[k][count] \in Nat
          BY <3>1, <4>1 DEF Behind
        <4>3. Cardinality(CountedIn(store, Of(k), count)) \in Nat
          <5>1. CountedIn(store, Of(k), count) \subseteq CountedIn(store, DOMAIN store, count)
            BY DEF CountedIn, Of
          <5> QED BY <5>1, CountParts, FS_Subset, FS_CardinalityType DEF CountFinite
        <4> QED BY <2>1, <3>3, <4>2, <4>3, Snapped
      <3> QED BY <2>1, <3>2, <3>3, Snapped
    <2> QED BY <2>2
  <1>2. Spec => [](IInv /\ CountInv)
    BY InitInv, StepInv, InitCount, CountStep, PTL DEF Spec
  <1> QED BY <1>1, <1>2, PTL DEF Spec, CountsMonotone

-------------------------------------------------------------------------------
(* The values.                                                               *)

\* The values of an entry.
SamplesIn(e) == \A s \in StatKeys : Samples(e.buf[s], e.since[s])

\* An empty buffer has all of no values.
LEMMA SamplesNone ==
    ASSUME NEW b \in {Nil, <<>>}
    PROVE  Samples(b, <<>>)
  <1>1. Len(<<>>) = 0 /\ <<>> \in Seq(Int)
    BY EmptySeq
  <1> QED BY <1>1, StatseAssumption DEF Samples

\* buffer.Append: the value that is written gets into the sample.
LEMMA AppendedSamples ==
    ASSUME NEW b \in Seq(Int) \cup {Nil}, NEW v \in Seq(Int), Samples(b, v),
           NEW x \in Int, NEW n \in Appended(b, x)
    PROVE  Samples(n, Append(v, x))
  <1> DEFINE c == IF b = Nil THEN <<>> ELSE b
             w == Append(v, x)
  <1>1. c \in Seq(Int) /\ Len(c) \in Nat /\ DOMAIN c = 1..Len(c)
    BY EmptySeq, LenProperties
  <1>2. n \in IF Len(c) < MaxBufferLen THEN {Append(c, x)} ELSE {[c EXCEPT ![i] = x] : i \in DOMAIN c}
    BY DEF Appended
  <1>3. /\ Len(c) = IF Len(v) < MaxBufferLen THEN Len(v) ELSE MaxBufferLen
        /\ Len(v) <= MaxBufferLen => c = v
        /\ ToSet(c) \subseteq ToSet(v)
    BY DEF Samples
  <1>4. Len(v) \in Nat /\ DOMAIN v = 1..Len(v) /\ MaxBufferLen \in Nat
    BY StatseAssumption, LenProperties
  <1>5. /\ w \in Seq(Int) /\ Len(w) = Len(v) + 1 /\ DOMAIN w = 1..(Len(v) + 1) /\ w[Len(v) + 1] = x
        /\ \A i \in 1..Len(v) : w[i] = v[i]
    BY <1>4, AppendProperties, LenProperties
  <1> HIDE DEF c, w
  <1>6. Last(w) = x /\ x \in ToSet(w)
    <2>1. Len(v) + 1 \in 1..(Len(v) + 1)
      BY <1>4
    <2> QED BY <1>5, <2>1 DEF Last, ToSet
  <1>7. ToSet(v) \subseteq ToSet(w)
    <2>1. \A i \in 1..Len(v) : i \in 1..(Len(v) + 1)
      BY <1>4
    <2> QED BY <1>4, <1>5, <2>1 DEF ToSet
  <1>8. CASE Len(c) < MaxBufferLen
    <2>1. Len(v) < MaxBufferLen /\ c = v
      BY <1>3, <1>4, <1>8
    <2>2. n = w
      BY <1>2, <1>8, <2>1 DEF w
    <2>3. Len(w) <= MaxBufferLen /\ n # Nil
      BY <1>4, <1>5, <2>1, <2>2, StatseAssumption
    <2>4. Len(w) = IF Len(w) < MaxBufferLen THEN Len(w) ELSE MaxBufferLen
      BY <1>4, <1>5, <2>3
    <2> QED BY <1>6, <2>2, <2>3, <2>4 DEF Samples, w
  <1>9. CASE ~(Len(c) < MaxBufferLen)
    <2>1. PICK i \in DOMAIN c : n = [c EXCEPT ![i] = x]
      BY <1>2, <1>9
    <2>2. n \in Seq(Int) /\ Len(n) = Len(c) /\ DOMAIN n = 1..Len(c)
      BY <1>1, <2>1, ExceptSeq, LenProperties
    <2>3. Len(n) = MaxBufferLen /\ ~(Len(w) <= MaxBufferLen) /\ ~(Len(w) < MaxBufferLen)
      <3>1. ~(Len(v) < MaxBufferLen) /\ Len(c) = MaxBufferLen
        BY <1>3, <1>9
      <3>2. Len(v) >= MaxBufferLen /\ Len(w) = Len(v) + 1
        BY <1>4, <1>5, <3>1
      <3>3. ~(Len(w) <= MaxBufferLen) /\ ~(Len(w) < MaxBufferLen)
        BY <1>4, <3>2
      <3> QED BY <2>2, <3>1, <3>3
    <2>4. n[i] = x /\ \A j \in DOMAIN c : n[j] = x \/ n[j] = c[j]
      BY <2>1
    <2>5. ToSet(n) \subseteq ToSet(c) \cup {x} /\ x \in ToSet(n)
      BY <1>1, <2>1, <2>2, <2>4 DEF ToSet
    <2>6. ToSet(n) \subseteq ToSet(w)
      BY <1>3, <1>6, <1>7, <2>5
    <2>7. n # Nil
      BY <2>2, StatseAssumption
    <2> QED BY <1>6, <2>3, <2>5, <2>6, <2>7 DEF Samples, w
  <1> QED BY <1>8, <1>9

\* An event writes the same values to the buffers and to what there was since.
LEMMA UpdatedSamples ==
    ASSUME NEW e, Entry(e), SamplesIn(e),
           NEW ev, DOMAIN ev.stats \subseteq StatKeys, ev.error \in BOOLEAN,
           \A k \in DOMAIN ev.stats : ev.stats[k] \in Int,
           NEW u \in Updated(e, ev)
    PROVE  SamplesIn(u)
  <1> DEFINE n == [e EXCEPT !.mod = clock, !.fresh = TRUE]
  <1>1. /\ DOMAIN n = {"mod", "okay", "err", "buf", "since", "fresh"}
        /\ n.buf = e.buf /\ n.since = e.since
    BY DEF Entry, Entries
  <1> HIDE DEF n
  <1>2. CASE ev.error
    <2>1. u = [n EXCEPT !.err = @ + 1]
      BY <1>2 DEF Updated, ModTime, n
    <2>2. u.buf = e.buf /\ u.since = e.since
      BY <1>1, <2>1
    <2> QED BY <2>2 DEF SamplesIn
  <1>3. CASE ~ev.error
    <2> DEFINE P == [k \in StatKeys |-> IF k \in DOMAIN ev.stats
                             THEN Appended(e.buf[k], ev.stats[k]) ELSE {e.buf[k]}]
               q == [k \in StatKeys |-> IF k \in DOMAIN ev.stats
                                     THEN Append(e.since[k], ev.stats[k]) ELSE e.since[k]]
    <2>1. PICK b \in Product(P) : u = [n EXCEPT !.okay = @ + 1, !.buf = b, !.since = q]
      BY <1>3 DEF Updated, ModTime, n
    <2>2. \A k \in StatKeys : b[k] \in P[k]
      BY <2>1 DEF Product
    <2>3. ASSUME NEW k \in StatKeys PROVE Samples(b[k], q[k])
      <3>1. e.buf[k] \in Seq(Int) \cup {Nil} /\ e.since[k] \in Seq(Int) /\ Samples(e.buf[k], e.since[k])
        BY DEF Entry, Entries, Buffers, SamplesIn
      <3>2. CASE k \in DOMAIN ev.stats
        <4>1. /\ b[k] \in Appended(e.buf[k], ev.stats[k]) /\ q[k] = Append(e.since[k], ev.stats[k])
              /\ ev.stats[k] \in Int
          BY <2>2, <3>2
        <4>2. Samples(b[k], Append(e.since[k], ev.stats[k]))
          BY <3>1, <4>1, AppendedSamples
        <4> QED BY <4>1, <4>2
      <3>3. CASE k \notin DOMAIN ev.stats
        <4>1. b[k] = e.buf[k] /\ q[k] = e.since[k]
          BY <2>2, <3>3
        <4> QED BY <3>1, <4>1
      <3> QED BY <3>2, <3>3
    <2> HIDE DEF q, P
    <2>4. u.buf = b /\ u.since = q
      BY <1>1, <2>1
    <2> QED BY <2>3, <2>4 DEF SamplesIn
  <1> QED BY <1>2, <1>3

LEMMA WriteSamples ==
    ASSUME FrontInv, BackInv, Sampled, NEW h \in Hosts, Write(h)
    PROVE  Sampled'
  <1> DEFINE ev == Head(wire[h]).event
             m  == Head(wire[h]).msg
             k  == KeyOf(ev)
             e  == IF k \in DOMAIN store THEN store[k] ELSE newEntry
  <1>1. /\ wire[h] # <<>> /\ Decoded(decoded[h], ev) = ev
        /\ Head(wire[h]) \in [event : EventOf(h), msg : Messages] /\ Carries(h, ev, m)
    BY HeadEvent DEF Write
  <1>2. ev \in EventOf(h) /\ m \in Messages
    BY <1>1
  <1>3. IF HostOf(ev) = {} THEN UNCHANGED store
        ELSE \E u \in Updated(e, ev) : store' = Stored(k, u)
    BY <1>1 DEF Write
  <1>4. \A x \in DOMAIN store : Entry(store[x]) /\ SamplesIn(store[x])
    BY BackParts DEF StoreAll, StoreAt, Sampled, SamplesIn
  <1>5. CASE HostOf(ev) = {}
    BY <1>3, <1>5 DEF Sampled, Samples
  <1>6. CASE HostOf(ev) # {}
    <2> HIDE DEF ev, m
    <2>1. PICK u \in Updated(e, ev) : store' = Stored(k, u)
      BY <1>3, <1>6
    <2> HIDE DEF k
    <2>2. SamplesIn(newEntry)
      <3>1. \A s \in StatKeys : newEntry.buf[s] = Nil /\ newEntry.since[s] = <<>>
        BY DEF newEntry
      <3> QED BY <3>1, SamplesNone DEF SamplesIn
    <2>3. Entry(e) /\ SamplesIn(e)
      BY <1>4, <2>2, NewEntry
    <2> HIDE DEF e
    <2>4. SamplesIn(u)
      BY <1>1, <1>2, <2>3, EventStats, UpdatedSamples
    <2>5. /\ DOMAIN store' = {k} \cup DOMAIN store /\ store'[k] = u
          /\ \A x \in DOMAIN store : x # k => store'[x] = store[x]
      BY <2>1 DEF Stored
    <2>6. \A x \in DOMAIN store' : SamplesIn(store'[x])
      BY <1>4, <2>4, <2>5
    <2> QED BY <2>6 DEF Sampled, SamplesIn, Samples
  <1> QED BY <1>5, <1>6

\* Reset starts the buffers and the observation anew together.
LEMMA snapshotSamples ==
    ASSUME BackInv, Sampled, snapshot
    PROVE  Sampled'
  <1>1. store' = [k \in DOMAIN store |-> Reset(store[k])]
    BY DEF snapshot
  <1>2. ASSUME NEW k \in DOMAIN store, NEW s \in StatKeys
        PROVE  Samples(Reset(store[k]).buf[s], Reset(store[k]).since[s])
    <2>1. store[k] \in Entries
      BY BackParts DEF StoreAll, StoreAt, Entry
    <2>2. Reset(store[k]).buf[s] \in {Nil, <<>>} /\ Reset(store[k]).since[s] = <<>>
      BY <2>1 DEF Reset, Entries
    <2> QED BY <2>2, SamplesNone
  <1>3. \A k \in DOMAIN store : SamplesIn(Reset(store[k]))
    BY <1>2 DEF SamplesIn
  <1>4. DOMAIN store' = DOMAIN store /\ \A k \in DOMAIN store : store'[k] = Reset(store[k])
    BY <1>1
  <1>5. \A k \in DOMAIN store' : SamplesIn(store'[k])
    BY <1>3, <1>4
  <1> QED BY <1>5 DEF Sampled, SamplesIn, Samples

LEMMA SamplesStep == IInv /\ Sampled /\ [Next]_vars => Sampled'
  <1> SUFFICES ASSUME FrontInv, BackInv, Sampled, [Next]_vars PROVE Sampled'
    BY Parts
  <1>1. ASSUME UNCHANGED store PROVE Sampled'
    BY <1>1 DEF Sampled, Samples
  <1>2. ASSUME NEW h \in Hosts, NEW m \in Messages, Receive(h, m) PROVE Sampled'
    BY <1>1, <1>2 DEF Receive, storeVars
  <1>3. ASSUME NEW h \in Hosts, Dial(h) \/ Send(h) \/ Break(h) PROVE Sampled'
    BY <1>1, <1>3 DEF Dial, Send, Break, storeVars
  <1>4. ASSUME NEW h \in Hosts, Write(h) PROVE Sampled'
    BY <1>4, WriteSamples
  <1>5. CASE Sent \/ Advance \/ UNCHANGED vars
    BY <1>1, <1>5 DEF Sent, Advance, vars, storeVars
  <1>6. CASE cleanup
    <2>1. DOMAIN store' \subseteq DOMAIN store /\ \A k \in DOMAIN store' : store'[k] = store[k]
      BY <1>6 DEF cleanup
    <2> QED BY <2>1 DEF Sampled, Samples
  <1> QED BY <1>2, <1>3, <1>4, <1>5, <1>6, snapshotSamples
          DEF Next, Forwarder, Network, Server, scheduler

\* What a snapshot is made from: of every host and statistic the values written since the
\* one before, all of them or MaxBufferLen of them with the last one, and never one that
\* was written earlier, however writes, snapshots and cleanups come
\* (aggregator/store.go buffer.Append and Reset, snapshot.go snapshotJob.do).
THEOREM BuffersSample == Spec => []Sampled
  <1>1. Init => Sampled
    <2>1. Init => DOMAIN store = {}
      BY DEF Init
    <2> QED BY <2>1 DEF Sampled
  <1> QED BY <1>1, SamplesStep, InductiveInvariant, PTL DEF Spec

===============================================================================
