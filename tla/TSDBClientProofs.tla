--------------------------- MODULE TSDBClientProofs ---------------------------
(***************************************************************************)
(* Proofs about TSDBClient, for every set of points, series, hosts and     *)
(* connections, every hash, queue size and setting.                        *)
(***************************************************************************)
EXTENDS TSDBClient, SeqLemmas, FiniteSetTheorems

USE DEF Released, Flushed, QueueFull, Acknowledges, ResetPending, Redial

\* A step that leaves a group of variables alone leaves its types alone.
LEMMA TypeStutter ==
    /\ CallerType /\ UNCHANGED callerVars => CallerType'
    /\ MainType /\ UNCHANGED mainVars => MainType'
    /\ PoolType /\ UNCHANGED poolVars => PoolType'
    /\ NetType /\ UNCHANGED netVars => NetType'
    /\ FateType /\ UNCHANGED fateVars => FateType'
  <1>1. CallerType /\ UNCHANGED callerVars => CallerType'
    BY DEF CallerType, callerVars
  <1>2. MainType /\ UNCHANGED mainVars => MainType'
    BY DEF MainType, mainVars
  <1>3. PoolType /\ UNCHANGED poolVars => PoolType'
    BY DEF PoolType, poolVars
  <1>4. NetType /\ UNCHANGED netVars => NetType'
    BY DEF NetType, netVars
  <1>5. FateType /\ UNCHANGED fateVars => FateType'
    BY DEF FateType, fateVars
  <1> QED BY <1>1, <1>2, <1>3, <1>4, <1>5

\* What offering a point changes, whatever repeatTester makes of it.
LEMMA OfferType ==
    ASSUME TypeOK, NEW p \in Points, Offer(p)
    PROVE  /\ offered' \subseteq Points
           /\ queue' = queue
           /\ SeriesOf[p] \in Series
           /\ HeldBefore(p) \subseteq Points
           /\ MainType' /\ PoolType' /\ NetType' /\ FateType'
  <1>1. PoolType'
    <2>1. dialers' \in [Hosts -> Nat]
      BY ClientAssumption DEF TypeOK, PoolType, Offer
    <2> QED BY <2>1 DEF TypeOK, PoolType, Offer
  <1>2. SeriesOf[p] \in Series
    BY ClientAssumption
  <1>3. HeldBefore(p) \subseteq Points
    BY <1>2 DEF HeldBefore, TypeOK, CallerType
  <1>4. offered' \subseteq Points /\ queue' = queue
    BY DEF Offer, TypeOK, CallerType
  <1> QED BY <1>1, <1>2, <1>3, <1>4, TypeStutter DEF Offer, TypeOK

\* Every step preserves the types; PoolInv is needed because put and error
\* work on the current command and connection.
LEMMA TypeStep == TypeOK /\ PoolInv /\ [Next]_vars => TypeOK'
  <1> SUFFICES ASSUME TypeOK, PoolInv, [Next]_vars PROVE TypeOK'
    OBVIOUS
  <1>0. CallerType /\ MainType /\ PoolType /\ NetType /\ FateType
    BY DEF TypeOK
  <1>a. pc \in {"put", "ack", "read", "error"} =>
          conn \in Conns /\ addr[conn] \in Hosts /\ conn \in Range(up)
    BY <1>0, RangeOfSeq DEF PoolInv, PoolType
  <1>b. pc = "put" => cur \in Points
    BY <1>0 DEF PoolInv, MainType
  <1>2. ASSUME NEW p \in Points, PutPass(p) PROVE TypeOK'
    <2>1. CallerType'
      BY <1>2, <1>0, OfferType DEF PutPass, CallerType
    <2> QED BY <1>2, <2>1, OfferType DEF PutPass, TypeOK
  <1>3. ASSUME NEW p \in Points, PutFlush(p) PROVE TypeOK'
    <2>1. held[SeriesOf[p]] \in Points
      BY <1>3, <1>0, OfferType DEF PutFlush, CallerType
    <2>2. CallerType'
      BY <1>3, <1>0, <2>1, OfferType DEF PutFlush, CallerType
    <2> QED BY <1>3, <2>2, OfferType DEF PutFlush, TypeOK
  <1>4. ASSUME NEW p \in Points, PutRepeat(p) PROVE TypeOK'
    <2>1. CallerType'
      BY <1>4, <1>0, OfferType DEF PutRepeat, CallerType
    <2> QED BY <1>4, <2>1, OfferType DEF PutRepeat, TypeOK
  <1>5. CASE Send
    <2>1. sending' \in Seq(Points) /\ Head(sending) \in Points
      BY <1>5, <1>0, HeadTailProperties DEF Send, CallerType
    <2>2. Len(queue) \in Nat /\ MaxQueue \in Nat
      BY <1>0, LenProperties, ClientAssumption DEF CallerType
    <2>3. CASE Len(queue) < MaxQueue
      <3>1. queue' = Append(queue, Head(sending)) /\ UNCHANGED fateVars
        BY <1>5, <2>2, <2>3 DEF Send
      <3>2. queue' \in Seq(Points) /\ Len(queue') <= MaxQueue
        BY <1>0, <2>1, <2>2, <2>3, <3>1, AppendProperties DEF CallerType
      <3>3. CallerType'
        BY <1>5, <1>0, <2>1, <3>2 DEF Send, CallerType
      <3> QED BY <1>5, <1>0, <3>1, <3>3, TypeStutter DEF Send, TypeOK
    <2>4. CASE Len(queue) >= MaxQueue
      <3>1. /\ Drop(<<Head(sending)>>, 0)
            /\ UNCHANGED <<queue, acked, forgotten, onQueueFull>>
        BY <1>5, <2>2, <2>4 DEF Send
      <3>2. CallerType'
        BY <1>5, <1>0, <2>1, <3>1 DEF Send, CallerType
      <3>3. FateType'
        BY <1>0, <2>1, <3>1, RangeShort DEF Drop, FateType
      <3> QED BY <1>5, <1>0, <3>2, <3>3, TypeStutter DEF Send, TypeOK
    <2> QED BY <2>2, <2>3, <2>4
  <1>6. CASE Recv
    <2>1. Head(queue) \in Points /\ Tail(queue) \in Seq(Points) /\ Len(Tail(queue)) <= MaxQueue
      BY <1>6, <1>0, ClientAssumption, HeadTailProperties, EmptySeq DEF Recv, CallerType
    <2>2. CallerType'
      BY <1>6, <1>0, <2>1 DEF Recv, CallerType
    <2>3. MainType'
      BY <1>6, <1>0, <2>1 DEF Recv, MainType
    <2> QED BY <1>6, <1>0, <2>2, <2>3, TypeStutter DEF Recv, TypeOK
  <1>7. CASE LookupConn
    <2>1. cur \in Points /\ SeriesHash[SeriesOf[cur]] \in Nat
      BY <1>7, <1>0, ClientAssumption DEF LookupConn, PoolInv, MainType
    <2>2. Len(up) \in Nat \ {0}
      BY <1>7, <1>0, EmptySeq DEF LookupConn, PoolType
    <2>3. (SeriesHash[SeriesOf[cur]] % Len(up)) + 1 \in 1..Len(up)
      BY <2>1, <2>2
    <2>4. conn' \in Conns
      BY <1>7, <1>0, <2>3, ElementOfSeq DEF LookupConn, PoolType
    <2>5. MainType'
      BY <1>7, <1>0, <2>4 DEF LookupConn, MainType
    <2> QED BY <1>7, <1>0, <2>5, TypeStutter DEF LookupConn, TypeOK
  <1>8. CASE ConnPut
    <2>1. wire' \in [Conns -> Seq(Messages)]
      BY <1>8, <1>0, <1>a, <1>b DEF ConnPut, NetType, Messages
    <2>2. pending' \in [Conns -> Seq(Points)]
      BY <1>8, <1>0, <1>a, <1>b DEF ConnPut, PoolType
    <2>3. MainType'
      BY <1>8, <1>0 DEF ConnPut, MainType
    <2>4. PoolType'
      BY <1>8, <1>0, <2>2 DEF ConnPut, PoolType
    <2>5. NetType'
      BY <1>8, <1>0, <2>1 DEF ConnPut, NetType
    <2> QED BY <1>8, <1>0, <2>3, <2>4, <2>5, TypeStutter DEF ConnPut, TypeOK
  <1>9. CASE ConnPutError
    <2>1. MainType'
      BY <1>9, <1>0 DEF ConnPutError, MainType
    <2>2. FateType'
      BY <1>9, <1>0, <1>b DEF ConnPutError, FateType
    <2> QED BY <1>9, <1>0, <2>1, <2>2, TypeStutter DEF ConnPutError, TypeOK
  <1>10. CASE WriteVersion
    <2>1. wire' \in [Conns -> Seq(Messages)]
      BY <1>10, <1>0, <1>a DEF WriteVersion, NetType, Messages
    <2>2. NetType'
      BY <1>10, <1>0, <2>1 DEF WriteVersion, NetType
    <2>3. MainType'
      BY <1>10, <1>0 DEF WriteVersion, MainType
    <2> QED BY <1>10, <1>0, <2>2, <2>3, TypeStutter DEF WriteVersion, TypeOK
  <1>11. CASE ReadVersionResponse
    <2>0. Tail(resp[conn]) \in Seq(Lines)
      BY <1>11, <1>0, <1>a, HeadTailProperties DEF ReadVersionResponse, NetType
    <2>1. resp' \in [Conns -> Seq(Lines)]
      BY <1>11, <1>0, <2>0 DEF ReadVersionResponse, NetType
    <2>2. NetType'
      BY <1>11, <1>0, <2>1 DEF ReadVersionResponse, NetType
    <2>3. MainType'
      BY <1>11, <1>0 DEF ReadVersionResponse, MainType
    <2>4. pending[conn] \in Seq(Points) /\ Range(pending[conn]) \subseteq Points
      BY <1>11, <1>0, <1>a, RangeOfSeq DEF ReadVersionResponse, PoolType
    <2>5. pending' \in [Conns -> Seq(Points)] /\ ackDue' \subseteq Conns
      <3>1. [pending EXCEPT ![conn] = <<>>] \in [Conns -> Seq(Points)]
        BY <1>0, ClearSeq DEF PoolType
      <3>2. \/ UNCHANGED <<pending, ackDue>>
            \/ pending' = [pending EXCEPT ![conn] = <<>>] /\ ackDue' = ackDue \ {conn}
        BY <1>11 DEF ReadVersionResponse
      <3> QED BY <1>0, <3>1, <3>2 DEF PoolType
    <2>6. PoolType'
      BY <1>11, <1>0, <2>5 DEF ReadVersionResponse, PoolType
    <2>7. acked' \subseteq Points
      BY <1>11, <1>0, <2>4 DEF ReadVersionResponse, FateType
    <2>8. FateType'
      BY <1>11, <1>0, <2>7 DEF ReadVersionResponse, FateType
    <2> QED BY <1>11, <1>0, <2>2, <2>3, <2>6, <2>8, TypeStutter DEF ReadVersionResponse, TypeOK
  <1>12. CASE ReadError
    <2>1. NetType'
      BY <1>12, <1>0, ClientAssumption DEF ReadError, NetType
    <2>2. MainType'
      BY <1>12, <1>0 DEF ReadError, MainType
    <2> QED BY <1>12, <1>0, <2>1, <2>2, TypeStutter DEF ReadError, TypeOK
  <1>13. CASE ConnError
    <2>0. PICK i \in DOMAIN up : up[i] = conn /\ up' = RemoveAt(up, i)
      BY <1>13 DEF ConnError
    <2>1. up' \in Seq(Conns)
      BY <1>0, <2>0, RangeRemoveAt DEF PoolType, PoolInv
    <2>2. pending' \in [Conns -> Seq(Points)] /\ dialers' \in [Hosts -> Nat]
      BY <1>13, <1>0, <1>a DEF ConnError, PoolType
    <2>3. PoolType'
      BY <1>13, <1>0, <2>1, <2>2 DEF ConnError, PoolType
    <2>4. resp' \in [Conns -> Seq(Lines)]
      BY <1>13, <1>0, ClearSeq DEF ConnError, NetType
    <2>5. NetType'
      BY <1>13, <1>0, <2>4 DEF ConnError, NetType
    <2>6. MainType'
      BY <1>13, <1>0 DEF ConnError, MainType
    <2>7. Range(pending[conn]) \subseteq Points /\ Len(pending[conn]) \in Nat
      BY <1>13, <1>0, <1>a, RangeOfSeq, LenProperties DEF ConnError, PoolType
    <2>8. Drop(pending[conn], Len(pending[conn])) /\ UNCHANGED <<acked, forgotten, onQueueFull>>
      BY <1>13 DEF ConnError
    <2>9. FateType'
      BY <1>0, <2>7, <2>8 DEF Drop, FateType
    <2> QED BY <1>13, <1>0, <2>3, <2>5, <2>6, <2>9, TypeStutter DEF ConnError, TypeOK
  <1>14. ASSUME NEW h \in Hosts, NEW c \in Conns, Dial(h, c) PROVE TypeOK'
    <2>1. up' \in Seq(Conns)
      BY <1>14, <1>0 DEF Dial, PoolType
    <2>2. dialers' \in [Hosts -> Nat] /\ addr' \in [Conns -> Hosts \cup {None}]
      BY <1>14, <1>0 DEF Dial, PoolType
    <2>3. PoolType'
      BY <1>14, <1>0, <2>1, <2>2 DEF Dial, PoolType
    <2>4. NetType'
      BY <1>14, <1>0 DEF Dial, NetType
    <2> QED BY <1>14, <1>0, <2>3, <2>4, TypeStutter DEF Dial, TypeOK
  <1>15. ASSUME NEW c \in Conns, AckInterval(c) PROVE TypeOK'
    <2>1. PoolType'
      BY <1>15, <1>0 DEF AckInterval, PoolType
    <2> QED BY <1>15, <1>0, <2>1, TypeStutter DEF AckInterval, TypeOK
  <1>16. ASSUME NEW c \in Conns, ServerRead(c) PROVE TypeOK'
    <2>0. Head(wire[c]) \in Messages /\ Tail(wire[c]) \in Seq(Messages)
      BY <1>16, <1>0, HeadTailProperties DEF ServerRead, NetType
    <2>1. wire' \in [Conns -> Seq(Messages)]
      BY <1>16, <1>0, <2>0 DEF ServerRead, NetType
    <2>2. resp' \in [Conns -> Seq(Lines)]
      <3>1. <<"error">> \in Seq(Lines) /\ VersionResponses \subseteq Seq(Lines)
        BY DEF Lines, VersionResponses
      <3>2. ASSUME NEW l \in Seq(Lines) PROVE resp[c] \o l \in Seq(Lines)
        BY <1>0, ConcatProperties DEF NetType
      <3>3. ASSUME NEW l \in Seq(Lines), Respond(c, l) PROVE resp' \in [Conns -> Seq(Lines)]
        BY <1>0, <3>2, <3>3 DEF Respond, NetType
      <3>4. UNCHANGED resp => resp' \in [Conns -> Seq(Lines)]
        BY <1>0 DEF NetType
      <3> QED BY <1>16, <3>1, <3>3, <3>4 DEF ServerRead
    <2>3. arrived' \in Seq(Arrivals)
      <3>1. ASSUME NEW b \in BOOLEAN, Head(wire[c]) # Version
            PROVE  [point |-> Head(wire[c]), conn |-> c, ok |-> b] \in Arrivals
        BY <2>0, <3>1 DEF Arrivals, Messages
      <3>2. CASE Head(wire[c]) = Version
        BY <1>16, <1>0, <3>2 DEF ServerRead, NetType
      <3>3. CASE Head(wire[c]) # Version
        <4>1. PICK b \in BOOLEAN :
                 arrived' = Append(arrived, [point |-> Head(wire[c]), conn |-> c, ok |-> b])
          BY <1>16, <3>3 DEF ServerRead
        <4> QED BY <1>0, <3>1, <3>3, <4>1, AppendProperties DEF NetType
      <3> QED BY <3>2, <3>3
    <2>4. NetType'
      BY <1>16, <1>0, <2>1, <2>2, <2>3 DEF ServerRead, NetType
    <2> QED BY <1>16, <1>0, <2>4, TypeStutter DEF ServerRead, TypeOK
  <1>17. ASSUME NEW c \in Conns, Cut(c) PROVE TypeOK'
    <2>1. resp' \in [Conns -> Seq(Lines)]
      <3>1. resp' = resp \/ resp' = [resp EXCEPT ![c] = <<>>]
        BY <1>17 DEF Cut
      <3>2. [resp EXCEPT ![c] = <<>>] \in [Conns -> Seq(Lines)]
        BY <1>0, ClearSeq DEF NetType
      <3> QED BY <1>0, <3>1, <3>2 DEF NetType
    <2>2. NetType'
      BY <1>17, <1>0, <2>1, ClientAssumption DEF Cut, NetType
    <2> QED BY <1>17, <1>0, <2>2, TypeStutter DEF Cut, TypeOK
  <1>18. ASSUME NEW c \in Conns, LoseWire(c) PROVE TypeOK'
    <2>1. wire' \in [Conns -> Seq(Messages)]
      BY <1>18, <1>0 DEF LoseWire, NetType
    <2>2. NetType'
      BY <1>18, <1>0, <2>1 DEF LoseWire, NetType
    <2> QED BY <1>18, <1>0, <2>2, TypeStutter DEF LoseWire, TypeOK
  <1>19. CASE UNCHANGED vars
    BY <1>19, <1>0, TypeStutter DEF vars, TypeOK
  <1> QED
    BY <1>2, <1>3, <1>4, <1>5, <1>6, <1>7, <1>8, <1>9, <1>10, <1>11, <1>12, <1>13,
       <1>14, <1>15, <1>16, <1>17, <1>18, <1>19
       DEF Next, Put, Mainloop, Environment
-------------------------------------------------------------------------------
\* Offered points are points, and a fresh point is nowhere yet.
LEMMA FreshPoint ==
    ASSUME IInv, NEW p \in Points, Offer(p)
    PROVE  /\ p \notin Unsent \cup PendingPoints \cup acked \cup dropped \cup forgotten
           /\ p \notin ArrivedPoints
           /\ \A c \in Conns : p \notin Range(wire[c])
           /\ sending = <<>> /\ Range(sending) = {}
           /\ queue' = queue /\ UNCHANGED <<mainVars, netVars, fateVars, up, addr, pending, ackDue>>
           /\ offered' = offered \cup {p}
  <1>1. p \notin offered /\ sending = <<>> /\ offered' = offered \cup {p}
    BY DEF Offer
  <1>2. \A c \in Conns : p \notin Range(wire[c])
    BY <1>1, ClientAssumption DEF IInv, WireInv
  <1>3. p \notin ArrivedPoints
    BY <1>1 DEF IInv, WireInv
  <1>4. p \notin Unsent \cup PendingPoints \cup acked \cup dropped \cup forgotten
    BY <1>1 DEF IInv, Accounted
  <1> QED BY <1>1, <1>2, <1>3, <1>4, RangeShort DEF Offer

\* What the three outcomes of repeatTester do to the held repeats.
LEMMA HeldStep ==
    ASSUME TypeOK, CallerInv, NEW p \in Points
    PROVE  /\ held' = [held EXCEPT ![SeriesOf[p]] = None]
                => HeldPoints' = HeldPoints \ HeldBefore(p)
           /\ held' = [held EXCEPT ![SeriesOf[p]] = p]
                => HeldPoints' = (HeldPoints \ HeldBefore(p)) \cup {p}
           /\ HeldBefore(p) \subseteq HeldPoints
           /\ SeriesOf[p] \in Series
           /\ held[SeriesOf[p]] # None => HeldBefore(p) = {held[SeriesOf[p]]}
  <1> DEFINE s == SeriesOf[p]
  <1>1. s \in Series /\ DOMAIN held = Series /\ held \in [Series -> Points \cup {None}]
    BY ClientAssumption DEF TypeOK, CallerType
  <1>2. \A t \in Series : held[t] # None => SeriesOf[held[t]] = t
    BY DEF CallerInv
  <1>3. HeldPoints = {held[t] : t \in Series} \ {None}
    BY <1>1 DEF HeldPoints, Range
  <1>4. HeldBefore(p) = {held[s]} \ {None}
    BY DEF HeldBefore
  <1> HIDE DEF s
  <1>5. ASSUME held' = [held EXCEPT ![s] = None]
        PROVE  HeldPoints' = HeldPoints \ HeldBefore(p)
    <2>1. HeldPoints' = {held'[t] : t \in Series} \ {None}
      BY <1>1, <1>5 DEF HeldPoints, Range
    <2>2. \A t \in Series : held'[t] = IF t = s THEN None ELSE held[t]
      BY <1>1, <1>5
    <2> QED BY <2>1, <2>2, <1>1, <1>2, <1>3, <1>4
  <1>6. ASSUME held' = [held EXCEPT ![s] = p]
        PROVE  HeldPoints' = (HeldPoints \ HeldBefore(p)) \cup {p}
    <2>1. HeldPoints' = {held'[t] : t \in Series} \ {None}
      BY <1>1, <1>6 DEF HeldPoints, Range
    <2>2. \A t \in Series : held'[t] = IF t = s THEN p ELSE held[t]
      BY <1>1, <1>6
    <2>3. p # None
      BY ClientAssumption
    <2> QED BY <2>1, <2>2, <2>3, <1>1, <1>2, <1>3, <1>4
  <1>7. HeldBefore(p) \subseteq HeldPoints
    BY <1>1, <1>3, <1>4
  <1> QED BY <1>1, <1>4, <1>5, <1>6, <1>7 DEF s

\* Steps other than Put, send and mainloop's receive leave the caller's
\* variables alone.
LEMMA CallerFrame ==
    ASSUME [Next]_vars
    PROVE  \/ \E p \in Points : PutPass(p) \/ PutFlush(p) \/ PutRepeat(p)
           \/ Send \/ Recv
           \/ UNCHANGED callerVars
  BY DEF Next, Put, Mainloop, Environment, vars, LookupConn, ConnPut, ConnPutError,
         WriteVersion, ReadVersionResponse, ReadError, ConnError, Dial, AckInterval,
         ServerRead, Cut, LoseWire

LEMMA CallerStep == IInv /\ [Next]_vars => CallerInv'
  <1> SUFFICES ASSUME IInv, [Next]_vars PROVE CallerInv'
    OBVIOUS
  <1>0. TypeOK /\ CallerInv /\ Accounted /\ CallerType
    BY DEF IInv, TypeOK
  <1>1. ASSUME NEW p \in Points, PutPass(p) PROVE CallerInv'
    <2>1. Offer(p) /\ queue' = queue
      BY <1>1 DEF PutPass, Offer
    <2>2. IsInjective(<<p>>)
      BY DEF IsInjective
    <2>3. \A s \in Series : held'[s] # None => SeriesOf[held'[s]] = s
      BY <1>0, <1>1, HeldStep DEF PutPass, CallerInv, CallerType
    <2> QED BY <1>0, <1>1, <2>1, <2>2, <2>3 DEF PutPass, CallerInv
  <1>2. ASSUME NEW p \in Points, PutFlush(p) PROVE CallerInv'
    <2>1. Offer(p) /\ queue' = queue /\ held[SeriesOf[p]] # None
      BY <1>2 DEF PutFlush, Offer
    <2>2. held[SeriesOf[p]] # p
      BY <2>1, <1>0, FreshPoint, HeldStep DEF Unsent
    <2>3. IsInjective(<<held[SeriesOf[p]], p>>)
      BY <2>2 DEF IsInjective
    <2>4. \A s \in Series : held'[s] # None => SeriesOf[held'[s]] = s
      BY <1>0, <1>2, HeldStep DEF PutFlush, CallerInv, CallerType
    <2> QED BY <1>0, <1>2, <2>1, <2>3, <2>4 DEF PutFlush, CallerInv
  <1>3. ASSUME NEW p \in Points, PutRepeat(p) PROVE CallerInv'
    <2>1. Offer(p) /\ queue' = queue
      BY <1>3 DEF PutRepeat, Offer
    <2>2. \A s \in Series : held'[s] # None => SeriesOf[held'[s]] = s
      BY <1>0, <1>3, HeldStep DEF PutRepeat, CallerInv, CallerType
    <2> QED BY <1>0, <1>3, <2>1, <2>2 DEF PutRepeat, CallerInv
  <1>4. CASE Send
    <2>1. /\ sending # <<>> /\ sending' = Tail(sending) /\ held' = held
          /\ queue' = Append(queue, Head(sending)) \/ queue' = queue
      BY <1>4 DEF Send
    <2>2. sending \in Seq(Points) /\ queue \in Seq(Points) /\ IsInjective(sending) /\ IsInjective(queue)
      BY <1>0 DEF CallerType, CallerInv
    <2>3. IsInjective(Tail(sending))
      BY <2>1, <2>2, InjectiveTail
    <2>4. Head(sending) \in Points /\ Head(sending) \in Range(sending)
      BY <2>1, <2>2, RangeHeadTail
    <2>5. Head(sending) \notin Range(queue)
      BY <2>4, <1>0 DEF Accounted
    <2>6. IsInjective(Append(queue, Head(sending)))
      BY <2>2, <2>4, <2>5, InjectiveAppend
    <2> QED BY <1>0, <2>1, <2>2, <2>3, <2>6 DEF CallerInv
  <1>5. CASE Recv
    <2>1. queue # <<>> /\ queue' = Tail(queue) /\ held' = held /\ sending' = sending
      BY <1>5 DEF Recv
    <2>2. IsInjective(Tail(queue))
      BY <1>0, <2>1, InjectiveTail DEF CallerType, CallerInv
    <2> QED BY <1>0, <2>1, <2>2 DEF CallerInv
  <1>6. CASE UNCHANGED callerVars
    BY <1>0, <1>6 DEF callerVars, CallerInv
  <1> QED BY <1>1, <1>2, <1>3, <1>4, <1>5, <1>6, CallerFrame

-------------------------------------------------------------------------------
\* Steps other than those of put, read, error and dial leave the connection
\* mainloop works on, its command and the pool as they are.
LEMMA PoolStep == IInv /\ [Next]_vars => PoolInv'
  <1> SUFFICES ASSUME IInv, [Next]_vars PROVE PoolInv'
    OBVIOUS
  <1>0. TypeOK /\ PoolInv /\ CallerType /\ MainType /\ PoolType /\ NetType /\ TypeOK'
    BY TypeStep DEF IInv, TypeOK
  <1>a. pc \in {"put", "ack", "read", "error"} =>
          conn \in Conns /\ addr[conn] # None /\ conn \in Range(up)
    BY <1>0, RangeOfSeq DEF PoolInv, PoolType
  <1>1. ASSUME NEW p \in Points, Offer(p) PROVE PoolInv'
    BY <1>1, <1>0 DEF Offer, PoolInv, mainVars, netVars
  <1>2. CASE Send
    BY <1>2, <1>0 DEF Send, PoolInv, mainVars, poolVars, netVars
  <1>3. CASE Recv
    <2>1. Head(queue) \in Points
      BY <1>3, <1>0, HeadTailProperties DEF Recv, CallerType
    <2>2. cur' # None /\ pc' = "lookup"
      BY <1>3, <2>1, ClientAssumption DEF Recv
    <2> QED BY <1>3, <1>0, <2>2 DEF Recv, PoolInv, poolVars, netVars
  <1>4. CASE LookupConn
    <2>1. cur \in Points /\ SeriesHash[SeriesOf[cur]] \in Nat
      BY <1>4, <1>0, ClientAssumption DEF LookupConn, PoolInv, MainType
    <2>2. Len(up) \in Nat \ {0}
      BY <1>4, <1>0, EmptySeq DEF LookupConn, PoolType
    <2>3. (SeriesHash[SeriesOf[cur]] % Len(up)) + 1 \in 1..Len(up)
      BY <2>1, <2>2
    <2>4. conn' \in Range(up)
      BY <1>4, <1>0, <2>3, RangeEquality DEF LookupConn, PoolType
    <2>5. pc' = "put" /\ cur' = cur /\ cur # None
      BY <1>4, <1>0 DEF LookupConn, PoolInv
    <2> QED BY <1>4, <1>0, <2>4, <2>5 DEF LookupConn, PoolInv, poolVars, netVars
  <1>5. CASE ConnPut
    <2>1. /\ pc' \in {"ack", "recv"} /\ cur' = None /\ UNCHANGED <<conn, up, addr, open, resp>>
          /\ \A c \in Conns \ {conn} : wire'[c] = wire[c] /\ pending'[c] = pending[c]
      BY <1>5, <1>0 DEF ConnPut, PoolType, NetType
    <2> QED BY <1>5, <1>0, <1>a, <2>1 DEF ConnPut, PoolInv
  <1>6. CASE ConnPutError
    BY <1>6, <1>0, <1>a DEF ConnPutError, PoolInv, poolVars, netVars
  <1>7. CASE WriteVersion
    <2>1. /\ pc' = "read" /\ cur' = cur /\ cur = None
          /\ UNCHANGED <<conn, up, addr, open, resp, pending>>
          /\ \A c \in Conns \ {conn} : wire'[c] = wire[c]
      BY <1>7, <1>0 DEF WriteVersion, poolVars, NetType, PoolInv
    <2> QED BY <1>7, <1>0, <1>a, <2>1 DEF WriteVersion, PoolInv
  <1>8. CASE ReadVersionResponse
    <2>1. /\ pc' \in {"read", "recv"} /\ cur' = cur /\ cur = None
          /\ UNCHANGED <<conn, up, addr, open, wire>>
          /\ \A c \in Conns \ {conn} : resp'[c] = resp[c] /\ pending'[c] = pending[c]
      BY <1>8, <1>0 DEF ReadVersionResponse, PoolType, NetType, PoolInv
    <2> QED BY <1>8, <1>0, <1>a, <2>1 DEF ReadVersionResponse, PoolInv
  <1>9. CASE ReadError
    BY <1>9, <1>0, <1>a DEF ReadError, PoolInv, poolVars
  <1>10. CASE ConnError
    <2>1. PICK i \in DOMAIN up : up[i] = conn /\ up' = RemoveAt(up, i)
      BY <1>10 DEF ConnError
    <2>2. IsInjective(up') /\ Range(up') = Range(up) \ {conn}
      BY <2>1, <1>0, RangeRemoveAt DEF PoolInv, PoolType
    <2>3. /\ pc' = "recv" /\ cur' = cur /\ cur = None /\ open' = open \ {conn}
          /\ UNCHANGED <<addr, wire>>
          /\ \A c \in Conns \ {conn} : resp'[c] = resp[c] /\ pending'[c] = pending[c]
      BY <1>10, <1>0 DEF ConnError, PoolType, NetType, PoolInv
    <2>4. conn \in Conns /\ addr[conn] # None
      BY <1>10, <1>a DEF ConnError
    <2> QED BY <1>0, <2>2, <2>3, <2>4 DEF PoolInv
  <1>11. ASSUME NEW h \in Hosts, NEW c \in Conns, Dial(h, c) PROVE PoolInv'
    <2>1. c \notin Range(up)
      BY <1>11, <1>0 DEF Dial, PoolInv
    <2>2. IsInjective(up') /\ Range(up') = Range(up) \cup {c}
      BY <1>11, <1>0, <2>1, InjectiveAppend, RangeAppend DEF Dial, PoolInv, PoolType
    <2>3. /\ open' = open \cup {c} /\ UNCHANGED <<pc, cur, conn, wire, resp, pending>>
          /\ \A d \in Conns : addr'[d] = IF d = c THEN h ELSE addr[d]
      BY <1>11, <1>0 DEF Dial, mainVars, PoolType
    <2>4. h # None /\ Range(up) \subseteq Conns
      BY <1>0, ClientAssumption, RangeOfSeq DEF PoolType
    <2> QED BY <1>0, <2>2, <2>3, <2>4 DEF PoolInv
  <1>12. ASSUME NEW c \in Conns, AckInterval(c) PROVE PoolInv'
    BY <1>12, <1>0 DEF AckInterval, PoolInv, mainVars, netVars
  <1>13. ASSUME NEW c \in Conns, ServerRead(c) PROVE PoolInv'
    <2>1. addr[c] # None
      BY <1>13, <1>0 DEF ServerRead, PoolInv
    <2>2. /\ UNCHANGED <<up, addr, pending, open, pc, cur, conn>>
          /\ \A d \in Conns \ {c} : wire'[d] = wire[d] /\ resp'[d] = resp[d]
      BY <1>13, <1>0 DEF ServerRead, Respond, mainVars, poolVars, NetType
    <2>3. \A d \in Conns : addr[d] = None => wire'[d] = <<>> /\ resp'[d] = <<>> /\ pending'[d] = <<>>
      BY <1>0, <2>1, <2>2 DEF PoolInv
    <2> QED BY <1>0, <2>2, <2>3 DEF PoolInv
  <1>14. ASSUME NEW c \in Conns, Cut(c) PROVE PoolInv'
    <2>1. open' = open \ {c} /\ UNCHANGED <<up, addr, pending, wire, pc, cur, conn>>
      BY <1>14 DEF Cut, mainVars, poolVars
    <2>2. \A d \in Conns : resp[d] = <<>> => resp'[d] = <<>>
      BY <1>14, <1>0 DEF Cut, NetType
    <2> QED BY <1>0, <2>1, <2>2 DEF PoolInv
  <1>15. ASSUME NEW c \in Conns, LoseWire(c) PROVE PoolInv'
    <2>1. UNCHANGED <<up, addr, pending, open, resp, pc, cur, conn>>
      BY <1>15 DEF LoseWire, mainVars, poolVars
    <2>2. \A d \in Conns : wire[d] = <<>> => wire'[d] = <<>>
      BY <1>15, <1>0 DEF LoseWire, NetType
    <2> QED BY <1>0, <2>1, <2>2 DEF PoolInv
  <1>16. CASE UNCHANGED vars
    BY <1>16, <1>0 DEF vars, mainVars, poolVars, netVars, PoolInv
  <1> QED
    BY <1>1, <1>2, <1>3, <1>4, <1>5, <1>6, <1>7, <1>8, <1>9, <1>10, <1>11, <1>12,
       <1>13, <1>14, <1>15, <1>16
       DEF Next, Put, PutPass, PutFlush, PutRepeat, Mainloop, Environment

-------------------------------------------------------------------------------
\* What mainloop's steps do to the points in Pending.
LEMMA PendingStep ==
    ASSUME TypeOK, Accounted, NEW c \in Conns
    PROVE  /\ PendingPoints \subseteq Points
           /\ Range(pending[c]) \subseteq PendingPoints
           /\ \A p \in Points : pending' = [pending EXCEPT ![c] = Append(@, p)]
                => /\ PendingPoints' = PendingPoints \cup {p}
                   /\ Range(pending'[c]) = Range(pending[c]) \cup {p}
                   /\ \A d \in Conns \ {c} : Range(pending'[d]) = Range(pending[d])
           /\ pending' = [pending EXCEPT ![c] = <<>>]
                => /\ PendingPoints' = PendingPoints \ Range(pending[c])
                   /\ Range(pending'[c]) = {}
                   /\ \A d \in Conns \ {c} : Range(pending'[d]) = Range(pending[d])
  <1>1. pending \in [Conns -> Seq(Points)]
    BY DEF TypeOK, PoolType
  <1>2. \A d \in Conns : pending[d] \in Seq(Points) /\ Range(pending[d]) \subseteq Points
    BY <1>1, RangeOfSeq
  <1>3. PendingPoints \subseteq Points /\ Range(pending[c]) \subseteq PendingPoints
    BY <1>2 DEF PendingPoints
  <1>4. ASSUME NEW p \in Points, pending' = [pending EXCEPT ![c] = Append(@, p)]
        PROVE  /\ PendingPoints' = PendingPoints \cup {p}
               /\ Range(pending'[c]) = Range(pending[c]) \cup {p}
               /\ \A d \in Conns \ {c} : Range(pending'[d]) = Range(pending[d])
    <2>1. Range(pending'[c]) = Range(pending[c]) \cup {p}
      BY <1>1, <1>2, <1>4, RangeAppend
    <2>2. \A d \in Conns \ {c} : Range(pending'[d]) = Range(pending[d])
      BY <1>1, <1>4
    <2> QED BY <2>1, <2>2 DEF PendingPoints
  <1>5. ASSUME pending' = [pending EXCEPT ![c] = <<>>]
        PROVE  /\ PendingPoints' = PendingPoints \ Range(pending[c])
               /\ Range(pending'[c]) = {}
               /\ \A d \in Conns \ {c} : Range(pending'[d]) = Range(pending[d])
    <2>1. Range(pending'[c]) = {}
      BY <1>1, <1>5, RangeShort
    <2>2. \A d \in Conns \ {c} : Range(pending'[d]) = Range(pending[d])
      BY <1>1, <1>5
    <2>3. \A d \in Conns \ {c} : Range(pending[d]) \cap Range(pending[c]) = {}
      BY DEF Accounted
    <2> QED BY <2>1, <2>2, <2>3 DEF PendingPoints
  <1> QED BY <1>3, <1>4, <1>5

\* A point moves from one place to the next, never to two.
LEMMA AccountedStep == IInv /\ [Next]_vars => Accounted'
  <1> SUFFICES ASSUME IInv, [Next]_vars PROVE Accounted'
    OBVIOUS
  <1>0. TypeOK /\ CallerInv /\ PoolInv /\ Accounted /\ CallerType /\ MainType /\ PoolType
    BY DEF IInv, TypeOK
  <1>a. pc \in {"put", "ack", "read", "error"} => conn \in Conns
    BY <1>0, RangeOfSeq DEF PoolInv, PoolType
  <1>b. pc = "put" => cur \in Points /\ CurPoints = {cur}
    BY <1>0 DEF PoolInv, MainType, CurPoints
  <1>1. ASSUME NEW p \in Points, Offer(p)
        PROVE  /\ CurPoints' = CurPoints /\ PendingPoints' = PendingPoints
               /\ Range(queue') = Range(queue) /\ Range(sending) = {}
               /\ UNCHANGED <<acked, dropped, forgotten, pending>>
               /\ offered' = offered \cup {p}
               /\ p \notin Unsent \cup PendingPoints \cup acked \cup dropped \cup forgotten
    BY <1>1, FreshPoint DEF CurPoints, PendingPoints, mainVars, fateVars
  <1>2. ASSUME NEW p \in Points, PutPass(p) PROVE Accounted'
    <2>1. /\ HeldPoints' = HeldPoints \ HeldBefore(p) /\ HeldBefore(p) \subseteq HeldPoints
          /\ suppressed' = suppressed \cup HeldBefore(p)
          /\ Range(sending') = {p}
      BY <1>0, <1>2, HeldStep, RangeShort DEF PutPass
    <2> QED BY <1>0, <1>1, <1>2, <2>1 DEF PutPass, Accounted, Unsent
  <1>3. ASSUME NEW p \in Points, PutFlush(p) PROVE Accounted'
    <2>1. /\ HeldPoints' = HeldPoints \ HeldBefore(p) /\ HeldBefore(p) \subseteq HeldPoints
          /\ HeldBefore(p) = {held[SeriesOf[p]]}
          /\ suppressed' = suppressed
          /\ Range(sending') = {held[SeriesOf[p]], p}
      BY <1>0, <1>3, HeldStep, RangeShort DEF PutFlush
    <2> QED BY <1>0, <1>1, <1>3, <2>1 DEF PutFlush, Accounted, Unsent
  <1>4. ASSUME NEW p \in Points, PutRepeat(p) PROVE Accounted'
    <2>1. /\ HeldPoints' = (HeldPoints \ HeldBefore(p)) \cup {p} /\ HeldBefore(p) \subseteq HeldPoints
          /\ suppressed' = suppressed \cup HeldBefore(p)
          /\ sending' = sending
      BY <1>0, <1>4, HeldStep DEF PutRepeat
    <2> QED BY <1>0, <1>1, <1>4, <2>1 DEF PutRepeat, Accounted, Unsent
  <1>5. CASE Send
    <2>1. /\ Range(sending) = {Head(sending)} \cup Range(sending')
          /\ Head(sending) \notin Range(sending') /\ Head(sending) \in Points
      BY <1>0, <1>5, RangeHeadTail, InjectiveTail DEF Send, CallerType, CallerInv
    <2>2. /\ HeldPoints' = HeldPoints /\ CurPoints' = CurPoints /\ PendingPoints' = PendingPoints
          /\ UNCHANGED <<offered, suppressed, pending, acked, forgotten>>
      BY <1>5 DEF Send, HeldPoints, CurPoints, PendingPoints, mainVars, poolVars, fateVars
    <2>3. CASE queue' = Append(queue, Head(sending)) /\ UNCHANGED fateVars
      <3>1. Range(queue') = Range(queue) \cup {Head(sending)} /\ dropped' = dropped
        BY <1>0, <2>1, <2>3, RangeAppend DEF CallerType, fateVars
      <3> QED BY <1>0, <2>1, <2>2, <3>1 DEF Accounted, Unsent
    <2>4. CASE queue' = queue /\ Drop(<<Head(sending)>>, 0)
      <3>1. Range(queue') = Range(queue) /\ dropped' = dropped \cup {Head(sending)}
        BY <2>4, RangeShort DEF Drop
      <3> QED BY <1>0, <2>1, <2>2, <3>1 DEF Accounted, Unsent
    <2> QED BY <1>5, <2>3, <2>4 DEF Send
  <1>6. CASE Recv
    <2>1. /\ Range(queue) = {Head(queue)} \cup Range(queue')
          /\ Head(queue) \notin Range(queue') /\ Head(queue) \in Points
      BY <1>0, <1>6, RangeHeadTail, InjectiveTail DEF Recv, CallerType, CallerInv
    <2>2. CurPoints = {} /\ CurPoints' = {Head(queue)}
      BY <1>0, <1>6, <2>1, ClientAssumption DEF Recv, PoolInv, CurPoints
    <2>3. /\ HeldPoints' = HeldPoints /\ PendingPoints' = PendingPoints
          /\ Range(sending') = Range(sending)
          /\ UNCHANGED <<offered, suppressed, pending, acked, dropped, forgotten>>
      BY <1>6 DEF Recv, HeldPoints, PendingPoints, poolVars, fateVars
    <2> QED BY <1>0, <2>1, <2>2, <2>3 DEF Accounted, Unsent
  <1>7. CASE ConnPut
    <2>1. /\ pc = "put" /\ pending' = [pending EXCEPT ![conn] = Append(@, cur)]
          /\ CurPoints' = {} /\ HeldPoints' = HeldPoints
          /\ UNCHANGED <<offered, suppressed, sending, queue, acked, dropped, forgotten>>
      BY <1>7 DEF ConnPut, callerVars, fateVars, CurPoints, HeldPoints
    <2>2. /\ PendingPoints' = PendingPoints \cup {cur}
          /\ Range(pending'[conn]) = Range(pending[conn]) \cup {cur}
          /\ \A d \in Conns \ {conn} : Range(pending'[d]) = Range(pending[d])
          /\ \A d \in Conns : Range(pending[d]) \subseteq PendingPoints
      BY <1>0, <1>a, <1>b, <2>1, PendingStep
    <2>3. /\ Unsent = Unsent' \cup {cur} /\ cur \notin Unsent'
          /\ Unsent' \cap (PendingPoints \cup acked \cup dropped \cup forgotten) = {}
          /\ cur \notin PendingPoints \cup acked \cup dropped \cup forgotten
      BY <1>0, <1>a, <1>b, <2>1 DEF Accounted, Unsent
    <2>4. \A c, d \in Conns : c # d => Range(pending'[c]) \cap Range(pending'[d]) = {}
      BY <1>0, <2>2, <2>3 DEF Accounted
    <2>5. /\ offered' = Unsent' \cup PendingPoints' \cup acked' \cup dropped' \cup forgotten'
          /\ Unsent' \cap (PendingPoints' \cup acked' \cup dropped' \cup forgotten') = {}
          /\ PendingPoints' \cap (acked' \cup dropped' \cup forgotten') = {}
      BY <1>0, <2>1, <2>2, <2>3 DEF Accounted
    <2> QED BY <1>0, <2>1, <2>4, <2>5 DEF Accounted
  <1>8. CASE ConnPutError
    <2>1. /\ pc = "put" /\ forgotten' = forgotten \cup {cur}
          /\ CurPoints' = {} /\ HeldPoints' = HeldPoints /\ PendingPoints' = PendingPoints
          /\ UNCHANGED <<offered, suppressed, sending, queue, pending, acked, dropped>>
      BY <1>8 DEF ConnPutError, callerVars, poolVars, CurPoints, HeldPoints, PendingPoints
    <2> QED BY <1>0, <1>b, <2>1 DEF Accounted, Unsent
  <1>9. CASE ReadVersionResponse
    <2>1. /\ pc = "read" /\ CurPoints' = CurPoints /\ HeldPoints' = HeldPoints
          /\ UNCHANGED <<offered, suppressed, sending, queue, dropped, forgotten>>
      BY <1>9 DEF ReadVersionResponse, callerVars, CurPoints, HeldPoints
    <2>2. CASE UNCHANGED <<pending, acked>>
      BY <1>0, <2>1, <2>2 DEF Accounted, Unsent, PendingPoints
    <2>3. CASE acked' = acked \cup Range(pending[conn]) /\ pending' = [pending EXCEPT ![conn] = <<>>]
      <3>1. /\ PendingPoints' = PendingPoints \ Range(pending[conn])
            /\ Range(pending'[conn]) = {} /\ Range(pending[conn]) \subseteq PendingPoints
            /\ \A d \in Conns \ {conn} : Range(pending'[d]) = Range(pending[d])
        BY <1>0, <1>a, <2>1, <2>3, PendingStep
      <3> QED BY <1>0, <1>a, <2>1, <2>3, <3>1 DEF Accounted, Unsent
    <2> QED BY <1>9, <2>2, <2>3 DEF ReadVersionResponse
  <1>10. CASE ConnError
    <2>1. /\ pc = "error" /\ CurPoints' = CurPoints /\ HeldPoints' = HeldPoints
          /\ UNCHANGED <<offered, suppressed, sending, queue, acked, forgotten>>
          /\ dropped' = dropped \cup Range(pending[conn])
          /\ pending' = [pending EXCEPT ![conn] = <<>>]
      BY <1>10 DEF ConnError, Drop, callerVars, CurPoints, HeldPoints
    <2>2. /\ PendingPoints' = PendingPoints \ Range(pending[conn])
          /\ Range(pending'[conn]) = {} /\ Range(pending[conn]) \subseteq PendingPoints
          /\ \A d \in Conns \ {conn} : Range(pending'[d]) = Range(pending[d])
      BY <1>0, <1>a, <2>1, PendingStep
    <2> QED BY <1>0, <1>a, <2>1, <2>2 DEF Accounted, Unsent
  <1>11. CASE UNCHANGED <<callerVars, cur, pending, acked, dropped, forgotten>>
    BY <1>0, <1>11 DEF Accounted, Unsent, HeldPoints, CurPoints, PendingPoints, callerVars
  <1>12. \/ \E p \in Points : PutPass(p) \/ PutFlush(p) \/ PutRepeat(p)
         \/ Send \/ Recv \/ ConnPut \/ ConnPutError \/ ReadVersionResponse \/ ConnError
         \/ UNCHANGED <<callerVars, cur, pending, acked, dropped, forgotten>>
    BY DEF Next, Put, Mainloop, Environment, vars, LookupConn, WriteVersion, ReadError,
           Dial, AckInterval, ServerRead, Cut, LoseWire, mainVars, poolVars, fateVars
  <1> QED
    BY <1>2, <1>3, <1>4, <1>5, <1>6, <1>7, <1>8, <1>9, <1>10, <1>11, <1>12

-------------------------------------------------------------------------------
\* No step but Put adds to the points that are still unsent.
LEMMA UnsentStep ==
    ASSUME IInv, [Next]_vars
    PROVE  /\ offered \subseteq offered'
           /\ Unsent' \subseteq Unsent \cup (offered' \ offered)
  <1>0. TypeOK /\ CallerInv /\ CallerType /\ Accounted
    BY DEF IInv, TypeOK
  <1>1. ASSUME NEW p \in Points, Offer(p)
        PROVE  /\ offered' = offered \cup {p} /\ p \notin offered
               /\ Range(queue') = Range(queue) /\ CurPoints' = CurPoints
    BY <1>1, FreshPoint DEF Offer, CurPoints, mainVars
  <1>2. ASSUME NEW p \in Points, PutPass(p) \/ PutFlush(p)
        PROVE  /\ offered \subseteq offered'
               /\ Unsent' \subseteq Unsent \cup (offered' \ offered)
    <2>1. /\ HeldPoints' = HeldPoints \ HeldBefore(p) /\ HeldBefore(p) \subseteq HeldPoints
          /\ suppressed' \subseteq suppressed \cup HeldBefore(p)
      BY <1>0, <1>2, HeldStep DEF PutPass, PutFlush
    <2>2. Range(sending') \subseteq HeldBefore(p) \cup {p}
      BY <1>0, <1>2, HeldStep, RangeShort DEF PutPass, PutFlush
    <2>3. Offer(p)
      BY <1>2 DEF PutPass, PutFlush
    <2> QED BY <1>1, <2>1, <2>2, <2>3 DEF Unsent
  <1>3. ASSUME NEW p \in Points, PutRepeat(p)
        PROVE  /\ offered \subseteq offered'
               /\ Unsent' \subseteq Unsent \cup (offered' \ offered)
    <2>1. /\ HeldPoints' = (HeldPoints \ HeldBefore(p)) \cup {p} /\ HeldBefore(p) \subseteq HeldPoints
          /\ suppressed' = suppressed \cup HeldBefore(p) /\ sending' = sending
      BY <1>0, <1>3, HeldStep DEF PutRepeat
    <2>2. Offer(p)
      BY <1>3 DEF PutRepeat
    <2> QED BY <1>1, <2>1, <2>2 DEF Unsent
  <1>4. CASE Send
    <2>1. /\ Range(sending) = {Head(sending)} \cup Range(sending') /\ Head(sending) \in Points
      BY <1>0, <1>4, RangeHeadTail DEF Send, CallerType
    <2>2. queue' = queue \/ queue' = Append(queue, Head(sending))
      BY <1>4 DEF Send
    <2>3. Range(queue') \subseteq Range(queue) \cup {Head(sending)}
      <3>1. CASE queue' = queue
        BY <3>1
      <3>2. CASE queue' = Append(queue, Head(sending))
        BY <1>0, <2>1, <3>2, RangeAppend DEF CallerType
      <3> QED BY <2>2, <3>1, <3>2
    <2> QED BY <1>4, <2>1, <2>3 DEF Send, Unsent, HeldPoints, CurPoints, mainVars
  <1>5. CASE Recv
    <2>1. Range(queue) = {Head(queue)} \cup Range(queue')
      BY <1>0, <1>5, RangeHeadTail DEF Recv, CallerType
    <2> QED BY <1>5, <2>1 DEF Recv, Unsent, HeldPoints, CurPoints
  <1>6. CASE UNCHANGED callerVars /\ (cur' = cur \/ cur' = None)
    BY <1>6 DEF callerVars, Unsent, HeldPoints, CurPoints
  <1>7. \/ \E p \in Points : PutPass(p) \/ PutFlush(p) \/ PutRepeat(p)
        \/ Send \/ Recv
        \/ UNCHANGED callerVars /\ (cur' = cur \/ cur' = None)
    BY DEF Next, Put, Mainloop, Environment, vars, LookupConn, ConnPut, ConnPutError,
           WriteVersion, ReadVersionResponse, ReadError, ConnError, Dial, AckInterval,
           ServerRead, Cut, LoseWire, mainVars
  <1> QED BY <1>2, <1>3, <1>4, <1>5, <1>6, <1>7

\* Only put and version write to a connection, only the server and the network
\* take from it.
LEMMA WireFrame ==
    ASSUME [Next]_vars
    PROVE  \/ ConnPut \/ WriteVersion
           \/ \E c \in Conns : ServerRead(c) \/ LoseWire(c)
           \/ UNCHANGED <<wire, arrived>>
  BY DEF Next, Put, PutPass, PutFlush, PutRepeat, Offer, Send, Mainloop, Environment, vars,
         Recv, LookupConn, ConnPutError, ReadVersionResponse, ReadError, ConnError, Dial,
         AckInterval, Cut, netVars

\* What a server's read does to the log of arrivals.
LEMMA ArrivalStep ==
    ASSUME TypeOK, AtMostOnce, NEW c \in Conns, NEW m \in Points, m \notin ArrivedPoints,
           NEW b \in BOOLEAN,
           arrived' = Append(arrived, [point |-> m, conn |-> c, ok |-> b])
    PROVE  ArrivedPoints' = ArrivedPoints \cup {m} /\ AtMostOnce'
  <1> DEFINE a == [point |-> m, conn |-> c, ok |-> b]
  <1>1. arrived \in Seq(Arrivals) /\ a \in Arrivals /\ a.point = m
    BY DEF TypeOK, NetType, Arrivals
  <1> HIDE DEF a
  <1>2. /\ DOMAIN arrived = 1..Len(arrived) /\ Len(arrived) \in Nat
        /\ DOMAIN arrived' = 1..Len(arrived) + 1
        /\ \A i \in 1..Len(arrived) : arrived'[i] = arrived[i]
        /\ arrived'[Len(arrived) + 1] = a
    BY <1>1, AppendProperties, LenProperties DEF a
  <1>3. \A i \in 1..Len(arrived) : arrived[i].point \in ArrivedPoints
    BY <1>2 DEF ArrivedPoints
  <1>4. AtMostOnce'
    BY <1>1, <1>2, <1>3 DEF AtMostOnce
  <1>5. ArrivedPoints' = {arrived'[i].point : i \in 1..Len(arrived) + 1}
    BY <1>2 DEF ArrivedPoints
  <1>6. ArrivedPoints = {arrived[i].point : i \in 1..Len(arrived)}
    BY <1>2 DEF ArrivedPoints
  <1>7. ASSUME NEW i \in 1..Len(arrived) + 1
        PROVE  arrived'[i].point \in ArrivedPoints \cup {m}
    <2>1. i \in 1..Len(arrived) \/ i = Len(arrived) + 1
      BY <1>2
    <2> QED BY <2>1, <1>1, <1>2, <1>3
  <1>8. ASSUME NEW i \in 1..Len(arrived)
        PROVE  arrived[i].point \in ArrivedPoints'
    BY <1>2, <1>5
  <1>9. m \in ArrivedPoints'
    BY <1>1, <1>2, <1>5
  <1> QED BY <1>4, <1>5, <1>6, <1>7, <1>8, <1>9

\* Writing a fresh message, or a version request.
LEMMA SentOnceAppend ==
    ASSUME NEW w \in Seq(Messages), SentOnce(w), NEW m \in Messages, m = Version \/ m \notin Range(w)
    PROVE  SentOnce(Append(w, m))
  <1>1. /\ DOMAIN Append(w, m) = 1..Len(w) + 1
        /\ \A i \in 1..Len(w) : Append(w, m)[i] = w[i] /\ w[i] \in Range(w)
        /\ Append(w, m)[Len(w) + 1] = m
        /\ Len(w) \in Nat
        /\ DOMAIN w = 1..Len(w)
    BY AppendProperties, LenProperties, RangeEquality
  <1> QED BY <1>1 DEF SentOnce

\* Reading a message.
LEMMA SentOnceTail ==
    ASSUME NEW w \in Seq(Messages), SentOnce(w), w # <<>>
    PROVE  SentOnce(Tail(w)) /\ (Head(w) # Version => Head(w) \notin Range(Tail(w)))
  BY DistinctTail DEF SentOnce

\* Writing to and reading from one connection, seen as sets of messages.
LEMMA WireChange ==
    ASSUME TypeOK, WireInv, NEW c \in Conns
    PROVE  /\ wire[c] \in Seq(Messages)
           /\ \A t : wire' = [wire EXCEPT ![c] = t] =>
                 wire'[c] = t /\ \A d \in Conns \ {c} : wire'[d] = wire[d]
           /\ \A m \in Messages : Range(Append(wire[c], m)) = Range(wire[c]) \cup {m}
           /\ wire[c] # <<>> =>
                 /\ Head(wire[c]) \in Messages
                 /\ Range(wire[c]) = {Head(wire[c])} \cup Range(Tail(wire[c]))
                 /\ Head(wire[c]) # Version => Head(wire[c]) \notin Range(Tail(wire[c]))
  <1>1. wire \in [Conns -> Seq(Messages)] /\ wire[c] \in Seq(Messages)
    BY DEF TypeOK, NetType
  <1>2. \A t : wire' = [wire EXCEPT ![c] = t] =>
            wire'[c] = t /\ \A d \in Conns \ {c} : wire'[d] = wire[d]
    BY <1>1
  <1>3. \A m \in Messages : Range(Append(wire[c], m)) = Range(wire[c]) \cup {m}
    BY <1>1, RangeAppend
  <1>4. wire[c] # <<>> =>
            /\ Head(wire[c]) \in Messages
            /\ Range(wire[c]) = {Head(wire[c])} \cup Range(Tail(wire[c]))
    BY <1>1, RangeHeadTail
  <1>5. wire[c] # <<>> /\ Head(wire[c]) # Version => Head(wire[c]) \notin Range(Tail(wire[c]))
    <2>1. SentOnce(wire[c])
      BY DEF WireInv
    <2> QED BY <1>1, <2>1, SentOnceTail
  <1> QED BY <1>1, <1>2, <1>3, <1>4, <1>5

LEMMA WireStep == IInv /\ [Next]_vars => WireInv'
  <1> SUFFICES ASSUME IInv, [Next]_vars PROVE WireInv'
    OBVIOUS
  <1>0. TypeOK /\ PoolInv /\ Accounted /\ WireInv /\ AtMostOnce /\ MainType /\ PoolType /\ NetType
    BY DEF IInv, TypeOK, WireInv
  <1>a. pc \in {"put", "ack"} => conn \in Conns
    BY <1>0, RangeOfSeq DEF PoolInv, PoolType
  <1>b. (offered \ Unsent) \subseteq (offered' \ Unsent')
    BY UnsentStep
  <1>c. Accounted'
    BY AccountedStep
  <1>d. Version \notin Points
    BY ClientAssumption
  <1>1. CASE UNCHANGED <<wire, arrived>>
    <2>1. ArrivedPoints' = ArrivedPoints /\ AtMostOnce'
      BY <1>0, <1>1 DEF ArrivedPoints, AtMostOnce
    <2> QED BY <1>0, <1>b, <1>1, <2>1 DEF WireInv
  <1>2. CASE ConnPut /\ conn \in open
    <2>1. /\ conn \in Conns /\ cur \in Points /\ cur \in Unsent /\ cur \in offered
          /\ cur # Version /\ cur \in Messages
      BY <1>0, <1>2, <1>a, <1>d DEF ConnPut, PoolInv, MainType, CurPoints, Unsent, Accounted, Messages
    <2>2. /\ wire' = [wire EXCEPT ![conn] = Append(wire[conn], cur)] /\ offered' = offered
          /\ ArrivedPoints' = ArrivedPoints /\ AtMostOnce'
      BY <1>0, <1>2 DEF ConnPut, callerVars, ArrivedPoints, AtMostOnce
    <2>3. cur \notin Unsent'
      <3>1. cur \in PendingPoints'
        BY <1>0, <1>2, <2>1, PendingStep DEF ConnPut
      <3> QED BY <3>1, <1>c DEF Accounted
    <2>4. /\ Range(wire'[conn]) = Range(wire[conn]) \cup {cur}
          /\ wire'[conn] = Append(wire[conn], cur) /\ wire[conn] \in Seq(Messages)
          /\ \A d \in Conns \ {conn} : wire'[d] = wire[d]
      BY <1>0, <2>1, <2>2, WireChange
    <2>5. cur \notin ArrivedPoints /\ \A d \in Conns : cur \notin Range(wire[d])
      BY <1>0, <2>1 DEF WireInv
    <2>6. SentOnce(wire'[conn])
      BY <1>0, <2>1, <2>4, <2>5, SentOnceAppend DEF WireInv
    <2>7. \A d \in Conns : SentOnce(wire'[d])
      BY <1>0, <2>4, <2>6 DEF WireInv
    <2>8. \A d \in Conns : /\ Range(wire'[d]) \subseteq (offered' \ Unsent') \cup {Version}
                           /\ Range(wire'[d]) \cap ArrivedPoints = {}
      BY <1>0, <1>b, <2>1, <2>2, <2>3, <2>4, <2>5 DEF WireInv
    <2>9. \A d, e \in Conns : d # e => Range(wire'[d]) \cap Range(wire'[e]) \subseteq {Version}
      <3>1. \A d \in Conns : Range(wire'[d]) \subseteq Range(wire[d]) \cup {cur}
        BY <2>4
      <3>2. \A d, e \in Conns : d # e => Range(wire[d]) \cap Range(wire[e]) \subseteq {Version}
        BY <1>0 DEF WireInv
      <3>3. \A d \in Conns \ {conn} : cur \notin Range(wire'[d])
        BY <2>4, <2>5
      <3> QED BY <3>1, <3>2, <3>3
    <2>10. ArrivedPoints' \subseteq offered' \ Unsent'
      BY <1>0, <1>b, <2>2 DEF WireInv
    <2> QED BY <2>2, <2>7, <2>8, <2>9, <2>10 DEF WireInv
  <1>3. CASE WriteVersion /\ conn \in open
    <2>1. conn \in Conns /\ Version \in Messages
      BY <1>3, <1>a DEF WriteVersion, Messages
    <2>2. /\ wire' = [wire EXCEPT ![conn] = Append(wire[conn], Version)] /\ offered' = offered
          /\ ArrivedPoints' = ArrivedPoints /\ AtMostOnce'
      BY <1>0, <1>3 DEF WriteVersion, callerVars, ArrivedPoints, AtMostOnce
    <2>4. /\ Range(wire'[conn]) = Range(wire[conn]) \cup {Version}
          /\ wire'[conn] = Append(wire[conn], Version) /\ wire[conn] \in Seq(Messages)
          /\ \A d \in Conns \ {conn} : wire'[d] = wire[d]
      BY <1>0, <2>1, <2>2, WireChange
    <2>5. Version \notin ArrivedPoints
      BY <1>0, <1>d DEF WireInv, TypeOK, CallerType
    <2>6. SentOnce(wire'[conn])
      BY <1>0, <2>1, <2>4, SentOnceAppend DEF WireInv
    <2>7. \A d \in Conns : SentOnce(wire'[d])
      BY <1>0, <2>4, <2>6 DEF WireInv
    <2>8. \A d \in Conns : /\ Range(wire'[d]) \subseteq (offered' \ Unsent') \cup {Version}
                           /\ Range(wire'[d]) \cap ArrivedPoints = {}
      <3>1. \A d \in Conns : Range(wire'[d]) \subseteq Range(wire[d]) \cup {Version}
        BY <2>4
      <3>2. \A d \in Conns : /\ Range(wire[d]) \subseteq (offered \ Unsent) \cup {Version}
                             /\ Range(wire[d]) \cap ArrivedPoints = {}
        BY <1>0 DEF WireInv
      <3> QED BY <1>b, <2>5, <3>1, <3>2
    <2>9. \A d, e \in Conns : d # e => Range(wire'[d]) \cap Range(wire'[e]) \subseteq {Version}
      <3>1. \A d \in Conns : Range(wire'[d]) \subseteq Range(wire[d]) \cup {Version}
        BY <2>4
      <3>2. \A d, e \in Conns : d # e => Range(wire[d]) \cap Range(wire[e]) \subseteq {Version}
        BY <1>0 DEF WireInv
      <3> QED BY <3>1, <3>2
    <2>10. ArrivedPoints' \subseteq offered' \ Unsent'
      BY <1>0, <1>b, <2>2 DEF WireInv
    <2> QED BY <2>2, <2>7, <2>8, <2>9, <2>10 DEF WireInv
  <1>4. ASSUME NEW c \in Conns, ServerRead(c) PROVE WireInv'
    <2>1. wire[c] # <<>> /\ wire' = [wire EXCEPT ![c] = Tail(wire[c])] /\ offered' = offered
      BY <1>4 DEF ServerRead, callerVars
    <2>2. /\ Head(wire[c]) \in Messages
          /\ Range(wire[c]) = {Head(wire[c])} \cup Range(wire'[c])
          /\ Head(wire[c]) # Version => Head(wire[c]) \notin Range(wire'[c])
          /\ wire'[c] = Tail(wire[c]) /\ wire[c] \in Seq(Messages)
          /\ \A d \in Conns \ {c} : wire'[d] = wire[d]
      BY <1>0, <2>1, WireChange
    <2>3. \/ ArrivedPoints' = ArrivedPoints /\ AtMostOnce'
          \/ /\ Head(wire[c]) # Version /\ AtMostOnce'
             /\ ArrivedPoints' = ArrivedPoints \cup {Head(wire[c])}
      <3>1. CASE UNCHANGED arrived
        BY <1>0, <3>1 DEF ArrivedPoints, AtMostOnce
      <3>2. ASSUME NEW b \in BOOLEAN, Head(wire[c]) # Version,
                   arrived' = Append(arrived, [point |-> Head(wire[c]), conn |-> c, ok |-> b])
            PROVE  AtMostOnce' /\ ArrivedPoints' = ArrivedPoints \cup {Head(wire[c])}
        <4>1. Head(wire[c]) \in Points /\ Head(wire[c]) \notin ArrivedPoints
          BY <1>0, <2>2, <3>2 DEF Messages, WireInv
        <4> QED BY <1>0, <3>2, <4>1, ArrivalStep
      <3>3. \/ UNCHANGED arrived
            \/ /\ Head(wire[c]) # Version
               /\ \E b \in BOOLEAN : arrived' = Append(arrived, [point |-> Head(wire[c]), conn |-> c, ok |-> b])
        BY <1>4 DEF ServerRead
      <3> QED BY <3>1, <3>2, <3>3
    <2>6. SentOnce(wire'[c])
      <3>1. SentOnce(wire[c])
        BY <1>0 DEF WireInv
      <3> QED BY <2>1, <2>2, <3>1, SentOnceTail
    <2>7. \A d \in Conns : SentOnce(wire'[d])
      BY <1>0, <2>2, <2>6 DEF WireInv
    <2>8. \A d \in Conns : /\ Range(wire'[d]) \subseteq Range(wire[d])
                           /\ Range(wire'[d]) \cap ArrivedPoints' = {}
      BY <1>0, <2>2, <2>3 DEF WireInv
    <2>9. \A d, e \in Conns : d # e => Range(wire'[d]) \cap Range(wire'[e]) \subseteq {Version}
      BY <1>0, <2>8 DEF WireInv
    <2>10. ArrivedPoints' \subseteq offered' \ Unsent'
      BY <1>0, <1>b, <2>2, <2>3 DEF WireInv
    <2>11. AtMostOnce'
      BY <2>3
    <2>12. \A d \in Conns : Range(wire'[d]) \subseteq (offered' \ Unsent') \cup {Version}
      BY <1>0, <1>b, <2>8 DEF WireInv
    <2> QED BY <2>7, <2>8, <2>9, <2>10, <2>11, <2>12 DEF WireInv
  <1>5. ASSUME NEW c \in Conns, LoseWire(c) PROVE WireInv'
    <2>1. wire' = [wire EXCEPT ![c] = <<>>] /\ UNCHANGED <<offered, arrived>>
      BY <1>5 DEF LoseWire, callerVars
    <2>2. wire'[c] = <<>> /\ Range(wire'[c]) = {} /\ \A d \in Conns \ {c} : wire'[d] = wire[d]
      <3>1. wire'[c] = <<>> /\ \A d \in Conns \ {c} : wire'[d] = wire[d]
        BY <1>0, <2>1, WireChange
      <3> QED BY <3>1, RangeShort
    <2>3. ArrivedPoints' = ArrivedPoints /\ AtMostOnce'
      BY <1>0, <2>1 DEF ArrivedPoints, AtMostOnce
    <2>4. \A d \in Conns : Range(wire'[d]) \subseteq Range(wire[d])
      BY <2>2
    <2>5. \A d \in Conns : SentOnce(wire'[d])
      <3>1. SentOnce(wire'[c])
        BY <2>2 DEF SentOnce
      <3> QED BY <1>0, <2>2, <3>1 DEF WireInv
    <2> QED BY <1>0, <1>b, <2>3, <2>4, <2>5 DEF WireInv
  <1>6. CASE ConnPut /\ conn \notin open
    <2>1. UNCHANGED <<wire, arrived>>
      BY <1>6 DEF ConnPut
    <2> QED BY <1>1, <2>1
  <1>7. CASE WriteVersion /\ conn \notin open
    <2>1. UNCHANGED <<wire, arrived>>
      BY <1>7 DEF WriteVersion
    <2> QED BY <1>1, <2>1
  <1> QED BY <1>1, <1>2, <1>3, <1>4, <1>5, <1>6, <1>7, WireFrame

-------------------------------------------------------------------------------
\* Sequences that end with v, if they contain it at all.
LEMMA LastOnlyNone ==
    ASSUME NEW S, NEW s \in Seq(S), NEW v, v \notin Range(s)
    PROVE  LastOnly(s, v)
  BY RangeEquality, LenProperties DEF LastOnly

LEMMA LastOnlyAppend ==
    ASSUME NEW S, NEW s \in Seq(S), NEW v, NEW e \in S, v \notin Range(s)
    PROVE  LastOnly(Append(s, e), v)
  <1>1. /\ DOMAIN Append(s, e) = 1..Len(s) + 1 /\ Len(Append(s, e)) = Len(s) + 1
        /\ \A i \in 1..Len(s) : Append(s, e)[i] = s[i] /\ s[i] \in Range(s)
        /\ Len(s) \in Nat
    BY AppendProperties, LenProperties, RangeEquality
  <1> QED BY <1>1 DEF LastOnly

LEMMA LastOnlyTail ==
    ASSUME NEW S, NEW s \in Seq(S), NEW v, s # <<>>, LastOnly(s, v)
    PROVE  LastOnly(Tail(s), v) /\ (Head(s) = v => Tail(s) = <<>>)
  <1>1. /\ Tail(s) \in Seq(S)
        /\ DOMAIN Tail(s) = 1..Len(s) - 1
        /\ \A i \in 1..Len(s) - 1 : Tail(s)[i] = s[i + 1]
        /\ Len(s) \in Nat \ {0}
        /\ Head(s) = s[1]
        /\ DOMAIN s = 1..Len(s)
        /\ Len(Tail(s)) = Len(s) - 1
    BY HeadTailProperties, EmptySeq, LenProperties
  <1>2. LastOnly(Tail(s), v)
    BY <1>1 DEF LastOnly
  <1>3. ASSUME Head(s) = v PROVE Tail(s) = <<>>
    <2>1. Len(s) = 1
      BY <1>1, <1>3 DEF LastOnly
    <2> QED BY <1>1, <2>1, EmptySeq
  <1> QED BY <1>2, <1>3

LEMMA LastOnlyConcat ==
    ASSUME NEW s \in Seq(Lines), "part2" \notin Range(s)
    PROVE  /\ \A t \in VersionResponses : LastOnly(s \o t, "part2")
           /\ "part2" \notin Range(s \o <<"error">>)
  <1>1. <<"error">> \in Seq(Lines) /\ VersionResponses \subseteq Seq(Lines)
    BY DEF Lines, VersionResponses
  <1>2. ASSUME NEW t \in VersionResponses PROVE LastOnly(s \o t, "part2")
    <2>1. /\ Len(s) \in Nat /\ DOMAIN s = 1..Len(s)
          /\ Len(t) \in {1, 2} /\ (Len(t) = 2 => t[1] = "part1")
      BY LenProperties DEF VersionResponses
    <2>2. /\ DOMAIN (s \o t) = 1..Len(s) + Len(t) /\ Len(s \o t) = Len(s) + Len(t)
          /\ \A i \in 1..Len(s) : (s \o t)[i] = s[i] /\ s[i] \in Range(s)
          /\ Len(t) = 2 => (s \o t)[Len(s) + 1] = "part1"
      BY <1>1, <2>1, ConcatProperties, LenProperties, RangeEquality
    <2>3. ASSUME NEW i \in DOMAIN (s \o t), (s \o t)[i] = "part2" PROVE i = Len(s \o t)
      <3>1. i \notin 1..Len(s)
        BY <2>2, <2>3
      <3>2. Len(t) = 2 => i # Len(s) + 1
        BY <2>2, <2>3
      <3>3. i \in Nat /\ 1 <= i /\ i <= Len(s) + Len(t) /\ ~(1 <= i /\ i <= Len(s))
        BY <2>1, <2>2, <3>1
      <3>4. \A m, k \in Nat : \A n \in {1, 2} :
                1 <= k /\ k <= m + n /\ ~(1 <= k /\ k <= m) /\ (n = 2 => k # m + 1) => k = m + n
        OBVIOUS
      <3>5. i = Len(s) + Len(t)
        BY <2>1, <3>2, <3>3, <3>4
      <3> QED BY <2>2, <3>5
    <2> QED BY <2>3 DEF LastOnly
  <1>3. Range(s \o <<"error">>) = Range(s) \cup Range(<<"error">>)
    <2> DEFINE e == <<"error">>
    <2>1. e \in Seq(Lines)
      BY <1>1
    <2> HIDE DEF e
    <2>2. Range(s \o e) = Range(s) \cup Range(e)
      BY <2>1, RangeConcat
    <2> QED BY <2>2 DEF e
  <1>4. "part2" \notin Range(<<"error">>)
    BY RangeShort
  <1> QED BY <1>2, <1>3, <1>4

\* Changing the response lines of one connection.
LEMMA RespChange ==
    ASSUME TypeOK, NEW c \in Conns
    PROVE  /\ resp[c] \in Seq(Lines)
           /\ \A t : resp' = [resp EXCEPT ![c] = t] =>
                 resp'[c] = t /\ \A d \in Conns \ {c} : resp'[d] = resp[d]
  BY DEF TypeOK, NetType

\* The caller, the timers and mainloop before it writes do not disturb the
\* protocol.
LEMMA AckIdle ==
    ASSUME AckInv, UNCHANGED <<up, open, wire, resp, pending, arrived, acked>>,
           \/ UNCHANGED <<pc, conn>>
           \/ pc \notin {"read", "error"} /\ pc' # "read"
           \/ pc = "read" /\ pc' = "error" /\ conn' = conn
    PROVE  AckInv'
  <1>1. ArrivedPoints' = ArrivedPoints
    BY DEF ArrivedPoints
  <1> QED BY <1>1 DEF AckInv, Quiet, Carried, Awaited, AckSound

\* A put follows every earlier put of its connection, and no version request.
LEMMA AckConnPut == IInv /\ ConnPut => AckInv'
  <1> SUFFICES ASSUME IInv, ConnPut PROVE AckInv'
    OBVIOUS
  <1>0. TypeOK /\ PoolInv /\ Accounted /\ WireInv /\ AckInv /\ MainType /\ PoolType
    BY DEF IInv, TypeOK
  <1>1. /\ conn \in Conns /\ cur \in Points /\ cur \in Messages /\ cur # Version
        /\ pc = "put" /\ pc' \notin {"read", "error"} /\ conn' = conn
    BY <1>0, RangeOfSeq, ClientAssumption DEF ConnPut, PoolInv, PoolType, MainType, Messages
  <1>2. /\ UNCHANGED <<up, open, resp, acked>> /\ ArrivedPoints' = ArrivedPoints
        /\ pending' = [pending EXCEPT ![conn] = Append(@, cur)]
    BY DEF ConnPut, ArrivedPoints, fateVars
  <1>3. /\ Range(pending'[conn]) = Range(pending[conn]) \cup {cur}
        /\ \A d \in Conns \ {conn} : Range(pending'[d]) = Range(pending[d])
    BY <1>0, <1>1, <1>2, PendingStep
  <1>4. CASE conn \in open
    <2>1. /\ Range(wire'[conn]) = Range(wire[conn]) \cup {cur}
          /\ \A d \in Conns \ {conn} : wire'[d] = wire[d]
      <3>1. wire' = [wire EXCEPT ![conn] = Append(@, cur)]
        BY <1>4 DEF ConnPut
      <3> QED BY <1>0, <1>1, <3>1, WireChange
    <2>2. \A d \in Conns : Version \in Range(wire'[d]) => Version \in Range(wire[d])
      BY <1>1, <2>1
    <2>3. ASSUME NEW d \in open'
          PROVE  Range(pending'[d]) \subseteq ArrivedPoints' \cup Range(wire'[d])
      <3>1. d \in open /\ d \in Conns
        BY <1>0, <1>2 DEF TypeOK, NetType
      <3>2. Range(pending[d]) \subseteq ArrivedPoints \cup Range(wire[d])
        BY <1>0, <3>1 DEF AckInv, Carried
      <3>3. CASE d = conn
        BY <1>2, <1>3, <2>1, <3>2, <3>3
      <3>4. CASE d # conn
        BY <1>2, <1>3, <2>1, <3>1, <3>2, <3>4
      <3> QED BY <3>3, <3>4
    <2>4. \A d \in Range(up') : Version \notin Range(wire'[d]) /\ "part2" \notin Range(resp'[d])
      BY <1>0, <1>1, <1>2, <2>2, RangeOfSeq DEF AckInv, Quiet, PoolType
    <2> QED BY <1>0, <1>1, <1>2, <2>3, <2>4 DEF AckInv, Quiet, Carried, AckSound
  <1>5. CASE conn \notin open
    <2>1. wire' = wire
      BY <1>5 DEF ConnPut
    <2>2. \A d \in open' : Range(pending'[d]) \subseteq ArrivedPoints' \cup Range(wire'[d])
      BY <1>0, <1>2, <1>3, <1>5, <2>1 DEF AckInv, Carried, TypeOK, NetType
    <2> QED BY <1>0, <1>1, <1>2, <2>1, <2>2 DEF AckInv, Quiet, Carried, AckSound
  <1> QED BY <1>4, <1>5

\* version writes its request behind everything that is pending.
LEMMA AckWriteVersion == IInv /\ WriteVersion => AckInv'
  <1> SUFFICES ASSUME IInv, WriteVersion PROVE AckInv'
    OBVIOUS
  <1>0. TypeOK /\ PoolInv /\ WireInv /\ AckInv /\ PoolType
    BY DEF IInv, TypeOK
  <1>1. /\ conn \in Conns /\ conn \in Range(up) /\ Version \in Messages
        /\ pc = "ack" /\ pc' = "read" /\ conn' = conn
    BY <1>0, RangeOfSeq DEF WriteVersion, PoolInv, PoolType, Messages
  <1>2. UNCHANGED <<up, open, resp, acked, pending>> /\ ArrivedPoints' = ArrivedPoints
    BY DEF WriteVersion, ArrivedPoints, fateVars, poolVars
  <1>3. Version \notin Range(wire[conn]) /\ "part2" \notin Range(resp[conn])
    BY <1>0, <1>1 DEF AckInv, Quiet
  <1>4. LastOnly(resp'[conn], "part2") /\ "part2" \notin Range(resp'[conn])
    BY <1>0, <1>1, <1>2, <1>3, RespChange, LastOnlyNone
  <1>5. CASE conn \in open
    <2>1. /\ Range(wire'[conn]) = Range(wire[conn]) \cup {Version}
          /\ wire'[conn] = Append(wire[conn], Version) /\ wire[conn] \in Seq(Messages)
          /\ \A d \in Conns \ {conn} : wire'[d] = wire[d]
      BY <1>0, <1>1, <1>5, WireChange DEF WriteVersion
    <2>2. LastOnly(wire'[conn], Version)
      BY <1>1, <1>3, <2>1, LastOnlyAppend
    <2>3. \A d \in open' : Range(pending'[d]) \subseteq ArrivedPoints' \cup Range(wire'[d])
      BY <1>0, <1>1, <1>2, <2>1 DEF AckInv, Carried, TypeOK, NetType
    <2>4. \A d \in Range(up') \ {conn} :
              Version \notin Range(wire'[d]) /\ "part2" \notin Range(resp'[d])
      BY <1>0, <1>1, <1>2, <2>1, RangeOfSeq DEF AckInv, Quiet, PoolType
    <2>5. Range(pending'[conn]) \subseteq ArrivedPoints' \cup Range(wire'[conn])
      BY <1>2, <1>5, <2>3
    <2> QED BY <1>0, <1>1, <1>2, <1>4, <2>2, <2>3, <2>4, <2>5
            DEF AckInv, Quiet, Carried, Awaited, AckSound
  <1>6. CASE conn \notin open
    <2>1. wire' = wire
      BY <1>6 DEF WriteVersion
    <2>2. LastOnly(wire'[conn], Version)
      BY <1>0, <1>1, <1>3, <2>1, WireChange, LastOnlyNone
    <2> QED BY <1>0, <1>1, <1>2, <1>3, <1>4, <2>1, <2>2
            DEF AckInv, Quiet, Carried, Awaited, AckSound
  <1> QED BY <1>5, <1>6

\* The second part of the version response is the last line, and when it is
\* there all that was pending has arrived.
LEMMA AckRead == IInv /\ ReadVersionResponse => AckInv'
  <1> SUFFICES ASSUME IInv, ReadVersionResponse PROVE AckInv'
    OBVIOUS
  <1>0. TypeOK /\ PoolInv /\ WireInv /\ AckInv /\ PoolType /\ NetType /\ Accounted
    BY DEF IInv, TypeOK
  <1>1. /\ conn \in Conns /\ conn \in Range(up) /\ conn' = conn
        /\ pc = "read" /\ resp[conn] # <<>> /\ resp[conn] \in Seq(Lines)
    BY <1>0, RangeOfSeq DEF ReadVersionResponse, PoolInv, PoolType, NetType
  <1>2. UNCHANGED <<up, open, wire>> /\ ArrivedPoints' = ArrivedPoints
    BY DEF ReadVersionResponse, ArrivedPoints
  <1>3. resp'[conn] = Tail(resp[conn]) /\ \A d \in Conns \ {conn} : resp'[d] = resp[d]
    BY <1>0, <1>1, RespChange DEF ReadVersionResponse
  <1>4. Range(resp[conn]) = {Head(resp[conn])} \cup Range(resp'[conn])
    BY <1>1, <1>3, RangeHeadTail
  <1>5. Awaited(conn)
    BY <1>0, <1>1 DEF AckInv
  <1>6. LastOnly(resp[conn], "part2")
    BY <1>5 DEF Awaited
  <1>7. LastOnly(resp'[conn], "part2") /\ (Head(resp[conn]) = "part2" => resp'[conn] = <<>>)
    BY <1>1, <1>3, <1>6, LastOnlyTail
  <1>8. \A d \in Range(up) \ {conn} : Version \notin Range(wire'[d]) /\ "part2" \notin Range(resp'[d])
    BY <1>0, <1>2, <1>3, RangeOfSeq DEF AckInv, Quiet, PoolType
  <1>9. CASE UNCHANGED <<pc, pending, ackDue, acked>>
    <2>1. \A d \in open' : Range(pending'[d]) \subseteq ArrivedPoints' \cup Range(wire'[d])
      BY <1>0, <1>2, <1>9 DEF AckInv, Carried
    <2>2. /\ LastOnly(wire'[conn], Version)
          /\ "part2" \in Range(resp'[conn]) => wire'[conn] = <<>>
          /\ Version \in Range(wire'[conn]) \/ "part2" \in Range(resp'[conn])
               => Range(pending'[conn]) \subseteq ArrivedPoints' \cup Range(wire'[conn])
      BY <1>2, <1>4, <1>5, <1>9 DEF Awaited, Quiet, Carried
    <2> QED BY <1>0, <1>1, <1>2, <1>7, <1>8, <1>9, <2>1, <2>2
            DEF AckInv, Quiet, Carried, Awaited, AckSound
  <1>10. CASE /\ Head(resp[conn]) = "part2" /\ acked' = acked \cup Range(pending[conn])
              /\ pending' = [pending EXCEPT ![conn] = <<>>] /\ pc' = "recv"
    <2>1. wire[conn] = <<>> /\ Range(pending[conn]) \subseteq ArrivedPoints \cup Range(wire[conn])
      BY <1>4, <1>5, <1>10 DEF Awaited, Quiet, Carried
    <2>2. Range(wire[conn]) = {} /\ Range(resp'[conn]) = {}
      BY <1>7, <1>10, <2>1, RangeShort
    <2>3. Range(pending'[conn]) = {} /\ \A d \in Conns \ {conn} : Range(pending'[d]) = Range(pending[d])
      BY <1>0, <1>1, <1>10, PendingStep
    <2>4. \A d \in open' : Range(pending'[d]) \subseteq ArrivedPoints' \cup Range(wire'[d])
      BY <1>0, <1>2, <2>3 DEF AckInv, Carried, NetType
    <2>5. \A d \in Range(up') : Version \notin Range(wire'[d]) /\ "part2" \notin Range(resp'[d])
      BY <1>2, <1>8, <2>2
    <2>6. acked' \subseteq ArrivedPoints'
      BY <1>0, <1>2, <1>10, <2>1, <2>2 DEF AckInv, AckSound
    <2> QED BY <1>10, <2>4, <2>5, <2>6 DEF AckInv, Quiet, Carried, AckSound
  <1> QED BY <1>9, <1>10 DEF ReadVersionResponse

\* A connection that fails leaves the pool.
LEMMA AckConnError == IInv /\ ConnError => AckInv'
  <1> SUFFICES ASSUME IInv, ConnError PROVE AckInv'
    OBVIOUS
  <1>0. TypeOK /\ PoolInv /\ WireInv /\ AckInv /\ PoolType /\ NetType /\ Accounted
    BY DEF IInv, TypeOK
  <1>1. conn \in Conns /\ conn' = conn /\ pc = "error" /\ pc' = "recv" /\ open' = open \ {conn}
    BY <1>0, RangeOfSeq DEF ConnError, PoolInv, PoolType
  <1>2. UNCHANGED <<wire, acked>> /\ ArrivedPoints' = ArrivedPoints
    BY DEF ConnError, ArrivedPoints
  <1>3. \A d \in Conns \ {conn} : resp'[d] = resp[d] /\ Range(pending'[d]) = Range(pending[d])
    <2>1. \A d \in Conns \ {conn} : resp'[d] = resp[d]
      BY <1>0, <1>1, RespChange DEF ConnError
    <2>2. \A d \in Conns \ {conn} : Range(pending'[d]) = Range(pending[d])
      BY <1>0, <1>1, PendingStep DEF ConnError
    <2> QED BY <2>1, <2>2
  <1>4. Range(up') = Range(up) \ {conn}
    <2>1. PICK i \in DOMAIN up : up[i] = conn /\ up' = RemoveAt(up, i)
      BY DEF ConnError
    <2>2. i \in 1..Len(up) /\ up \in Seq(Conns) /\ IsInjective(up)
      BY <1>0, <2>1, LenProperties DEF PoolType, PoolInv
    <2> QED BY <2>1, <2>2, RangeRemoveAt
  <1>5. \A d \in Range(up') : Version \notin Range(wire'[d]) /\ "part2" \notin Range(resp'[d])
    BY <1>0, <1>2, <1>3, <1>4, RangeOfSeq DEF AckInv, Quiet, PoolType
  <1>6. \A d \in open' : Range(pending'[d]) \subseteq ArrivedPoints' \cup Range(wire'[d])
    BY <1>0, <1>1, <1>2, <1>3 DEF AckInv, Carried, NetType
  <1> QED BY <1>0, <1>1, <1>2, <1>5, <1>6 DEF AckInv, Quiet, Carried, AckSound

\* A fresh connection has nothing in flight.
LEMMA AckDial == ASSUME IInv, NEW h \in Hosts, NEW c \in Conns, Dial(h, c) PROVE AckInv'
  <1>0. TypeOK /\ PoolInv /\ WireInv /\ AckInv /\ PoolType /\ NetType
    BY DEF IInv, TypeOK
  <1>1. /\ UNCHANGED <<pc, conn, pending, wire, resp, acked>> /\ ArrivedPoints' = ArrivedPoints
        /\ open' = open \cup {c}
    BY DEF Dial, ArrivedPoints, mainVars, fateVars
  <1>2. wire[c] = <<>> /\ resp[c] = <<>> /\ pending[c] = <<>>
    BY <1>0 DEF Dial, PoolInv
  <1>3. Range(wire[c]) = {} /\ Range(resp[c]) = {} /\ Range(pending[c]) = {}
    BY <1>2, RangeShort
  <1>4. Range(up') = Range(up) \cup {c}
    BY <1>0, RangeAppend DEF Dial, PoolType
  <1>5. \A d \in open' : Range(pending'[d]) \subseteq ArrivedPoints' \cup Range(wire'[d])
    BY <1>0, <1>1, <1>3 DEF AckInv, Carried
  <1> QED BY <1>0, <1>1, <1>3, <1>4, <1>5 DEF AckInv, Quiet, Carried, Awaited, AckSound

\* The server reads in order, and answers a version request after all that
\* came before it.
LEMMA AckServerRead == ASSUME IInv, NEW c \in Conns, ServerRead(c) PROVE AckInv'
  <1> DEFINE head == Head(wire[c])
  <1>0. TypeOK /\ PoolInv /\ WireInv /\ AtMostOnce /\ AckInv /\ PoolType /\ NetType
    BY DEF IInv, TypeOK, WireInv
  <1>1. UNCHANGED <<pc, conn, up, pending, open, acked>>
    BY DEF ServerRead, mainVars, poolVars, fateVars
  <1>2. /\ wire[c] # <<>> /\ wire'[c] = Tail(wire[c]) /\ wire[c] \in Seq(Messages)
        /\ head \in Messages /\ Range(wire[c]) = {head} \cup Range(wire'[c])
        /\ \A d \in Conns \ {c} : wire'[d] = wire[d]
    BY <1>0, WireChange DEF ServerRead
  <1>3. \/ /\ head = Version /\ ArrivedPoints' = ArrivedPoints
           /\ \E lines \in VersionResponses : Respond(c, lines)
        \/ /\ head # Version /\ ArrivedPoints' = ArrivedPoints \cup {head}
           /\ resp' = resp \/ Respond(c, <<"error">>)
    <2>1. CASE /\ UNCHANGED arrived /\ head = Version
               /\ \E lines \in VersionResponses : Respond(c, lines)
      BY <2>1 DEF ArrivedPoints
    <2>2. ASSUME NEW b \in BOOLEAN, head # Version,
                 arrived' = Append(arrived, [point |-> head, conn |-> c, ok |-> b])
          PROVE  ArrivedPoints' = ArrivedPoints \cup {head}
      <3>1. head \in Points /\ head \notin ArrivedPoints
        BY <1>0, <1>2, <2>2 DEF Messages, WireInv
      <3> QED BY <1>0, <2>2, <3>1, ArrivalStep
    <2> QED BY <2>1, <2>2 DEF ServerRead
  <1>4. ArrivedPoints \subseteq ArrivedPoints'
    BY <1>3
  <1>5. \A d \in Conns \ {c} : resp'[d] = resp[d]
    BY <1>0, <1>3, RespChange DEF Respond
  <1>6. resp[c] \in Seq(Lines)
    BY <1>0 DEF NetType
  <1>7. ASSUME NEW d \in Conns, Range(pending[d]) \subseteq ArrivedPoints \cup Range(wire[d])
        PROVE  Range(pending'[d]) \subseteq ArrivedPoints' \cup Range(wire'[d])
    <2>1. Version \notin Range(pending[d])
      BY <1>0, RangeOfSeq, ClientAssumption DEF PoolType
    <2>2. CASE d = c
      BY <1>1, <1>2, <1>3, <1>7, <2>1, <2>2
    <2> QED BY <1>1, <1>2, <1>4, <1>7, <2>2
  <1>8. "part2" \notin Range(resp[c]) /\ head # Version => "part2" \notin Range(resp'[c])
    <2>1. ASSUME "part2" \notin Range(resp[c]), head # Version PROVE "part2" \notin Range(resp'[c])
      <3>1. resp'[c] = resp[c] \/ resp'[c] = resp[c] \o <<"error">>
        BY <1>0, <1>3, <2>1, RespChange DEF Respond
      <3> QED BY <1>6, <2>1, <3>1, LastOnlyConcat
    <2> QED BY <2>1
  <1>9. \A d \in Range(up') : pc' \notin {"read", "error"} \/ conn' # d
            => Version \notin Range(wire'[d]) /\ "part2" \notin Range(resp'[d])
    <2>1. ASSUME NEW d \in Range(up), pc \notin {"read", "error"} \/ conn # d
          PROVE  Version \notin Range(wire'[d]) /\ "part2" \notin Range(resp'[d])
      <3>1. d \in Conns /\ Version \notin Range(wire[d]) /\ "part2" \notin Range(resp[d])
        BY <1>0, <2>1, RangeOfSeq DEF AckInv, Quiet, PoolType
      <3>2. CASE d = c
        BY <1>2, <1>8, <3>1, <3>2
      <3>3. CASE d # c
        BY <1>2, <1>5, <3>1, <3>3
      <3> QED BY <3>2, <3>3
    <2> QED BY <1>1, <2>1
  <1>10. \A d \in open' : Range(pending'[d]) \subseteq ArrivedPoints' \cup Range(wire'[d])
    BY <1>0, <1>1, <1>7 DEF AckInv, Carried, NetType
  <1>11. acked' \subseteq ArrivedPoints'
    BY <1>0, <1>1, <1>4 DEF AckInv, AckSound
  <1>12. ASSUME pc = "read"
         PROVE  /\ LastOnly(wire'[conn], Version)
                /\ LastOnly(resp'[conn], "part2")
                /\ "part2" \in Range(resp'[conn]) => wire'[conn] = <<>>
                /\ Version \in Range(wire'[conn]) \/ "part2" \in Range(resp'[conn])
                     => Range(pending'[conn]) \subseteq ArrivedPoints' \cup Range(wire'[conn])
    <2>0. conn \in Conns
      BY <1>0, <1>12, RangeOfSeq DEF PoolInv, PoolType
    <2>1. /\ LastOnly(wire[conn], Version)
          /\ LastOnly(resp[conn], "part2")
          /\ "part2" \in Range(resp[conn]) => wire[conn] = <<>>
          /\ Version \in Range(wire[conn]) \/ "part2" \in Range(resp[conn])
               => Range(pending[conn]) \subseteq ArrivedPoints \cup Range(wire[conn])
      BY <1>0, <1>12 DEF AckInv, Awaited, Quiet, Carried
    <2>2. CASE conn # c
      <3>1. wire'[conn] = wire[conn] /\ resp'[conn] = resp[conn]
        BY <1>2, <1>5, <2>0, <2>2
      <3> QED BY <1>7, <2>0, <2>1, <3>1
    <2>3. CASE conn = c
      <3>1. "part2" \notin Range(resp[c])
        BY <1>2, <2>1, <2>3
      <3>2. LastOnly(wire'[c], Version) /\ (head = Version => wire'[c] = <<>>)
        BY <1>2, <2>1, <2>3, LastOnlyTail
      <3>3. CASE head = Version
        <4>1. resp'[c] = resp[c] \/ \E t \in VersionResponses : resp'[c] = resp[c] \o t
          BY <1>0, <1>3, <3>3, RespChange DEF Respond
        <4>2. LastOnly(resp'[c], "part2")
          BY <1>6, <3>1, <4>1, LastOnlyConcat, LastOnlyNone
        <4>3. Version \in Range(wire[c])
          BY <1>2, <3>3
        <4> QED BY <1>7, <2>0, <2>1, <2>3, <3>2, <3>3, <4>2, <4>3
      <3>4. CASE head # Version
        <4>1. "part2" \notin Range(resp'[c])
          BY <1>8, <3>1, <3>4
        <4>2. resp'[c] = resp[c] \/ resp'[c] = resp[c] \o <<"error">>
          BY <1>0, <1>3, <3>4, RespChange DEF Respond
        <4>3. resp'[c] \in Seq(Lines)
          BY <1>6, <4>2 DEF Lines
        <4>4. LastOnly(resp'[c], "part2")
          BY <4>1, <4>3, LastOnlyNone
        <4>5. Version \in Range(wire'[c]) => Version \in Range(wire[c])
          BY <1>2
        <4> QED BY <1>7, <2>0, <2>1, <2>3, <3>2, <4>1, <4>4, <4>5
      <3> QED BY <3>3, <3>4
    <2> QED BY <2>2, <2>3
  <1> QED BY <1>1, <1>9, <1>10, <1>11, <1>12 DEF AckInv, Quiet, Carried, Awaited, AckSound

\* A cut connection can only lose responses ...
LEMMA AckCut == ASSUME IInv, NEW c \in Conns, Cut(c) PROVE AckInv'
  <1>0. TypeOK /\ PoolInv /\ AckInv /\ PoolType /\ NetType
    BY DEF IInv, TypeOK
  <1>1. /\ UNCHANGED <<pc, conn, up, pending, wire, acked>> /\ open' = open \ {c}
        /\ ArrivedPoints' = ArrivedPoints
    BY DEF Cut, mainVars, poolVars, fateVars, ArrivedPoints
  <1>2. \A d \in Conns : resp'[d] = resp[d] \/ resp'[d] = <<>>
    BY <1>0, RespChange DEF Cut
  <1>3. \A d \in Conns : "part2" \in Range(resp'[d]) => "part2" \in Range(resp[d])
    BY <1>2, RangeShort
  <1>4. \A d \in Conns : LastOnly(resp[d], "part2") => LastOnly(resp'[d], "part2")
    BY <1>2 DEF LastOnly
  <1>5. pc \in {"read"} => conn \in Conns
    BY <1>0, RangeOfSeq DEF PoolInv, PoolType
  <1>6. Range(up) \subseteq Conns
    BY <1>0, RangeOfSeq DEF PoolType
  <1> QED BY <1>0, <1>1, <1>3, <1>4, <1>5, <1>6 DEF AckInv, Quiet, Carried, Awaited, AckSound

\* ... and what it carried, version request included.
LEMMA AckLoseWire == ASSUME IInv, NEW c \in Conns, LoseWire(c) PROVE AckInv'
  <1>0. TypeOK /\ PoolInv /\ WireInv /\ AckInv /\ PoolType /\ NetType
    BY DEF IInv, TypeOK
  <1>1. /\ UNCHANGED <<pc, conn, up, open, pending, resp, acked>> /\ c \notin open
        /\ wire[c] # <<>> /\ ArrivedPoints' = ArrivedPoints
    BY DEF LoseWire, mainVars, poolVars, fateVars, ArrivedPoints
  <1>2. wire'[c] = <<>> /\ \A d \in Conns \ {c} : wire'[d] = wire[d]
    BY <1>0, WireChange DEF LoseWire
  <1>3. Range(wire'[c]) = {} /\ LastOnly(wire'[c], Version)
    BY <1>2, RangeShort DEF LastOnly
  <1>4. \A d \in Conns : Version \in Range(wire'[d]) => Version \in Range(wire[d])
    BY <1>2, <1>3
  <1>5. \A d \in open' : Range(pending'[d]) \subseteq ArrivedPoints' \cup Range(wire'[d])
    BY <1>0, <1>1, <1>2 DEF AckInv, Carried, NetType
  <1>6. Range(up) \subseteq Conns
    BY <1>0, RangeOfSeq DEF PoolType
  <1>7. ASSUME pc = "read" PROVE Awaited(conn)'
    <2>0. conn \in Conns /\ Awaited(conn)
      BY <1>0, <1>7, RangeOfSeq DEF PoolInv, PoolType, AckInv
    <2>1. CASE conn = c
      BY <1>1, <1>2, <1>3, <2>0, <2>1 DEF Awaited, Quiet, Carried
    <2>2. CASE conn # c
      BY <1>1, <1>2, <2>0, <2>2 DEF Awaited, Quiet, Carried
    <2> QED BY <2>1, <2>2
  <1>8. \A d \in Range(up') : pc' \notin {"read", "error"} \/ conn' # d
            => Version \notin Range(wire'[d]) /\ "part2" \notin Range(resp'[d])
    BY <1>0, <1>1, <1>4, <1>6 DEF AckInv, Quiet
  <1> QED BY <1>0, <1>1, <1>5, <1>7, <1>8 DEF AckInv, Quiet, Carried, AckSound

LEMMA AckStep == IInv /\ [Next]_vars => AckInv'
  <1> SUFFICES ASSUME IInv, [Next]_vars PROVE AckInv'
    OBVIOUS
  <1>1. \/ ConnPut \/ WriteVersion \/ ReadVersionResponse \/ ConnError
        \/ \E h \in Hosts, c \in Conns : Dial(h, c)
        \/ \E c \in Conns : ServerRead(c) \/ Cut(c) \/ LoseWire(c)
        \/ /\ UNCHANGED <<up, open, wire, resp, pending, arrived, acked>>
           /\ \/ UNCHANGED <<pc, conn>>
              \/ pc \notin {"read", "error"} /\ pc' # "read"
              \/ pc = "read" /\ pc' = "error" /\ conn' = conn
    BY DEF Next, Put, PutPass, PutFlush, PutRepeat, Offer, Send, Drop, Mainloop, Environment, vars,
           Recv, LookupConn, ConnPutError, ReadError, AckInterval, mainVars, poolVars, netVars, fateVars
  <1>2. AckInv
    BY DEF IInv
  <1> QED BY <1>1, <1>2, AckIdle, AckConnPut, AckWriteVersion, AckRead, AckConnError,
             AckDial, AckServerRead, AckCut, AckLoseWire

-------------------------------------------------------------------------------
LEMMA InitInv == Init => IInv
  <1> SUFFICES ASSUME Init PROVE IInv
    OBVIOUS
  <1>0. /\ \A S : <<>> \in Seq(S)
        /\ Range(<<>>) = {} /\ Len(<<>>) = 0 /\ DOMAIN <<>> = {}
    BY EmptySeq, RangeShort
  <1>1. TypeOK
    <2>1. CallerType
      BY <1>0, ClientAssumption DEF Init, CallerType
    <2>2. MainType
      BY DEF Init, MainType
    <2>3. PoolType
      BY <1>0 DEF Init, PoolType
    <2>4. NetType
      BY <1>0, ClientAssumption DEF Init, NetType
    <2>5. FateType
      BY ClientAssumption DEF Init, FateType
    <2> QED BY <2>1, <2>2, <2>3, <2>4, <2>5 DEF TypeOK
  <1>2. CallerInv
    BY <1>0 DEF Init, CallerInv, IsInjective
  <1>3. PoolInv
    BY <1>0 DEF Init, PoolInv, IsInjective
  <1>4. HeldPoints = {} /\ CurPoints = {} /\ PendingPoints = {} /\ ArrivedPoints = {} /\ Unsent = {}
    <2>1. HeldPoints = {}
      BY DEF Init, HeldPoints, Range
    <2>2. PendingPoints = {}
      BY <1>0 DEF Init, PendingPoints
    <2>3. CurPoints = {} /\ ArrivedPoints = {}
      BY <1>0 DEF Init, CurPoints, ArrivedPoints
    <2> QED BY <1>0, <2>1, <2>2, <2>3 DEF Init, Unsent
  <1>5. Accounted
    BY <1>0, <1>4 DEF Init, Accounted
  <1>6. WireInv
    BY <1>0, <1>4 DEF Init, WireInv, SentOnce, AtMostOnce
  <1>7. AckInv
    BY <1>0, <1>4 DEF Init, AckInv, AckSound
  <1> QED BY <1>1, <1>2, <1>3, <1>5, <1>6, <1>7 DEF IInv

\* IInv is an inductive invariant of the client: the accounting of points, the
\* exclusiveness of the wires and the stop-and-wait protocol rest on each other.
THEOREM InductiveInvariant == Spec => []IInv
  <1>1. Init => IInv
    BY InitInv
  <1>2. IInv /\ [Next]_vars => IInv'
    <2> SUFFICES ASSUME IInv, [Next]_vars PROVE IInv'
      OBVIOUS
    <2>1. TypeOK'
      BY TypeStep DEF IInv
    <2> QED BY <2>1, CallerStep, PoolStep, AccountedStep, WireStep, AckStep DEF IInv
  <1> QED BY <1>1, <1>2, PTL DEF Spec

\* Every variable of the client keeps its type; the queue never exceeds
\* clientMaxQueue.
THEOREM TypeCorrect == Spec => []TypeOK
  <1>1. IInv => TypeOK
    BY DEF IInv
  <1> QED BY <1>1, InductiveInvariant, PTL

\* Delivery is at most once: over any number of connections that fail, time out
\* and are replaced, no point reaches the servers twice.
THEOREM DeliveredAtMostOnce == Spec => []AtMostOnce
  <1>1. IInv => AtMostOnce
    BY DEF IInv, WireInv
  <1> QED BY <1>1, InductiveInvariant, PTL

\* ack forgets only points that a server has read.
THEOREM AcknowledgementSound == Spec => []AckSound
  <1>1. IInv => AckSound
    BY DEF IInv, AckInv
  <1> QED BY <1>1, InductiveInvariant, PTL

\* Every point handed to Put is in exactly one place at any time.
THEOREM EveryPointAccounted == Spec => []Accounted
  <1>1. IInv => Accounted
    BY DEF IInv
  <1> QED BY <1>1, InductiveInvariant, PTL

-------------------------------------------------------------------------------
\* The log of AtMostOnceFeed.
ArrivedLog == [i \in DOMAIN arrived |-> arrived[i].point]

\* The log has the elements, and grows with the arrivals, of the servers.
LEMMA ArrivedLogStep ==
    ASSUME TypeOK
    PROVE  /\ Range(ArrivedLog) = ArrivedPoints
           /\ \A c \in Conns, m \in Points, b \in BOOLEAN :
                 arrived' = Append(arrived, [point |-> m, conn |-> c, ok |-> b])
                 => ArrivedLog' = Append(ArrivedLog, m)
  <1>1. arrived \in Seq(Arrivals)
    BY DEF TypeOK, NetType
  <1>2. Range(ArrivedLog) = ArrivedPoints
    BY <1>1 DEF ArrivedLog, ArrivedPoints, Range
  <1>3. ASSUME NEW c \in Conns, NEW m \in Points, NEW b \in BOOLEAN,
               arrived' = Append(arrived, [point |-> m, conn |-> c, ok |-> b])
        PROVE  ArrivedLog' = Append(ArrivedLog, m)
    <2> DEFINE a == [point |-> m, conn |-> c, ok |-> b]
    <2>1. a \in Arrivals /\ a.point = m
      BY DEF Arrivals
    <2> HIDE DEF a
    <2>2. /\ DOMAIN arrived = 1..Len(arrived) /\ Len(arrived) \in Nat
          /\ DOMAIN arrived' = 1..Len(arrived) + 1
          /\ \A i \in 1..Len(arrived) : arrived'[i] = arrived[i] /\ arrived[i].point \in Points
          /\ arrived'[Len(arrived) + 1] = a
      <3>1. /\ DOMAIN arrived = 1..Len(arrived) /\ Len(arrived) \in Nat
            /\ DOMAIN arrived' = 1..Len(arrived) + 1
            /\ \A i \in 1..Len(arrived) : arrived'[i] = arrived[i]
            /\ arrived'[Len(arrived) + 1] = a
        BY <1>1, <1>3, <2>1, AppendProperties, LenProperties DEF a
      <3>2. \A i \in 1..Len(arrived) : arrived[i] \in Arrivals
        BY <1>1, <3>1
      <3>3. \A e \in Arrivals : e.point \in Points
        BY DEF Arrivals
      <3> QED BY <3>1, <3>2, <3>3
    <2>3. /\ ArrivedLog \in Seq(Points) /\ Len(ArrivedLog) = Len(arrived)
          /\ \A i \in 1..Len(arrived) : ArrivedLog[i] = arrived[i].point
      BY <2>2 DEF ArrivedLog
    <2>4. /\ ArrivedLog' = [i \in 1..Len(arrived) + 1 |-> arrived'[i].point]
      BY <2>2 DEF ArrivedLog
    <2>5. /\ Append(ArrivedLog, m) \in Seq(Points) /\ Len(Append(ArrivedLog, m)) = Len(arrived) + 1
          /\ \A i \in 1..Len(arrived) : Append(ArrivedLog, m)[i] = ArrivedLog[i]
          /\ Append(ArrivedLog, m)[Len(arrived) + 1] = m
      BY <2>3, AppendProperties
    <2>6. \A i \in 1..Len(arrived) + 1 : ArrivedLog'[i] = Append(ArrivedLog, m)[i] /\ ArrivedLog'[i] \in Points
      <3>1. ASSUME NEW i \in 1..Len(arrived) + 1
            PROVE  ArrivedLog'[i] = Append(ArrivedLog, m)[i] /\ ArrivedLog'[i] \in Points
        <4>1. CASE i \in 1..Len(arrived)
          BY <2>2, <2>3, <2>4, <2>5, <4>1
        <4>2. CASE i = Len(arrived) + 1
          <5>1. ArrivedLog'[i] = arrived'[i].point /\ arrived'[i] = a
            BY <2>2, <2>4, <4>2
          <5>2. ArrivedLog'[i] = m
            BY <2>1, <5>1
          <5>3. Append(ArrivedLog, m)[i] = m
            BY <2>5, <4>2
          <5> QED BY <5>2, <5>3
        <4>3. i \in 1..Len(arrived) \/ i = Len(arrived) + 1
          BY <2>2
        <4> QED BY <4>1, <4>2, <4>3
      <3> QED BY <3>1
    <2>7. ArrivedLog' \in Seq(Points) /\ Len(ArrivedLog') = Len(arrived) + 1
      BY <2>2, <2>4, <2>6
    <2> QED BY <2>2, <2>5, <2>6, <2>7, SeqEqual
  <1> QED BY <1>2, <1>3

\* Every step of the client is a step of the feed, or none.
LEMMA FeedStep == IInv /\ [Next]_vars => [Feed!FeedNext]_(Feed!feedVars)
  <1> SUFFICES ASSUME IInv, [Next]_vars PROVE Feed!FeedNext \/ UNCHANGED Feed!feedVars
    OBVIOUS
  <1>0. TypeOK /\ CallerInv /\ PoolInv /\ Accounted /\ WireInv /\ AckInv /\ CallerType /\ PoolType /\ FateType
    BY DEF IInv, TypeOK
  <1>a. arrived' = arrived => ArrivedLog' = ArrivedLog
    BY DEF ArrivedLog
  <1>b. Range(ArrivedLog) = ArrivedPoints
    BY <1>0, ArrivedLogStep
  <1>1. CASE UNCHANGED <<offered, arrived, acked, dropped>>
    BY <1>1, <1>a DEF Feed!feedVars, ArrivedLog
  <1>2. ASSUME NEW p \in Points, Offer(p) PROVE Feed!FeedNext
    <2>1. p \notin offered /\ offered' = offered \cup {p} /\ UNCHANGED <<arrived, acked, dropped>>
      BY <1>2 DEF Offer, netVars, fateVars
    <2> QED BY <1>2, <1>a, <2>1 DEF Feed!FeedNext, Feed!OfferPoint, ArrivedLog
  <1>3. CASE Send /\ ~UNCHANGED dropped
    <2>1. /\ Drop(<<Head(sending)>>, 0) /\ sending # <<>>
          /\ UNCHANGED <<offered, arrived, acked>>
      BY <1>3 DEF Send, fateVars, netVars
    <2>2. dropped' = dropped \cup {Head(sending)}
      BY <2>1, RangeShort DEF Drop
    <2>3. Head(sending) \in Range(sending) /\ Head(sending) \in Points
      BY <1>0, <2>1, RangeHeadTail DEF CallerType
    <2>4. {Head(sending)} \in SUBSET Points /\ {Head(sending)} \subseteq offered \ acked
      BY <1>0, <2>3 DEF Accounted, Unsent
    <2> QED BY <1>a, <2>1, <2>2, <2>4 DEF Feed!FeedNext, Feed!Report, ArrivedLog
  <1>4. CASE ReadVersionResponse /\ ~UNCHANGED acked
    <2>1. /\ pc = "read" /\ resp[conn] # <<>> /\ Head(resp[conn]) = "part2"
          /\ acked' = acked \cup Range(pending[conn])
          /\ UNCHANGED <<offered, arrived, dropped>>
      BY <1>4 DEF ReadVersionResponse, callerVars
    <2>2. conn \in Conns /\ resp[conn] \in Seq(Lines)
      BY <1>0, <2>1, RangeOfSeq DEF PoolInv, PoolType, TypeOK, NetType
    <2>3. "part2" \in Range(resp[conn])
      BY <2>1, <2>2, RangeHeadTail
    <2>4. wire[conn] = <<>> /\ Range(pending[conn]) \subseteq ArrivedPoints \cup Range(wire[conn])
      BY <1>0, <2>1, <2>3 DEF AckInv, Awaited, Quiet, Carried
    <2>5. Range(pending[conn]) \subseteq ArrivedPoints
      BY <2>4, RangeShort
    <2>6. Range(pending[conn]) \subseteq PendingPoints /\ PendingPoints \subseteq Points
      BY <1>0, <2>2, PendingStep
    <2>7. Range(pending[conn]) \subseteq ArrivedPoints \ dropped /\ Range(pending[conn]) \in SUBSET Points
      BY <1>0, <2>5, <2>6 DEF Accounted
    <2>8. Range(pending[conn]) \subseteq Feed!Range(ArrivedLog) \ dropped
      BY <1>b, <2>7 DEF Range, Feed!Range
    <2> QED BY <1>a, <2>1, <2>7, <2>8 DEF Feed!FeedNext, Feed!Confirm, ArrivedLog
  <1>5. CASE ConnError
    <2>1. /\ pc = "error" /\ dropped' = dropped \cup Range(pending[conn])
          /\ UNCHANGED <<offered, arrived, acked>>
      BY <1>5 DEF ConnError, Drop, callerVars
    <2>2. conn \in Conns
      BY <1>0, <2>1, RangeOfSeq DEF PoolInv, PoolType
    <2>3. Range(pending[conn]) \subseteq PendingPoints /\ PendingPoints \subseteq Points
      BY <1>0, <2>2, PendingStep
    <2>4. Range(pending[conn]) \subseteq offered \ acked /\ Range(pending[conn]) \in SUBSET Points
      BY <1>0, <2>3 DEF Accounted
    <2> QED BY <1>a, <2>1, <2>4 DEF Feed!FeedNext, Feed!Report, ArrivedLog
  <1>6. ASSUME NEW c \in Conns, ServerRead(c), ~UNCHANGED arrived PROVE Feed!FeedNext
    <2>1. /\ wire[c] # <<>> /\ Head(wire[c]) # Version
          /\ \E b \in BOOLEAN : arrived' = Append(arrived, [point |-> Head(wire[c]), conn |-> c, ok |-> b])
          /\ UNCHANGED <<offered, acked, dropped>>
      BY <1>6 DEF ServerRead, callerVars, fateVars
    <2>2. Head(wire[c]) \in Points /\ Head(wire[c]) \in Range(wire[c])
      BY <1>0, <2>1, WireChange DEF Messages
    <2>3. Head(wire[c]) \in offered \ ArrivedPoints
      BY <1>0, <2>1, <2>2 DEF WireInv
    <2>4. ArrivedLog' = Append(ArrivedLog, Head(wire[c]))
      BY <1>0, <2>1, <2>2, ArrivedLogStep
    <2>5. Head(wire[c]) \in offered \ Feed!Range(ArrivedLog)
      BY <1>b, <2>3 DEF Range, Feed!Range
    <2> QED BY <2>1, <2>2, <2>4, <2>5 DEF Feed!FeedNext, Feed!Process, ArrivedLog
  <1>7. CASE UNCHANGED vars
    BY <1>1, <1>7 DEF vars, callerVars, netVars, fateVars
  <1>8. ASSUME NEW p \in Points, Put(p) PROVE Feed!FeedNext
    BY <1>2, <1>8 DEF Put, PutPass, PutFlush, PutRepeat
  <1>9. CASE Send
    BY <1>1, <1>3, <1>9 DEF Send, netVars, fateVars
  <1>10. CASE Mainloop
    <2>1. CASE Recv \/ LookupConn \/ ConnPut \/ ConnPutError
      BY <1>1, <2>1 DEF Recv, LookupConn, ConnPut, ConnPutError, callerVars, netVars, fateVars
    <2>2. CASE WriteVersion \/ ReadError
      BY <1>1, <2>2 DEF WriteVersion, ReadError, callerVars, fateVars
    <2>3. CASE ReadVersionResponse
      BY <1>1, <1>4, <2>3 DEF ReadVersionResponse, callerVars
    <2> QED BY <1>5, <1>10, <2>1, <2>2, <2>3 DEF Mainloop
  <1>11. CASE (\E h \in Hosts, c \in Conns : Dial(h, c)) \/ (\E c \in Conns : AckInterval(c))
    BY <1>1, <1>11 DEF Dial, AckInterval, callerVars, netVars, fateVars
  <1>12. ASSUME NEW c \in Conns, ServerRead(c) \/ Cut(c) \/ LoseWire(c)
         PROVE  Feed!FeedNext \/ UNCHANGED Feed!feedVars
    BY <1>1, <1>6, <1>12 DEF ServerRead, Cut, LoseWire, callerVars, fateVars
  <1> QED BY <1>7, <1>8, <1>9, <1>10, <1>11, <1>12 DEF Next, Environment

\* The client implements AtMostOnceFeed: what its caller may rely on, whatever
\* the pool of connections does.
THEOREM ClientImplementsFeed == Spec => FeedSpec
  <1>1. Init => Feed!FeedInit
    <2>1. ASSUME Init PROVE ArrivedLog = <<>>
      BY <2>1 DEF Init, ArrivedLog
    <2> QED BY <2>1 DEF Init, Feed!FeedInit, ArrivedLog
  <1>2. IInv /\ [Next]_vars => [Feed!FeedNext]_(Feed!feedVars)
    BY FeedStep
  <1> QED BY <1>1, <1>2, InductiveInvariant, PTL DEF Spec, FeedSpec, Feed!Spec

-------------------------------------------------------------------------------
(* The pool is conserved.                                                    *)

\* The elements of s that f maps to h, and their positions.
ElementsAt(s, f, h)  == {c \in Range(s) : f[c] = h}
PositionsAt(s, f, h) == {i \in DOMAIN s : f[s[i]] = h}

\* The connections to h that are up.
UpAt(h) == ElementsAt(up, addr, h)

\* A sequence without repetitions that is in the domain of a function has as
\* many positions as elements with a given value.
LEMMA CountPositions ==
    ASSUME NEW S, NEW s \in Seq(S), IsInjective(s), NEW f, NEW h
    PROVE  /\ IsFiniteSet(ElementsAt(s, f, h))
           /\ Cardinality(PositionsAt(s, f, h)) = Cardinality(ElementsAt(s, f, h))
  <1> DEFINE I == {i \in DOMAIN s : f[s[i]] = h}
             C == {c \in Range(s) : f[c] = h}
             g == [i \in I |-> s[i]]
  <1>1. DOMAIN s = 1..Len(s) /\ Len(s) \in Nat /\ Range(s) = {s[i] : i \in 1..Len(s)}
    BY LenProperties, RangeEquality
  <1>2. IsFiniteSet(I)
    <2>1. IsFiniteSet(1..Len(s)) /\ I \in SUBSET (1..Len(s))
      BY <1>1, FS_Interval
    <2> HIDE DEF I
    <2> QED BY <2>1, FS_Subset
  <1>3. g \in Bijection(I, C)
    <2>1. \A i \in I : s[i] \in C
      BY <1>1
    <2>2. \A c \in C : \E i \in I : s[i] = c
      BY <1>1
    <2>3. \A i, j \in I : s[i] = s[j] => i = j
      BY DEF IsInjective
    <2> HIDE DEF I, C
    <2>4. g \in [I -> C] /\ DOMAIN g = I /\ \A i \in I : g[i] = s[i]
      BY <2>1
    <2> HIDE DEF g
    <2>5. g \in Injection(I, C)
      BY <2>3, <2>4 DEF Injection, IsInjective
    <2>6. g \in Surjection(I, C)
      BY <2>2, <2>4 DEF Surjection
    <2> QED BY <2>5, <2>6 DEF Bijection
  <1> HIDE DEF I, C, g
  <1>4. ExistsBijection(I, C)
    BY <1>3 DEF ExistsBijection
  <1>5. IsFiniteSet(C) /\ Cardinality(C) = Cardinality(I)
    BY <1>2, <1>4, FS_Bijection
  <1>6. I = PositionsAt(s, f, h) /\ C = ElementsAt(s, f, h)
    BY DEF I, C, PositionsAt, ElementsAt
  <1> QED BY <1>2, <1>5, <1>6

LEMMA ConserveStep == IInv /\ ConserveInv /\ [Next]_vars => ConserveInv'
  <1> SUFFICES ASSUME IInv, ConserveInv, [Next]_vars PROVE ConserveInv'
    OBVIOUS
  <1>0. TypeOK /\ TypeOK' /\ PoolInv /\ PoolInv' /\ PoolType /\ PoolType' /\ CallerType
    BY TypeStep, PoolStep DEF IInv, TypeOK
  <1>1. \A h \in Hosts :
            /\ IsFiniteSet(UpAt(h)) /\ Cardinality(UpAt(h)) \in Nat
            /\ Cardinality(PositionsAt(up, addr, h)) = Cardinality(UpAt(h))
    <2> SUFFICES ASSUME NEW h \in Hosts
                 PROVE  /\ IsFiniteSet(UpAt(h)) /\ Cardinality(UpAt(h)) \in Nat
                        /\ Cardinality(PositionsAt(up, addr, h)) = Cardinality(UpAt(h))
      OBVIOUS
    <2>1. up \in Seq(Conns) /\ IsInjective(up)
      BY <1>0 DEF PoolInv, PoolType
    <2>2. /\ IsFiniteSet(UpAt(h))
          /\ Cardinality(PositionsAt(up, addr, h)) = Cardinality(UpAt(h))
      BY <2>1, CountPositions DEF UpAt
    <2> QED BY <2>2, FS_CardinalityType
  <1>2. \A h \in Hosts :
            Cardinality(PositionsAt(up, addr, h)') = Cardinality(UpAt(h)')
    <2> SUFFICES ASSUME NEW h \in Hosts
                 PROVE  Cardinality(PositionsAt(up, addr, h)') = Cardinality(UpAt(h)')
      OBVIOUS
    <2>1. (up \in Seq(Conns))' /\ IsInjective(up)'
      BY <1>0 DEF PoolInv, PoolType
    <2> QED BY <2>1, CountPositions DEF UpAt
  <1>3. offered # {} => \A h \in Hosts : dialers[h] + Cardinality(UpAt(h)) = MaxConnsPerHost
    BY <1>1 DEF ConserveInv, PoolConserved, PositionsAt
  <1>4. CASE UNCHANGED <<offered, up, dialers, addr>>
    BY <1>4 DEF ConserveInv, PoolConserved, PositionsAt
  <1>5. ASSUME NEW p \in Points, Offer(p) PROVE ConserveInv'
    <2>1. offered' # {} /\ UNCHANGED <<up, addr>>
      BY <1>5 DEF Offer
    <2>2. CASE offered # {}
      <3>1. dialers' = dialers
        BY <1>5, <2>2 DEF Offer
      <3> QED BY <2>1, <2>2, <3>1 DEF ConserveInv, PoolConserved, PositionsAt
    <2>3. CASE offered = {}
      <3>1. up = <<>> /\ dialers' = [h \in Hosts |-> MaxConnsPerHost]
        BY <1>5, <2>3 DEF Offer, ConserveInv
      <3>2. \A h \in Hosts : UpAt(h) = {}
        BY <3>1, RangeShort DEF UpAt, ElementsAt
      <3>3. \A h \in Hosts : UpAt(h)' = {}
        BY <2>1, <3>2 DEF UpAt, ElementsAt
      <3> QED BY <1>2, <2>1, <3>1, <3>3, FS_EmptySet, ClientAssumption DEF ConserveInv, PoolConserved, PositionsAt
    <2> QED BY <2>2, <2>3
  <1>6. CASE ConnError
    <2>1. PICK i \in DOMAIN up : up[i] = conn /\ up' = RemoveAt(up, i)
      BY <1>6 DEF ConnError
    <2>2. Range(up') = Range(up) \ {conn} /\ conn \in Range(up) /\ UNCHANGED <<addr, offered>>
      BY <1>0, <1>6, <2>1, RangeRemoveAt DEF ConnError, PoolInv, PoolType, callerVars
    <2>3. conn \in Conns /\ addr[conn] \in Hosts
      BY <1>0, <2>2, RangeOfSeq DEF PoolInv, PoolType
    <2>4. \A h \in Hosts : UpAt(h)' = UpAt(h) \ {conn} /\ (conn \in UpAt(h) <=> h = addr[conn])
      BY <2>2 DEF UpAt, ElementsAt
    <2>5. \A h \in Hosts : dialers'[h] = IF h = addr[conn] THEN dialers[h] + 1 ELSE dialers[h]
      BY <1>0, <1>6, <2>3 DEF ConnError, PoolType
    <2>6. \A h \in Hosts :
              Cardinality(UpAt(h)') = IF h = addr[conn] THEN Cardinality(UpAt(h)) - 1 ELSE Cardinality(UpAt(h))
      <3> SUFFICES ASSUME NEW h \in Hosts
                   PROVE  Cardinality(UpAt(h)') = IF h = addr[conn] THEN Cardinality(UpAt(h)) - 1
                                                                    ELSE Cardinality(UpAt(h))
        OBVIOUS
      <3>1. Cardinality(UpAt(h) \ {conn}) = IF conn \in UpAt(h) THEN Cardinality(UpAt(h)) - 1
                                                               ELSE Cardinality(UpAt(h))
        BY <1>1, FS_RemoveElement
      <3> QED BY <2>4, <3>1
    <2>7. offered # {}
      <3>1. up # <<>>
        BY <2>2, RangeShort
      <3> QED BY <3>1 DEF ConserveInv
    <2>8. \A h \in Hosts : dialers[h] \in Nat
      BY <1>0 DEF PoolType
    <2>9. \A h \in Hosts : dialers'[h] + Cardinality(UpAt(h)') = MaxConnsPerHost
      <3> SUFFICES ASSUME NEW h \in Hosts PROVE dialers'[h] + Cardinality(UpAt(h)') = MaxConnsPerHost
        OBVIOUS
      <3>1. CASE h = addr[conn]
        <4>1. dialers'[h] = dialers[h] + 1 /\ Cardinality(UpAt(h)') = Cardinality(UpAt(h)) - 1
          BY <2>5, <2>6, <3>1
        <4>2. dialers[h] \in Nat /\ Cardinality(UpAt(h)) \in Nat
              /\ dialers[h] + Cardinality(UpAt(h)) = MaxConnsPerHost
          BY <1>1, <1>3, <2>7, <2>8
        <4> QED BY <4>1, <4>2
      <3>2. CASE h # addr[conn]
        BY <1>3, <2>5, <2>6, <2>7, <3>2
      <3> QED BY <3>1, <3>2
    <2> QED BY <1>2, <2>2, <2>7, <2>9 DEF ConserveInv, PoolConserved, PositionsAt
  <1>7. ASSUME NEW g \in Hosts, NEW c \in Conns, Dial(g, c) PROVE ConserveInv'
    <2>1. /\ c \notin Range(up) /\ offered' = offered
          /\ addr' = [addr EXCEPT ![c] = g] /\ up' = Append(up, c)
      BY <1>0, <1>7 DEF Dial, PoolInv, callerVars
    <2>2. Range(up') = Range(up) \cup {c} /\ Range(up) \subseteq Conns
      BY <1>0, <2>1, RangeAppend, RangeOfSeq DEF PoolType
    <2>3. \A d \in Conns : addr'[d] = IF d = c THEN g ELSE addr[d]
      BY <1>0, <2>1 DEF PoolType
    <2>4. \A h \in Hosts : /\ UpAt(h)' = IF h = g THEN UpAt(h) \cup {c} ELSE UpAt(h)
                           /\ c \notin UpAt(h)
      BY <2>1, <2>2, <2>3 DEF UpAt, ElementsAt
    <2>5. /\ \A h \in Hosts : dialers'[h] = IF h = g THEN dialers[h] - 1 ELSE dialers[h]
          /\ \A h \in Hosts : dialers[h] \in Nat
          /\ dialers[g] > 0
      BY <1>0, <1>7 DEF Dial, PoolType
    <2>6. \A h \in Hosts :
              Cardinality(UpAt(h)') = IF h = g THEN Cardinality(UpAt(h)) + 1 ELSE Cardinality(UpAt(h))
      <3> SUFFICES ASSUME NEW h \in Hosts
                   PROVE  Cardinality(UpAt(h)') = IF h = g THEN Cardinality(UpAt(h)) + 1
                                                           ELSE Cardinality(UpAt(h))
        OBVIOUS
      <3>1. Cardinality(UpAt(h) \cup {c}) = IF c \in UpAt(h) THEN Cardinality(UpAt(h))
                                                            ELSE Cardinality(UpAt(h)) + 1
        BY <1>1, FS_AddElement
      <3> QED BY <2>4, <3>1
    <2>7. offered # {}
      BY <2>5 DEF ConserveInv
    <2>8. \A h \in Hosts : dialers'[h] + Cardinality(UpAt(h)') = MaxConnsPerHost
      <3> SUFFICES ASSUME NEW h \in Hosts PROVE dialers'[h] + Cardinality(UpAt(h)') = MaxConnsPerHost
        OBVIOUS
      <3>1. CASE h = g
        <4>1. dialers'[h] = dialers[h] - 1 /\ Cardinality(UpAt(h)') = Cardinality(UpAt(h)) + 1
          BY <2>5, <2>6, <3>1
        <4>2. dialers[h] \in Nat /\ Cardinality(UpAt(h)) \in Nat
              /\ dialers[h] + Cardinality(UpAt(h)) = MaxConnsPerHost
          BY <1>1, <1>3, <2>5, <2>7
        <4> QED BY <4>1, <4>2
      <3>2. CASE h # g
        BY <1>3, <2>5, <2>6, <2>7, <3>2
      <3> QED BY <3>1, <3>2
    <2> QED BY <1>2, <2>1, <2>7, <2>8 DEF ConserveInv, PoolConserved, PositionsAt
  <1>8. \/ \E p \in Points : Offer(p)
        \/ ConnError
        \/ \E h \in Hosts, c \in Conns : Dial(h, c)
        \/ UNCHANGED <<offered, up, dialers, addr>>
    BY DEF Next, Put, PutPass, PutFlush, PutRepeat, Send, Mainloop, Environment, vars, Recv,
           LookupConn, ConnPut, ConnPutError, WriteVersion, ReadVersionResponse, ReadError,
           AckInterval, ServerRead, Cut, LoseWire, callerVars, poolVars
  <1> QED BY <1>4, <1>5, <1>6, <1>7, <1>8

\* However connections fail, each host has MaxConnsPerHost connections up or
\* being dialled from the first Put on: error starts exactly one dialer for the
\* connection that it takes out of the pool.
THEOREM ConnectionsReplaced == Spec => []PoolConserved
  <1>1. Init => ConserveInv
    BY DEF Init, ConserveInv, PoolConserved
  <1>2. IInv /\ ConserveInv /\ [Next]_vars => ConserveInv'
    BY ConserveStep
  <1>3. ConserveInv => PoolConserved
    BY DEF ConserveInv
  <1> QED BY <1>1, <1>2, <1>3, InductiveInvariant, PTL DEF Spec

-------------------------------------------------------------------------------
(* A connection brings the points of a series in time order.                 *)

\* Order between sets is inherited by their subsets.
LEMMA BeforeSubsets ==
    ASSUME NEW X, NEW Y, Before(X, Y), NEW U, NEW V, U \subseteq X, V \subseteq Y
    PROVE  Before(U, V)
  BY DEF Before

\* Appending the newest point, or a version request.
LEMMA SortedAppend ==
    ASSUME NEW w \in Seq(Messages), Sorted(w), NEW m \in Messages,
           Before(Range(w) \ {Version}, {m} \ {Version})
    PROVE  Sorted(Append(w, m))
  <1>1. /\ DOMAIN Append(w, m) = 1..Len(w) + 1
        /\ \A i \in 1..Len(w) : Append(w, m)[i] = w[i] /\ w[i] \in Range(w)
        /\ Append(w, m)[Len(w) + 1] = m
        /\ Len(w) \in Nat
        /\ DOMAIN w = 1..Len(w)
    BY AppendProperties, LenProperties, RangeEquality
  <1> QED BY <1>1 DEF Sorted, Before

\* Taking the oldest.
LEMMA SortedTail ==
    ASSUME NEW w \in Seq(Messages), Sorted(w), w # <<>>
    PROVE  Sorted(Tail(w)) /\ Before({Head(w)} \ {Version}, Range(Tail(w)) \ {Version})
  <1>1. /\ Tail(w) \in Seq(Messages)
        /\ DOMAIN Tail(w) = 1..Len(w) - 1
        /\ \A i \in 1..Len(w) - 1 : Tail(w)[i] = w[i + 1]
        /\ Len(w) \in Nat \ {0}
        /\ Head(w) = w[1]
        /\ DOMAIN w = 1..Len(w)
        /\ Len(Tail(w)) = Len(w) - 1
    BY HeadTailProperties, EmptySeq, LenProperties
  <1>2. Range(Tail(w)) = {Tail(w)[i] : i \in 1..Len(w) - 1}
    BY <1>1, RangeEquality
  <1>3. Sorted(Tail(w))
    <2> SUFFICES ASSUME NEW i \in 1..Len(w) - 1, NEW j \in 1..Len(w) - 1, i < j,
                        w[i + 1] # Version, w[j + 1] # Version,
                        SeriesOf[w[i + 1]] = SeriesOf[w[j + 1]]
                 PROVE  w[i + 1] < w[j + 1]
      BY <1>1 DEF Sorted
    <2>1. i + 1 \in DOMAIN w /\ j + 1 \in DOMAIN w /\ i + 1 < j + 1
      BY <1>1
    <2> QED BY <2>1 DEF Sorted
  <1>4. ASSUME NEW i \in 1..Len(w) - 1, w[1] # Version, w[i + 1] # Version,
               SeriesOf[w[1]] = SeriesOf[w[i + 1]]
        PROVE  w[1] < w[i + 1]
    <2>1. 1 \in DOMAIN w /\ i + 1 \in DOMAIN w /\ 1 < i + 1
      BY <1>1
    <2> QED BY <1>4, <2>1 DEF Sorted
  <1>5. Before({Head(w)} \ {Version}, Range(Tail(w)) \ {Version})
    <2> SUFFICES ASSUME NEW y \in Range(Tail(w)), y # Version, Head(w) # Version,
                        SeriesOf[Head(w)] = SeriesOf[y]
                 PROVE  Head(w) < y
      BY DEF Before
    <2>1. PICK i \in 1..Len(w) - 1 : y = Tail(w)[i]
      BY <1>2
    <2>2. y = w[i + 1]
      BY <1>1, <2>1
    <2> QED BY <1>1, <1>4, <2>2
  <1> QED BY <1>3, <1>5

\* One element is in order.
LEMMA SortedShort == Sorted(<<>>) /\ \A m : Sorted(<<m>>)
  BY DEF Sorted

\* Everything between Put and the servers was offered; sequences of points are
\* sequences of messages without version requests.
LEMMA OrderTypes ==
    ASSUME IInv
    PROVE  /\ sending \in Seq(Messages) /\ queue \in Seq(Messages)
           /\ Range(sending) \subseteq Points /\ Range(queue) \subseteq Points
           /\ CurPoints \subseteq Points
           /\ Waiting \subseteq Unsent \cap offered
           /\ Waiting \cap HeldPoints = {}
           /\ offered \subseteq Points
           /\ \A c \in Conns : /\ wire[c] \in Seq(Messages)
                              /\ OnWire(c) \subseteq offered \ Unsent
                              /\ ArrivedOn(c) \subseteq offered \ Unsent
                              /\ ArrivedOn(c) \subseteq ArrivedPoints
           /\ Version \notin Points
  <1>1. /\ sending \in Seq(Points) /\ queue \in Seq(Points) /\ cur \in Points \cup {None}
        /\ offered \subseteq Points /\ wire \in [Conns -> Seq(Messages)]
    BY DEF IInv, TypeOK, CallerType, MainType, NetType
  <1>2. Range(sending) \subseteq Points /\ Range(queue) \subseteq Points
    BY <1>1, RangeOfSeq
  <1>3. sending \in Seq(Messages) /\ queue \in Seq(Messages)
    BY <1>1 DEF Messages
  <1>4. Waiting \subseteq Unsent \cap offered /\ Waiting \cap HeldPoints = {}
    BY DEF IInv, Accounted, Waiting, Unsent
  <1>5. ASSUME NEW c \in Conns
        PROVE  /\ wire[c] \in Seq(Messages) /\ OnWire(c) \subseteq offered \ Unsent
               /\ ArrivedOn(c) \subseteq ArrivedPoints
    BY <1>1 DEF IInv, WireInv, OnWire, ArrivedOn, ArrivedPoints
  <1>6. ArrivedPoints \subseteq offered \ Unsent
    BY DEF IInv, WireInv
  <1>7. CurPoints \subseteq Points /\ Version \notin Points
    BY <1>1, ClientAssumption DEF CurPoints
  <1> QED BY <1>1, <1>2, <1>3, <1>4, <1>5, <1>6, <1>7

\* A step that leaves the connections alone and lets nothing wait that did not
\* wait before keeps their order.
LEMMA WireOrderFrame ==
    ASSUME NEW c \in Conns, WireOrder(c), wire'[c] = wire[c], ArrivedOn(c)' = ArrivedOn(c),
           Waiting' \subseteq Waiting
    PROVE  WireOrder(c)'
  <1>1. OnWire(c)' = OnWire(c) /\ Sorted(wire[c])'
    BY DEF OnWire, WireOrder, Sorted
  <1>2. Before(ArrivedOn(c)', OnWire(c)')
    BY <1>1 DEF WireOrder
  <1>3. Before(ArrivedOn(c)' \cup OnWire(c)', Waiting')
    BY <1>1, BeforeSubsets DEF WireOrder
  <1> QED BY <1>1, <1>2, <1>3 DEF WireOrder, Before

\* Put: the point is the newest of its series, and a flushed repeat is newer
\* than all that went before it.
LEMMA PutOrder ==
    ASSUME IInv, OrderInv, NEW p \in Points, PutPass(p) \/ PutFlush(p) \/ PutRepeat(p)
    PROVE  OrderInv'
  <1> DEFINE s == SeriesOf[p]
  <1>1. /\ Offer(p) /\ sending = <<>> /\ Range(sending) = {} /\ queue' = queue /\ cur' = cur
        /\ wire' = wire /\ arrived' = arrived /\ offered' = offered \cup {p}
    BY FreshPoint DEF PutPass, PutFlush, PutRepeat, mainVars, netVars
  <1>2. /\ Before(offered, {p}) /\ offered \subseteq Points
        /\ held \in [Series -> Points \cup {None}] /\ s \in Series /\ None \notin Points
        /\ p \in Nat /\ Points \subseteq Nat
    BY <1>1, ClientAssumption DEF Offer, Before, IInv, TypeOK, CallerType
  <1>3. /\ CurPoints' = CurPoints /\ OrderedPerConn' /\ Sorted(queue)'
        /\ \A c \in Conns : /\ ArrivedOn(c)' = ArrivedOn(c) /\ OnWire(c)' = OnWire(c)
                           /\ Sorted(wire[c])' /\ Before(ArrivedOn(c), OnWire(c))'
    BY <1>1 DEF CurPoints, OrderInv, OrderedPerConn, Sorted, ArrivedOn, OnWire, CallerOrder,
                WireOrder, Before
  <1>4. \A q \in offered : SeriesOf[q] = s => q < p
    BY <1>2 DEF Before
  <1>5. ASSUME held[s] # None
        PROVE  /\ Before(CurPoints \cup Range(queue), {held[s]})
               /\ \A c \in Conns : Before(ArrivedOn(c) \cup OnWire(c), {held[s]})
               /\ held[s] \in Points /\ held[s] \in offered /\ SeriesOf[held[s]] = s
    <2>1. held[s] \in HeldPoints /\ held[s] \in Points
      BY <1>2, <1>5 DEF HeldPoints, Range
    <2>2. /\ held[s] \in Unsent /\ held[s] \in offered /\ held[s] \notin CurPoints \cup Range(queue)
          /\ SeriesOf[held[s]] = s
      BY <1>2, <1>5, <2>1 DEF IInv, Accounted, Unsent, CallerInv
    <2>3. \A q \in offered : SeriesOf[q] = s => q <= held[s]
      BY <1>2, <1>5 DEF OrderInv, HeldNewest
    <2>4. Before(offered \ {held[s]}, {held[s]})
      BY <1>2, <2>1, <2>2, <2>3 DEF Before
    <2>5. CurPoints \cup Range(queue) \subseteq offered \ {held[s]}
      BY <2>2, OrderTypes DEF Waiting
    <2>6. \A c \in Conns : ArrivedOn(c) \cup OnWire(c) \subseteq offered \ {held[s]}
      BY <2>2, OrderTypes
    <2> QED BY <2>1, <2>2, <2>4, <2>5, <2>6 DEF Before
  <1>6. /\ Before(CurPoints \cup Range(queue), {p})
        /\ \A c \in Conns : Before(ArrivedOn(c) \cup OnWire(c), {p})
    <2>1. CurPoints \cup Range(queue) \subseteq offered
      BY OrderTypes DEF Waiting
    <2>2. \A c \in Conns : ArrivedOn(c) \cup OnWire(c) \subseteq offered
      BY OrderTypes
    <2> QED BY <1>2, <2>1, <2>2 DEF Before
  <1>7. /\ Sorted(sending)'
        /\ \/ Range(sending)' \subseteq {p}
           \/ held[s] # None /\ Range(sending)' = {held[s], p}
    <2>1. CASE PutPass(p)
      <3>1. sending' = <<p>>
        BY <2>1 DEF PutPass
      <3> QED BY <3>1, SortedShort, RangeShort
    <2>2. CASE PutFlush(p)
      <3>1. sending' = <<held[s], p>> /\ held[s] # None
        BY <2>2 DEF PutFlush
      <3>2. held[s] < p
        BY <1>4, <1>5, <3>1
      <3>3. DOMAIN <<held[s], p>> = 1..2 /\ <<held[s], p>>[1] = held[s] /\ <<held[s], p>>[2] = p
        OBVIOUS
      <3>4. Sorted(<<held[s], p>>)
        BY <3>2, <3>3 DEF Sorted
      <3> QED BY <3>1, <3>4, RangeShort
    <2>3. CASE PutRepeat(p)
      <3>1. sending' = <<>>
        BY <1>1, <2>3 DEF PutRepeat
      <3> QED BY <3>1, SortedShort, RangeShort
    <2> QED BY <2>1, <2>2, <2>3
  <1>8. /\ Before(CurPoints \cup Range(queue), Range(sending)')
        /\ \A c \in Conns : Before(ArrivedOn(c) \cup OnWire(c), Range(sending)')
    <2>1. CASE Range(sending)' \subseteq {p}
      BY <1>6, <2>1 DEF Before
    <2>2. CASE held[s] # None /\ Range(sending)' = {held[s], p}
      BY <1>5, <1>6, <2>2 DEF Before
    <2> QED BY <1>7, <2>1, <2>2
  <1>9. CallerOrder'
    BY <1>1, <1>3, <1>7, <1>8 DEF CallerOrder, OrderInv, Before
  <1>10. ASSUME NEW c \in Conns PROVE WireOrder(c)'
    <2>1. Before(ArrivedOn(c) \cup OnWire(c), Waiting) /\ Range(sending)' = Range(sending')
      BY DEF OrderInv, WireOrder
    <2>2. Waiting' = CurPoints \cup Range(queue) \cup Range(sending')
      BY <1>1, <1>3 DEF Waiting
    <2>3. Before(ArrivedOn(c) \cup OnWire(c), Waiting')
      BY <1>8, <2>1, <2>2 DEF Before, Waiting
    <2>4. Before(ArrivedOn(c) \cup OnWire(c), Waiting)'
      BY <1>3, <2>3 DEF Before
    <2> QED BY <1>3, <2>4 DEF WireOrder
  <1>11. HeldNewest'
    <2>1. held' = [held EXCEPT ![s] = None] \/ held' = [held EXCEPT ![s] = p]
      BY DEF PutPass, PutFlush, PutRepeat
    <2>2. \A t \in Series \ {s} : held'[t] = held[t]
      BY <1>2, <2>1
    <2>3. held'[s] = None \/ held'[s] = p
      BY <1>2, <2>1
    <2>4. \A q \in offered' : SeriesOf[q] = s => q <= p
      BY <1>1, <1>2, <1>4
    <2>5. ASSUME NEW t \in Series, held'[t] # None, NEW q \in offered', SeriesOf[q] = t
          PROVE  q <= held'[t]
      <3>1. CASE t = s
        BY <2>3, <2>4, <2>5, <3>1
      <3>2. CASE t # s
        BY <1>1, <2>2, <2>5, <3>2 DEF OrderInv, HeldNewest
      <3> QED BY <3>1, <3>2
    <2> QED BY <2>5 DEF HeldNewest
  <1> QED BY <1>3, <1>9, <1>10, <1>11 DEF OrderInv

\* send: the head of what is left of the Put goes to the end of the queue.
LEMMA SendOrder == IInv /\ OrderInv /\ Send => OrderInv'
  <1> SUFFICES ASSUME IInv, OrderInv, Send PROVE OrderInv'
    OBVIOUS
  <1>1. /\ sending # <<>> /\ sending' = Tail(sending)
        /\ queue' = queue \/ queue' = Append(queue, Head(sending))
        /\ UNCHANGED <<offered, held, cur, wire, arrived>>
    BY DEF Send, mainVars, netVars
  <1>2. /\ Range(sending) = {Head(sending)} \cup Range(Tail(sending))
        /\ Head(sending) \in Messages \ {Version} /\ Head(sending) \in Points
    BY <1>1, OrderTypes, RangeHeadTail
  <1>3. Sorted(sending') /\ Before({Head(sending)}, Range(sending'))
    <2>1. /\ Sorted(Tail(sending))
          /\ Before({Head(sending)} \ {Version}, Range(Tail(sending)) \ {Version})
      BY <1>1, OrderTypes, SortedTail DEF OrderInv, CallerOrder
    <2>2. {Head(sending)} \ {Version} = {Head(sending)} /\ Range(Tail(sending)) \ {Version} = Range(Tail(sending))
      BY <1>2, OrderTypes
    <2> QED BY <1>1, <2>1, <2>2
  <1>4. /\ Sorted(queue') /\ Range(queue) \subseteq Range(queue')
        /\ Range(queue') \subseteq Range(queue) \cup {Head(sending)}
    <2>1. CASE queue' = queue
      BY <2>1 DEF OrderInv, CallerOrder
    <2>2. CASE queue' = Append(queue, Head(sending))
      <3>1. Before(Range(queue) \ {Version}, {Head(sending)} \ {Version})
        BY <1>2, OrderTypes DEF OrderInv, CallerOrder, Before
      <3>2. Sorted(queue')
        BY <1>2, <2>2, <3>1, OrderTypes, SortedAppend DEF OrderInv, CallerOrder
      <3> QED BY <1>2, <2>2, <3>2, OrderTypes, RangeAppend
    <2> QED BY <1>1, <2>1, <2>2
  <1>5. CurPoints' = CurPoints /\ Range(sending)' = Range(sending') /\ Range(queue)' = Range(queue')
    BY <1>1 DEF CurPoints
  <1>6. Before(CurPoints, Range(queue))'
    BY <1>2, <1>4, <1>5 DEF OrderInv, CallerOrder, Before
  <1>7. Before(CurPoints \cup Range(queue), Range(sending))'
    <2>1. Before(CurPoints \cup Range(queue) \cup {Head(sending)}, Range(sending'))
      BY <1>1, <1>2, <1>3 DEF OrderInv, CallerOrder, Before
    <2> QED BY <1>4, <1>5, <2>1 DEF Before
  <1>8. CallerOrder'
    BY <1>3, <1>4, <1>6, <1>7 DEF CallerOrder
  <1>9. Waiting' \subseteq Waiting
    BY <1>1, <1>2, <1>4, <1>5 DEF Waiting
  <1>10. \A c \in Conns : WireOrder(c)'
    BY <1>1, <1>9, WireOrderFrame DEF OrderInv, ArrivedOn
  <1>11. HeldNewest' /\ OrderedPerConn'
    BY <1>1 DEF OrderInv, HeldNewest, OrderedPerConn
  <1> QED BY <1>8, <1>10, <1>11 DEF OrderInv

\* mainloop takes the oldest command.
LEMMA RecvOrder == IInv /\ OrderInv /\ Recv => OrderInv'
  <1> SUFFICES ASSUME IInv, OrderInv, Recv PROVE OrderInv'
    OBVIOUS
  <1>1. /\ queue # <<>> /\ queue' = Tail(queue) /\ cur' = Head(queue)
        /\ UNCHANGED <<offered, held, sending, wire, arrived>>
    BY DEF Recv, netVars
  <1>2. Range(queue) = {Head(queue)} \cup Range(queue') /\ Head(queue) \in Points
    BY <1>1, OrderTypes, RangeHeadTail
  <1>3. Sorted(queue') /\ Before({Head(queue)}, Range(queue'))
    <2>1. /\ Sorted(Tail(queue))
          /\ Before({Head(queue)} \ {Version}, Range(Tail(queue)) \ {Version})
      BY <1>1, OrderTypes, SortedTail DEF OrderInv, CallerOrder
    <2>2. {Head(queue)} \ {Version} = {Head(queue)} /\ Range(Tail(queue)) \ {Version} = Range(Tail(queue))
      BY <1>1, <1>2, OrderTypes
    <2> QED BY <1>1, <2>1, <2>2
  <1>4. CurPoints' = {Head(queue)}
    BY <1>1, <1>2, ClientAssumption DEF CurPoints
  <1>5. Before(CurPoints, Range(queue))'
    BY <1>3, <1>4 DEF Before
  <1>6. Before(CurPoints \cup Range(queue), Range(sending))'
    BY <1>1, <1>2, <1>4 DEF OrderInv, CallerOrder, Before
  <1>7. CallerOrder'
    BY <1>1, <1>3, <1>5, <1>6 DEF CallerOrder, OrderInv, Sorted
  <1>8. Waiting' \subseteq Waiting
    BY <1>1, <1>2, <1>4 DEF Waiting
  <1>9. \A c \in Conns : WireOrder(c)'
    BY <1>1, <1>8, WireOrderFrame DEF OrderInv, ArrivedOn
  <1>10. HeldNewest' /\ OrderedPerConn'
    BY <1>1 DEF OrderInv, HeldNewest, OrderedPerConn
  <1> QED BY <1>7, <1>9, <1>10 DEF OrderInv

\* put and version: the command goes to the end of the wire.
LEMMA WriteOrder == IInv /\ OrderInv /\ (ConnPut \/ WriteVersion) => OrderInv'
  <1> SUFFICES ASSUME IInv, OrderInv, ConnPut \/ WriteVersion PROVE OrderInv'
    OBVIOUS
  <1>1. UNCHANGED <<offered, held, sending, queue, arrived>> /\ (cur' = cur \/ cur' = None)
    BY DEF ConnPut, WriteVersion, callerVars
  <1>2. PICK k \in Conns : k = conn
    BY RangeOfSeq DEF IInv, TypeOK, PoolInv, PoolType, ConnPut, WriteVersion
  <1>3. CurPoints' \subseteq CurPoints /\ Waiting' \subseteq Waiting
    BY <1>1 DEF CurPoints, Waiting
  <1>4. CallerOrder'
    BY <1>1, <1>3 DEF OrderInv, CallerOrder, Sorted, Before
  <1>5. HeldNewest' /\ OrderedPerConn' /\ \A c \in Conns : ArrivedOn(c)' = ArrivedOn(c)
    BY <1>1 DEF OrderInv, HeldNewest, OrderedPerConn, ArrivedOn
  <1>6. ASSUME NEW c \in Conns, wire'[c] = wire[c] PROVE WireOrder(c)'
    BY <1>3, <1>5, <1>6, WireOrderFrame DEF OrderInv
  <1>7. wire \in [Conns -> Seq(Messages)]
    BY DEF IInv, TypeOK, NetType
  <1>8. CASE conn \notin open
    <2>1. wire' = wire
      BY <1>8 DEF ConnPut, WriteVersion
    <2> QED BY <1>4, <1>5, <1>6, <2>1 DEF OrderInv
  <1>9. ASSUME NEW m \in Messages, wire' = [wire EXCEPT ![k] = Append(@, m)],
               {m} \ {Version} \subseteq CurPoints, {m} \cap CurPoints' = {},
               m # Version => CurPoints = {m} /\ CurPoints' = {}
        PROVE  OrderInv'
    <2>1. /\ wire'[k] = Append(wire[k], m) /\ wire[k] \in Seq(Messages)
          /\ \A c \in Conns \ {k} : wire'[c] = wire[c]
      BY <1>2, <1>7, <1>9
    <2>2. OnWire(k)' = OnWire(k) \cup ({m} \ {Version})
      <3>1. Range(Append(wire[k], m)) = Range(wire[k]) \cup {m}
        BY <2>1, RangeAppend
      <3> QED BY <2>1, <3>1 DEF OnWire
    <2>3. /\ Sorted(wire[k]) /\ Before(ArrivedOn(k), OnWire(k))
          /\ Before(ArrivedOn(k) \cup OnWire(k), Waiting)
      BY <1>2 DEF OrderInv, WireOrder
    <2>4. Before(OnWire(k), {m} \ {Version})
      BY <1>9, <2>3 DEF Before, Waiting
    <2>5. Sorted(wire[k])'
      BY <2>1, <2>3, <2>4, SortedAppend DEF OnWire
    <2>6. Before(ArrivedOn(k), OnWire(k))'
      <3>1. Before(ArrivedOn(k), {m} \ {Version})
        BY <1>9, <2>3 DEF Before, Waiting
      <3> QED BY <1>2, <1>5, <2>2, <2>3, <3>1 DEF Before
    <2>7. Before({m} \ {Version}, Waiting')
      BY <1>1, <1>9 DEF OrderInv, CallerOrder, Waiting, Before
    <2>8. Before(ArrivedOn(k) \cup OnWire(k), Waiting)'
      BY <1>2, <1>3, <1>5, <2>2, <2>3, <2>7 DEF Before
    <2>9. WireOrder(k)'
      BY <2>5, <2>6, <2>8 DEF WireOrder
    <2> QED BY <1>4, <1>5, <1>6, <2>1, <2>9 DEF OrderInv
  <1>10. CASE ConnPut /\ conn \in open
    <2>1. cur \in Points /\ cur \in Messages /\ cur # Version /\ CurPoints = {cur} /\ CurPoints' = {}
      BY <1>10, ClientAssumption DEF IInv, TypeOK, MainType, PoolInv, ConnPut, CurPoints, Messages
    <2> QED BY <1>2, <1>9, <1>10, <2>1 DEF ConnPut
  <1>11. CASE WriteVersion /\ conn \in open
    <2>1. Version \in Messages /\ CurPoints' = CurPoints /\ Version \notin CurPoints
      BY <1>11, OrderTypes DEF WriteVersion, CurPoints, Messages
    <2> QED BY <1>2, <1>9, <1>11, <2>1 DEF WriteVersion
  <1> QED BY <1>8, <1>10, <1>11

\* What a server's read adds to the arrivals over a connection.
LEMMA ArrivedOnStep ==
    ASSUME TypeOK, OrderedPerConn, NEW c \in Conns, NEW m \in Points, Before(ArrivedOn(c), {m}),
           NEW b \in BOOLEAN,
           arrived' = Append(arrived, [point |-> m, conn |-> c, ok |-> b])
    PROVE  /\ ArrivedOn(c)' = ArrivedOn(c) \cup {m}
           /\ \A d \in Conns \ {c} : ArrivedOn(d)' = ArrivedOn(d)
           /\ OrderedPerConn'
  <1> DEFINE a == [point |-> m, conn |-> c, ok |-> b]
             n == Len(arrived)
  <1>1. arrived \in Seq(Arrivals) /\ a \in Arrivals /\ a.point = m /\ a.conn = c
    BY DEF TypeOK, NetType, Arrivals
  <1> HIDE DEF a
  <1>2. /\ DOMAIN arrived = 1..n /\ n \in Nat
        /\ DOMAIN arrived' = 1..n + 1
        /\ \A i \in 1..n : arrived'[i] = arrived[i]
        /\ arrived'[n + 1] = a
    BY <1>1, AppendProperties, LenProperties DEF a
  <1> HIDE DEF n
  <1>3. \A d \in Conns : \A x : x \in ArrivedOn(d) <=> \E i \in 1..n : arrived[i].conn = d /\ x = arrived[i].point
    BY <1>2 DEF ArrivedOn
  <1>4. \A d \in Conns : \A x : x \in ArrivedOn(d)' <=>
                         \E i \in 1..n + 1 : arrived'[i].conn = d /\ x = arrived'[i].point
    BY <1>2 DEF ArrivedOn
  <1>5. ASSUME NEW d \in Conns, NEW x
        PROVE  x \in ArrivedOn(d)' <=> x \in ArrivedOn(d) \/ (d = c /\ x = m)
    <2>1. (\E i \in 1..n + 1 : arrived'[i].conn = d /\ x = arrived'[i].point) <=>
            \/ \E i \in 1..n : arrived'[i].conn = d /\ x = arrived'[i].point
            \/ arrived'[n + 1].conn = d /\ x = arrived'[n + 1].point
      BY <1>2
    <2> QED BY <1>1, <1>2, <1>3, <1>4, <2>1
  <1>6. OrderedPerConn'
    <2> SUFFICES ASSUME NEW i \in 1..n + 1, NEW j \in 1..n + 1, i < j,
                        arrived'[i].conn = arrived'[j].conn,
                        SeriesOf[arrived'[i].point] = SeriesOf[arrived'[j].point]
                 PROVE  arrived'[i].point < arrived'[j].point
      BY <1>2 DEF OrderedPerConn
    <2>1. i \in 1..n /\ (j \in 1..n \/ j = n + 1)
      BY <1>2
    <2>2. CASE j \in 1..n
      BY <1>2, <2>1, <2>2 DEF OrderedPerConn
    <2>3. CASE j = n + 1
      <3>1. arrived[i].point \in ArrivedOn(c)
        BY <1>1, <1>2, <1>3, <2>1, <2>3
      <3> QED BY <1>1, <1>2, <2>1, <2>3, <3>1 DEF Before
    <2> QED BY <2>1, <2>2, <2>3
  <1> QED BY <1>5, <1>6

\* The server takes the oldest message of the wire; a cut may lose them all.
LEMMA ServerOrder ==
    ASSUME IInv, OrderInv, NEW c \in Conns, ServerRead(c) \/ LoseWire(c)
    PROVE  OrderInv'
  <1>1. UNCHANGED <<offered, held, sending, queue, cur>>
    BY DEF ServerRead, LoseWire, callerVars, mainVars
  <1>2. CallerOrder' /\ HeldNewest' /\ Waiting' = Waiting
    BY <1>1 DEF OrderInv, CallerOrder, HeldNewest, Waiting, CurPoints, Sorted, Before
  <1>3. /\ wire[c] # <<>> /\ wire[c] \in Seq(Messages)
        /\ \A d \in Conns \ {c} : wire'[d] = wire[d]
        /\ Head(wire[c]) \in Messages
        /\ Range(wire[c]) = {Head(wire[c])} \cup Range(Tail(wire[c]))
        /\ Version \notin Points
    BY WireChange, ClientAssumption DEF IInv, ServerRead, LoseWire
  <1>4. WireOrder(c) /\ OrderedPerConn
    BY DEF OrderInv
  <1>5. ASSUME NEW d \in Conns \ {c}, ArrivedOn(d)' = ArrivedOn(d) PROVE WireOrder(d)'
    BY <1>2, <1>3, <1>5, WireOrderFrame DEF OrderInv
  <1>6. Sorted(Tail(wire[c])) /\ Before({Head(wire[c])} \ {Version}, Range(Tail(wire[c])) \ {Version})
    BY <1>3, <1>4, SortedTail DEF WireOrder
  <1>7. ASSUME arrived' = arrived, wire'[c] = Tail(wire[c]) \/ wire'[c] = <<>> PROVE OrderInv'
    <2>1. OrderedPerConn' /\ \A d \in Conns : ArrivedOn(d)' = ArrivedOn(d)
      BY <1>4, <1>7 DEF OrderedPerConn, ArrivedOn
    <2>2. Sorted(wire[c])' /\ OnWire(c)' \subseteq OnWire(c)
      <3>1. CASE wire'[c] = Tail(wire[c])
        BY <1>3, <1>6, <3>1 DEF OnWire, Sorted
      <3>2. CASE wire'[c] = <<>>
        BY <3>2, RangeShort, SortedShort DEF OnWire, Sorted
      <3> QED BY <1>7, <3>1, <3>2
    <2>3. WireOrder(c)'
      BY <1>2, <1>4, <2>1, <2>2 DEF WireOrder, Before
    <2> QED BY <1>2, <1>5, <2>1, <2>3 DEF OrderInv
  <1>8. CASE ServerRead(c) /\ arrived' # arrived
    <2>1. PICK b \in BOOLEAN :
              /\ Head(wire[c]) # Version
              /\ arrived' = Append(arrived, [point |-> Head(wire[c]), conn |-> c, ok |-> b])
      BY <1>8 DEF ServerRead
    <2> DEFINE m == Head(wire[c])
    <2>2. m \in Points /\ m \in OnWire(c)
      BY <1>3, <2>1 DEF OnWire, Messages
    <2>3. Before(ArrivedOn(c), {m})
      BY <1>4, <2>2 DEF WireOrder, Before
    <2>4. /\ ArrivedOn(c)' = ArrivedOn(c) \cup {m} /\ OrderedPerConn'
          /\ \A d \in Conns \ {c} : ArrivedOn(d)' = ArrivedOn(d)
      <3> HIDE DEF m
      <3>1. arrived' = Append(arrived, [point |-> m, conn |-> c, ok |-> b])
        BY <2>1 DEF m
      <3> QED BY <1>4, <2>2, <2>3, <3>1, ArrivedOnStep DEF IInv
    <2>5. wire'[c] = Tail(wire[c])
      BY <1>8, WireChange DEF IInv, ServerRead
    <2>6. /\ OnWire(c) = {m} \cup OnWire(c)' /\ Before({m}, OnWire(c)') /\ Sorted(wire[c])'
      BY <1>3, <1>6, <2>1, <2>5 DEF OnWire, Sorted
    <2> HIDE DEF m
    <2>7. Before(ArrivedOn(c), OnWire(c))'
      BY <1>4, <2>4, <2>6 DEF WireOrder, Before
    <2>8. Before(ArrivedOn(c) \cup OnWire(c), Waiting)'
      BY <1>2, <1>4, <2>4, <2>6 DEF WireOrder, Before
    <2>9. WireOrder(c)'
      BY <2>6, <2>7, <2>8 DEF WireOrder
    <2> QED BY <1>2, <1>5, <2>4, <2>9 DEF OrderInv
  <1>9. CASE ServerRead(c) /\ arrived' = arrived
    <2>1. wire'[c] = Tail(wire[c])
      BY <1>9, WireChange DEF IInv, ServerRead
    <2> QED BY <1>7, <1>9, <2>1
  <1>10. CASE LoseWire(c)
    <2>1. wire'[c] = <<>> /\ arrived' = arrived
      BY <1>10, WireChange DEF IInv, LoseWire
    <2> QED BY <1>7, <2>1
  <1> QED BY <1>8, <1>9, <1>10

LEMMA OrderStep == IInv /\ OrderInv /\ [Next]_vars => OrderInv'
  <1> SUFFICES ASSUME IInv, OrderInv, [Next]_vars PROVE OrderInv'
    OBVIOUS
  <1>1. CASE UNCHANGED <<callerVars, wire, arrived>> /\ (cur' = cur \/ cur' = None)
    <2>1. UNCHANGED <<offered, held, sending, queue, wire, arrived>>
      BY <1>1 DEF callerVars
    <2>2. CurPoints' \subseteq CurPoints /\ Waiting' \subseteq Waiting
      BY <1>1, <2>1 DEF CurPoints, Waiting
    <2>3. CallerOrder'
      BY <2>1, <2>2 DEF OrderInv, CallerOrder, Sorted, Before
    <2>4. HeldNewest' /\ OrderedPerConn' /\ \A c \in Conns : ArrivedOn(c)' = ArrivedOn(c)
      BY <2>1 DEF OrderInv, HeldNewest, OrderedPerConn, ArrivedOn
    <2>5. \A c \in Conns : WireOrder(c)'
      BY <2>1, <2>2, <2>4, WireOrderFrame DEF OrderInv
    <2> QED BY <2>3, <2>4, <2>5 DEF OrderInv
  <1>2. \/ \E p \in Points : PutPass(p) \/ PutFlush(p) \/ PutRepeat(p)
        \/ Send \/ Recv \/ ConnPut \/ WriteVersion
        \/ \E c \in Conns : ServerRead(c) \/ LoseWire(c)
        \/ UNCHANGED <<callerVars, wire, arrived>> /\ (cur' = cur \/ cur' = None)
    BY DEF Next, Put, Mainloop, Environment, vars, LookupConn, ConnPutError,
           ReadVersionResponse, ReadError, ConnError, Dial, AckInterval, Cut, netVars, mainVars
  <1> QED BY <1>1, <1>2, PutOrder, SendOrder, RecvOrder, WriteOrder, ServerOrder

\* Whatever connections fail and whatever repeats are held back and flushed,
\* the points of a series that travel on one connection arrive in time order:
\* Put, the queue, mainloop and the connection are one FIFO.
THEOREM ConnectionOrder == Spec => []OrderedPerConn
  <1>1. Init => OrderInv
    <2> SUFFICES ASSUME Init PROVE OrderInv
      OBVIOUS
    <2>1. /\ sending = <<>> /\ queue = <<>> /\ arrived = <<>> /\ offered = {}
          /\ CurPoints = {} /\ Range(queue) = {} /\ Range(sending) = {} /\ Waiting = {}
          /\ \A c \in Conns : wire[c] = <<>>
      BY RangeShort DEF Init, CurPoints, Waiting
    <2>2. \A c \in Conns : OnWire(c) = {}
      BY <2>1, RangeShort DEF OnWire
    <2>3. HeldNewest /\ OrderedPerConn /\ CallerOrder
      BY <2>1, SortedShort DEF HeldNewest, OrderedPerConn, CallerOrder, Before
    <2>4. \A c \in Conns : WireOrder(c)
      BY <2>1, <2>2, SortedShort DEF WireOrder, Before
    <2> QED BY <2>3, <2>4 DEF OrderInv
  <1>2. IInv /\ OrderInv /\ [Next]_vars => OrderInv'
    BY OrderStep
  <1>3. OrderInv => OrderedPerConn
    BY DEF OrderInv
  <1> QED BY <1>1, <1>2, <1>3, InductiveInvariant, PTL DEF Spec
===============================================================================
