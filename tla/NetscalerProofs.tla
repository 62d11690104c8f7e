---------------------------- MODULE NetscalerProofs ---------------------------
(***************************************************************************)
(* Proofs about NitroClient and Netscaler, for every set of callers, every *)
(* number of connections and trips, and every scenario.                    *)
(***************************************************************************)
EXTENDS Netscaler, FiniteSetTheorems, TLAPS

-------------------------------------------------------------------------------
(* The client.                                                               *)

\* Sets of callers are finite.
LEMMA CallerSets ==
    ASSUME NEW S \in SUBSET Callers
    PROVE  /\ IsFiniteSet(S) /\ Cardinality(S) \in Nat
           /\ Cardinality(S) <= Cardinality(Callers) /\ Cardinality(Callers) \in Nat
  <1>1. IsFiniteSet(Callers)
    BY NitroAssumption
  <1>2. IsFiniteSet(S) /\ Cardinality(S) <= Cardinality(Callers)
    BY <1>1, FS_Subset
  <1> QED BY <1>1, <1>2, FS_CardinalityType

\* A larger set of callers counts more.
LEMMA FewerCallers ==
    ASSUME NEW S \in SUBSET Callers, NEW T \in SUBSET S
    PROVE  /\ Cardinality(T) \in Nat /\ Cardinality(S) \in Nat /\ Cardinality(T) <= Cardinality(S)
           /\ \A c \in S \ T : Cardinality(T) <= Cardinality(S) - 1
  <1>1. IsFiniteSet(S) /\ Cardinality(S) \in Nat
    BY CallerSets
  <1>2. T \in SUBSET Callers
    OBVIOUS
  <1>3. IsFiniteSet(T) /\ Cardinality(T) \in Nat
    BY <1>2, CallerSets
  <1>4. Cardinality(T) <= Cardinality(S) /\ (Cardinality(S) = Cardinality(T) => S = T)
    BY <1>1, FS_Subset
  <1> QED BY <1>1, <1>3, <1>4

\* A step of one caller c, whose call becomes r: what has to be shown of it.
StepTo(Data, c, r) ==
    /\ call' = [call EXCEPT ![c] = r]
    /\ conns' \subseteq Callers /\ Cardinality(conns') <= MaxConns /\ mu' \in Callers \cup {Nil}
    /\ \A d \in Callers \ {c} : (d \in conns' <=> d \in conns) /\ (mu' = d <=> mu = d)
    /\ c \in conns' <=> r.pc \in {"loggingin", "requesting"}
    /\ mu' = c <=> r.pc \in {"login", "loggingin"}
    /\ r.trip = MaxTrips => r.pc = "failed"
    /\ r.pc = "get" => sessions' > 0
    /\ r.pc \in {"ok", "deliver"} => r.data \in Data
    /\ sessions' \in Nat /\ sessions <= sessions' /\ expired' \in Nat /\ refused' \in Nat
    /\ live' \subseteq 1..sessions' /\ cookie' \in 1..sessions' \cup {Nil}
    /\ mu' # Nil => cookie' = Nil

LEMMA ShapeStep ==
    ASSUME NEW Data, ClientShape(Data), NEW c \in Callers, NEW r \in CallOver(Data), StepTo(Data, c, r)
    PROVE  ClientShape(Data)'
  <1>1. call \in [Callers -> CallOver(Data)] /\ call' \in [Callers -> CallOver(Data)]
    BY DEF ClientShape, StepTo
  <1>2. call'[c] = r /\ \A d \in Callers \ {c} : call'[d] = call[d]
    BY <1>1 DEF StepTo
  <1>3. /\ r.pc \in CallStates /\ r.trip \in 0..MaxTrips
    BY DEF CallOver
  <1>4. ASSUME NEW d \in Callers
        PROVE  /\ call'[d].pc \in CallStates
               /\ call'[d].trip \in 0..MaxTrips
               /\ d \in conns' <=> call'[d].pc \in {"loggingin", "requesting"}
               /\ mu' = d <=> call'[d].pc \in {"login", "loggingin"}
               /\ call'[d].trip = MaxTrips => call'[d].pc = "failed"
               /\ call'[d].pc = "get" => sessions' > 0
               /\ call'[d].pc \in {"ok", "deliver"} => call'[d].data \in Data
    <2>1. CASE d = c
      BY <1>2, <1>3, <2>1 DEF StepTo
    <2>2. CASE d # c
      <3>1. call'[d] = call[d] /\ sessions \in Nat
        BY <1>2, <2>2 DEF ClientShape
      <3> QED BY <2>2, <3>1 DEF ClientShape, ClientTypeOK, At, StepTo
    <2> QED BY <2>1, <2>2
  <1> QED BY <1>1, <1>4 DEF ClientShape, ClientTypeOK, At, StepTo

\* Moving a call on changes its pc only.
LEMMA GotoCall ==
    ASSUME NEW Data, ClientShape(Data), NEW c \in Callers, NEW p \in CallStates, Goto(c, p)
    PROVE  /\ [call[c] EXCEPT !.pc = p] \in CallOver(Data)
           /\ call' = [call EXCEPT ![c] = [call[c] EXCEPT !.pc = p]]
           /\ [call[c] EXCEPT !.pc = p].pc = p
           /\ [call[c] EXCEPT !.pc = p].trip = call[c].trip
           /\ [call[c] EXCEPT !.pc = p].data = call[c].data
  <1>1. call[c] \in CallOver(Data)
    BY DEF ClientShape
  <1>2. call' = [call EXCEPT ![c] = [call[c] EXCEPT !.pc = p]]
    BY DEF Goto
  <1> QED BY <1>1, <1>2 DEF CallOver

\* The calls of one caller, whatever the others do.
LEMMA ClientStepShape ==
    ASSUME NEW Data, NEW data \in Data, ClientShape(Data), NEW c \in Callers, ClientStep(c, data)
    PROVE  ClientShape(Data)'
  <1>0. /\ call[c] \in CallOver(Data) /\ call[c].trip \in 0..MaxTrips /\ sessions \in Nat
        /\ expired \in Nat /\ refused \in Nat /\ conns \subseteq Callers /\ Cardinality(conns) <= MaxConns
        /\ mu \in Callers \cup {Nil} /\ Nil \notin Callers /\ MaxTrips \in Nat \ {0} /\ MaxConns \in Nat
        /\ live \subseteq 1..sessions /\ cookie \in 1..sessions \cup {Nil}
        /\ mu # Nil => cookie = Nil
        /\ c \in conns <=> call[c].pc \in {"loggingin", "requesting"}
        /\ mu = c <=> call[c].pc \in {"login", "loggingin"}
        /\ call[c].trip = MaxTrips => At(c, "failed")
        /\ At(c, "get") => sessions > 0
    BY NitroAssumption DEF ClientShape, ClientTypeOK
  <1>a. /\ conns \cup {c} \subseteq Callers
        /\ Cardinality(conns) < MaxConns => Cardinality(conns \cup {c}) <= MaxConns
    <2>1. IsFiniteSet(conns) /\ Cardinality(conns) \in Nat
      BY <1>0, CallerSets
    <2>2. Cardinality(conns \cup {c}) = IF c \in conns THEN Cardinality(conns) ELSE Cardinality(conns) + 1
      BY <2>1, FS_AddElement
    <2> QED BY <1>0, <2>1, <2>2
  <1>b. conns \ {c} \subseteq Callers /\ Cardinality(conns \ {c}) <= MaxConns
    <2>1. conns \in SUBSET Callers /\ conns \ {c} \in SUBSET conns
      BY <1>0
    <2>2. /\ Cardinality(conns \ {c}) <= Cardinality(conns)
          /\ Cardinality(conns \ {c}) \in Nat /\ Cardinality(conns) \in Nat
      BY <2>1, FewerCallers
    <2> QED BY <1>0, <2>2
  <1>1. CASE Refresh(c)
    <2>1. /\ At(c, "refresh") /\ mu = Nil
          /\ UNCHANGED <<cookie, conns, sessions, live, expired, refused>>
      BY <1>1 DEF Refresh
    <2>2. CASE cookie # Nil
      <3>1. Goto(c, "get") /\ mu' = mu
        BY <1>1, <2>2 DEF Refresh
      <3>2. "get" \in CallStates
        BY DEF CallStates
      <3>3. sessions > 0
        BY <1>0, <2>2
      <3> DEFINE r == [call[c] EXCEPT !.pc = "get"]
      <3>4. /\ r \in CallOver(Data) /\ call' = [call EXCEPT ![c] = r] /\ r.pc = "get"
            /\ r.trip = call[c].trip
        BY <3>1, <3>2, GotoCall
      <3> HIDE DEF r
      <3>9. StepTo(Data, c, r)
        BY <1>0, <2>1, <3>1, <3>3, <3>4 DEF StepTo, At
      <3> QED BY <3>4, <3>9, ShapeStep
    <2>3. CASE cookie = Nil
      <3>1. Goto(c, "login") /\ mu' = c
        BY <1>1, <2>3 DEF Refresh
      <3>2. "login" \in CallStates
        BY DEF CallStates
      <3> DEFINE r == [call[c] EXCEPT !.pc = "login"]
      <3>4. /\ r \in CallOver(Data) /\ call' = [call EXCEPT ![c] = r] /\ r.pc = "login"
            /\ r.trip = call[c].trip
        BY <3>1, <3>2, GotoCall
      <3> HIDE DEF r
      <3>9. StepTo(Data, c, r)
        BY <1>0, <2>1, <2>3, <3>1, <3>4 DEF StepTo, At
      <3> QED BY <3>4, <3>9, ShapeStep
    <2> QED BY <2>2, <2>3
  <1>2. CASE Wait(c)
    <2>1. /\ Cardinality(conns) < MaxConns /\ conns' = conns \cup {c}
          /\ UNCHANGED <<cookie, mu, sessions, live, expired, refused>>
      BY <1>2 DEF Wait
    <2>2. ASSUME NEW p \in {"loggingin", "requesting"}, Goto(c, p),
                 p = "loggingin" <=> At(c, "login"), At(c, "login") \/ At(c, "wait")
          PROVE  ClientShape(Data)'
      <3>1. p \in CallStates
        BY DEF CallStates
      <3> DEFINE r == [call[c] EXCEPT !.pc = p]
      <3>2. /\ r \in CallOver(Data) /\ call' = [call EXCEPT ![c] = r] /\ r.pc = p
            /\ r.trip = call[c].trip
        BY <2>2, <3>1, GotoCall
      <3> HIDE DEF r
      <3>3. c \in conns' /\ (mu' = c <=> p = "loggingin") /\ call[c].trip # MaxTrips
        BY <1>0, <2>1, <2>2 DEF At
      <3>4. p # "get" /\ p \notin {"ok", "deliver"} /\ p \in {"loggingin", "requesting"}
            /\ (p \in {"login", "loggingin"} <=> p = "loggingin")
        BY <2>2
      <3>9. StepTo(Data, c, r)
        BY <1>0, <1>a, <2>1, <3>2, <3>3, <3>4 DEF StepTo
      <3> QED BY <3>2, <3>9, ShapeStep
    <2> QED BY <1>2, <2>2 DEF Wait, At
  <1>3. CASE LoginReply(c)
    <2>1. /\ At(c, "loggingin") /\ conns' = conns \ {c} /\ mu' = Nil /\ mu = c
          /\ expired' = expired /\ refused' = refused
      BY <1>0, <1>3 DEF LoginReply, At
    <2>2. ASSUME NEW p \in {"get", "failed"}, Goto(c, p), sessions' \in Nat, sessions <= sessions',
                 p = "get" => sessions' > 0, live' \subseteq 1..sessions', cookie' \in 1..sessions' \cup {Nil}
          PROVE  ClientShape(Data)'
      <3>1. p \in CallStates
        BY DEF CallStates
      <3> DEFINE r == [call[c] EXCEPT !.pc = p]
      <3>2. /\ r \in CallOver(Data) /\ call' = [call EXCEPT ![c] = r] /\ r.pc = p
            /\ r.trip = call[c].trip
        BY <2>2, <3>1, GotoCall
      <3> HIDE DEF r
      <3>3. call[c].trip # MaxTrips
        BY <1>0, <2>1 DEF At
      <3>4. p \notin {"ok", "deliver"} /\ p \notin {"loggingin", "requesting"} /\ p \notin {"login", "loggingin"}
        BY <2>2
      <3>9. StepTo(Data, c, r)
        BY <1>0, <1>b, <2>1, <2>2, <3>2, <3>3, <3>4 DEF StepTo
      <3> QED BY <3>2, <3>9, ShapeStep
    <2>3. CASE Goto(c, "get") /\ sessions' = sessions + 1 /\ live' = live \cup {sessions'} /\ cookie' = sessions'
      <3>1. /\ sessions' \in Nat /\ sessions <= sessions' /\ sessions' > 0
            /\ live' \subseteq 1..sessions' /\ cookie' \in 1..sessions'
        BY <1>0, <2>3
      <3> QED BY <2>2, <2>3, <3>1
    <2>4. CASE Goto(c, "failed") /\ UNCHANGED <<sessions, live, cookie>>
      <3>1. /\ sessions' \in Nat /\ sessions <= sessions'
            /\ live' \subseteq 1..sessions' /\ cookie' \in 1..sessions' \cup {Nil}
        BY <1>0, <2>4
      <3> QED BY <2>2, <2>4, <3>1
    <2> QED BY <1>3, <2>3, <2>4 DEF LoginReply
  <1>4. CASE Get(c)
    <2>1. At(c, "get") /\ mu = Nil /\ UNCHANGED <<cookie, mu, conns, sessions, live, expired, refused>>
      BY <1>4 DEF Get
    <2>2. CASE cookie = Nil
      <3>1. call' = call
        BY <1>4, <2>2 DEF Get
      <3> QED BY <2>1, <3>1 DEF ClientShape, ClientTypeOK, At
    <2>3. CASE cookie # Nil
      <3> DEFINE r == [call[c] EXCEPT !.pc = "wait", !.got = cookie]
      <3>1. call' = [call EXCEPT ![c] = r]
        BY <1>4, <2>3 DEF Get
      <3>2. r \in CallOver(Data) /\ r.pc = "wait" /\ r.trip = call[c].trip
        <4>1. cookie \in Nat \cup {Nil}
          BY <1>0
        <4> QED BY <1>0, <4>1 DEF CallOver, CallStates
      <3> HIDE DEF r
      <3>9. StepTo(Data, c, r)
        BY <1>0, <2>1, <3>1, <3>2 DEF StepTo, At
      <3> QED BY <3>2, <3>9, ShapeStep
    <2> QED BY <2>2, <2>3
  <1>5. CASE Reply(c, data)
    <2>1. /\ At(c, "requesting") /\ conns' = conns \ {c}
          /\ UNCHANGED <<cookie, mu, sessions, live, expired>> /\ refused' \in Nat
      BY <1>0, <1>5 DEF Reply
    <2>2. ASSUME NEW r \in CallOver(Data), call' = [call EXCEPT ![c] = r], r.pc \in {"ok", "reset", "failed"},
                 r.pc = "ok" => r.data \in Data, r.trip = call[c].trip
          PROVE  ClientShape(Data)'
      <3>1. /\ call[c].trip # MaxTrips /\ mu # c
            /\ r.pc \notin {"loggingin", "requesting"} /\ r.pc \notin {"login", "loggingin"}
            /\ r.pc # "get" /\ r.pc # "deliver"
        BY <1>0, <2>1, <2>2 DEF At
      <3>9. StepTo(Data, c, r)
        BY <1>0, <1>b, <2>1, <2>2, <3>1 DEF StepTo
      <3> QED BY <2>2, <3>9, ShapeStep
    <2>3. CASE call' = [call EXCEPT ![c].pc = "ok", ![c].data = data]
      <3> DEFINE r == [call[c] EXCEPT !.pc = "ok", !.data = data]
      <3>1. call' = [call EXCEPT ![c] = r]
        BY <2>3
      <3>2. r \in CallOver(Data) /\ r.pc = "ok" /\ r.trip = call[c].trip /\ r.data = data
        BY <1>0 DEF CallOver, CallStates
      <3> HIDE DEF r
      <3> QED BY <2>2, <3>1, <3>2
    <2>4. ASSUME NEW p \in {"reset", "failed"}, Goto(c, p) PROVE ClientShape(Data)'
      <3>1. p \in CallStates /\ p # "ok"
        BY DEF CallStates
      <3> DEFINE r == [call[c] EXCEPT !.pc = p]
      <3>2. /\ r \in CallOver(Data) /\ call' = [call EXCEPT ![c] = r] /\ r.pc = p
            /\ r.trip = call[c].trip
        BY <2>4, <3>1, GotoCall
      <3> HIDE DEF r
      <3> QED BY <2>2, <2>4, <3>1, <3>2
    <2> QED BY <1>5, <2>3, <2>4 DEF Reply
  <1>6. CASE Reset(c)
    <2>1. /\ At(c, "reset") /\ mu = Nil /\ cookie' = Nil
          /\ UNCHANGED <<mu, conns, sessions, live, expired, refused>>
      BY <1>6 DEF Reset
    <2> DEFINE r == [call[c] EXCEPT !.pc = NextTrip(c), !.trip = call[c].trip + 1]
    <2>2. call' = [call EXCEPT ![c] = r]
      BY <1>6 DEF Reset
    <2>3. /\ call[c].trip < MaxTrips
          /\ NextTrip(c) \in {"refresh", "failed"} /\ NextTrip(c) \in CallStates
          /\ call[c].trip + 1 = MaxTrips => NextTrip(c) = "failed"
      BY <1>0, <2>1 DEF NextTrip, At, CallStates
    <2>4. r \in CallOver(Data) /\ r.pc = NextTrip(c) /\ r.trip = call[c].trip + 1
      <3>1. call[c].trip + 1 \in 0..MaxTrips
        BY <1>0, <2>3
      <3> HIDE DEF NextTrip
      <3> QED BY <1>0, <2>3, <3>1 DEF CallOver
    <2>5. c \notin conns /\ mu # c
      BY <1>0, <2>1 DEF At
    <2>6. /\ r.pc \notin {"loggingin", "requesting"} /\ r.pc \notin {"login", "loggingin"}
          /\ r.pc # "get" /\ r.pc \notin {"ok", "deliver"} /\ (r.trip = MaxTrips => r.pc = "failed")
      BY <2>3, <2>4
    <2> HIDE DEF r
    <2>9. StepTo(Data, c, r)
      BY <1>0, <2>1, <2>2, <2>4, <2>5, <2>6 DEF StepTo
    <2> QED BY <2>4, <2>9, ShapeStep
  <1> QED BY <1>1, <1>2, <1>3, <1>4, <1>5, <1>6 DEF ClientStep

\* Sessions and cookie as they were, and no caller newly doomed but by a cookie
\* that is stale anyway.
LEMMA LoginFrame ==
    ASSUME NEW Data, ClientInv(Data), UNCHANGED <<sessions, expired, refused, cookie, live>>,
           Doomed' \subseteq Doomed \/ StaleCookie
    PROVE  LoginInv'
  <1>1. Doomed \in SUBSET Callers /\ StaleCookie' = StaleCookie /\ Allowed' = Allowed
    BY DEF Doomed, StaleCookie, Allowed
  <1>2. CASE StaleCookie
    BY <1>1, <1>2 DEF ClientInv, LoginInv, ResetsDue
  <1>3. CASE ~StaleCookie
    <2>1. Doomed' \in SUBSET Doomed
      BY <1>3
    <2>2. /\ Cardinality(Doomed') <= Cardinality(Doomed)
          /\ Cardinality(Doomed') \in Nat /\ Cardinality(Doomed) \in Nat
      BY <1>1, <2>1, FewerCallers
    <2>3. ResetsDue = Cardinality(Doomed) /\ ResetsDue' = Cardinality(Doomed')
      BY <1>1, <1>3 DEF ResetsDue
    <2>4. /\ sessions + (IF cookie = Nil THEN 1 ELSE 0) + ResetsDue <= Allowed
          /\ sessions \in Nat /\ expired \in Nat /\ refused \in Nat /\ Cardinality(Callers) \in Nat
      BY <1>1, CallerSets DEF ClientInv, LoginInv, ClientShape
    <2>5. Allowed \in Nat
      <3>1. expired * Cardinality(Callers) \in Nat
        BY <2>4
      <3> QED BY <2>4, <3>1 DEF Allowed
    <2> QED BY <1>1, <2>2, <2>3, <2>4, <2>5 DEF LoginInv
  <1> QED BY <1>2, <1>3

\* A step of c dooms no one else.
LEMMA DoomedStep ==
    ASSUME NEW Data, ClientShape(Data), NEW c \in Callers, NEW r, call' = [call EXCEPT ![c] = r],
           live \subseteq live'
    PROVE  /\ Doomed' \ {c} \subseteq Doomed
           /\ r.pc \notin {"wait", "requesting", "reset"} => c \notin Doomed'
           /\ r.pc \in {"wait", "requesting"} /\ r.got \in live' => c \notin Doomed'
  <1>1. DOMAIN call = Callers
    BY DEF ClientShape
  <1>2. call'[c] = r /\ \A d \in Callers \ {c} : call'[d] = call[d]
    BY <1>1
  <1> QED BY <1>2 DEF Doomed

LEMMA LoginStep ==
    ASSUME NEW Data, NEW data \in Data, ClientInv(Data), NEW c \in Callers, ClientStep(c, data)
    PROVE  LoginInv'
  <1>0. /\ ClientShape(Data) /\ LoginInv /\ call[c] \in CallOver(Data) /\ sessions \in Nat /\ expired \in Nat /\ refused \in Nat
        /\ live \subseteq 1..sessions /\ Nil \notin Nat /\ Nil \notin Callers
        /\ call \in [Callers -> CallOver(Data)] /\ (mu # Nil => cookie = Nil)
        /\ Doomed \in SUBSET Callers
    BY NitroAssumption DEF ClientInv, ClientShape, ClientTypeOK, Doomed
  <1>a. Cardinality(Callers) \in Nat /\ Allowed \in Nat
    <2>1. Cardinality(Callers) \in Nat
      BY CallerSets, <1>0
    <2>2. expired * Cardinality(Callers) \in Nat
      BY <1>0, <2>1
    <2> QED BY <1>0, <2>1, <2>2 DEF Allowed
  <1>1. ASSUME NEW p \in CallStates, Goto(c, p), UNCHANGED <<sessions, expired, refused, cookie, live>>,
               p \in {"wait", "requesting", "reset"} => c \in Doomed
        PROVE  LoginInv'
    <2> DEFINE r == [call[c] EXCEPT !.pc = p]
    <2>1. call' = [call EXCEPT ![c] = r] /\ r.pc = p
      BY <1>0, <1>1, GotoCall
    <2> HIDE DEF r
    <2>2. /\ Doomed' \ {c} \subseteq Doomed
          /\ r.pc \notin {"wait", "requesting", "reset"} => c \notin Doomed'
      BY <1>0, <1>1, <2>1, DoomedStep
    <2>3. Doomed' \subseteq Doomed
      BY <1>1, <2>1, <2>2
    <2> QED BY <1>1, <2>3, LoginFrame
  <1>2. CASE Refresh(c)
    <2>1. "get" \in CallStates /\ "login" \in CallStates
      BY DEF CallStates
    <2> QED BY <1>1, <1>2, <2>1 DEF Refresh
  <1>3. CASE Wait(c)
    <2>1. "loggingin" \in CallStates /\ "requesting" \in CallStates
      BY DEF CallStates
    <2>2. CASE At(c, "login") /\ Goto(c, "loggingin")
      BY <1>1, <1>3, <2>1, <2>2 DEF Wait
    <2>3. CASE At(c, "wait") /\ Goto(c, "requesting")
      <3> DEFINE r == [call[c] EXCEPT !.pc = "requesting"]
      <3>1. call' = [call EXCEPT ![c] = r] /\ r.pc = "requesting" /\ r.got = call[c].got
        <4>1. call' = [call EXCEPT ![c] = r] /\ r.pc = "requesting"
          BY <1>0, <2>1, <2>3, GotoCall
        <4> QED BY <1>0, <4>1 DEF CallOver
      <3> HIDE DEF r
      <3>2. UNCHANGED <<sessions, expired, refused, cookie, live>>
        BY <1>3 DEF Wait
      <3>3. /\ Doomed' \ {c} \subseteq Doomed
            /\ r.pc \in {"wait", "requesting"} /\ r.got \in live' => c \notin Doomed'
        BY <1>0, <3>1, <3>2, DoomedStep
      <3>4. c \in Doomed' => c \in Doomed
        BY <2>3, <3>1, <3>2, <3>3 DEF Doomed, At
      <3> QED BY <3>2, <3>3, <3>4, LoginFrame
    <2> QED BY <1>3, <2>2, <2>3 DEF Wait
  <1>4. CASE LoginReply(c)
    <2>1. "get" \in CallStates /\ "failed" \in CallStates
      BY DEF CallStates
    <2>2. CASE Goto(c, "failed") /\ UNCHANGED <<sessions, live, cookie>>
      BY <1>1, <1>4, <2>1, <2>2 DEF LoginReply
    <2>3. CASE /\ sessions' = sessions + 1 /\ live' = live \cup {sessions'}
               /\ cookie' = sessions' /\ Goto(c, "get")
      <3>1. cookie = Nil /\ Allowed' = Allowed /\ cookie' # Nil /\ sessions' \in Nat
        <4>1. mu = c
          BY <1>4 DEF LoginReply, ClientInv, ClientShape, ClientTypeOK, At
        <4>2. Allowed' = Allowed
          BY <1>4 DEF LoginReply, Allowed
        <4> QED BY <1>0, <1>4, <2>3, <4>1, <4>2 DEF LoginReply
      <3> DEFINE r == [call[c] EXCEPT !.pc = "get"]
      <3>2. call' = [call EXCEPT ![c] = r] /\ r.pc = "get"
        BY <1>0, <2>1, <2>3, GotoCall
      <3> HIDE DEF r
      <3>3. /\ Doomed' \ {c} \subseteq Doomed
            /\ r.pc \notin {"wait", "requesting", "reset"} => c \notin Doomed'
        BY <1>0, <2>3, <3>2, DoomedStep
      <3>4. Doomed' \in SUBSET Doomed
        BY <3>2, <3>3
      <3>5. /\ Cardinality(Doomed') <= Cardinality(Doomed)
            /\ Cardinality(Doomed') \in Nat /\ Cardinality(Doomed) \in Nat
        BY <1>0, <3>4, FewerCallers
      <3>6. ResetsDue = Cardinality(Doomed) /\ ResetsDue' = Cardinality(Doomed')
        BY <2>3, <3>1 DEF ResetsDue, StaleCookie
      <3>7. sessions + 1 + Cardinality(Doomed) <= Allowed
        BY <1>0, <3>1, <3>6 DEF LoginInv
      <3> QED BY <1>0, <1>a, <2>3, <3>1, <3>5, <3>6, <3>7 DEF LoginInv
    <2> QED BY <1>4, <2>2, <2>3 DEF LoginReply
  <1>5. CASE Get(c)
    <2>1. UNCHANGED <<sessions, expired, refused, cookie, live>>
      BY <1>5 DEF Get
    <2>2. CASE cookie = Nil
      <3>1. Doomed' = Doomed
        BY <1>5, <2>2 DEF Get, Doomed
      <3> QED BY <2>1, <3>1, LoginFrame
    <2>3. CASE StaleCookie
      BY <2>1, <2>3, LoginFrame
    <2>4. CASE cookie # Nil /\ ~StaleCookie
      <3> DEFINE r == [call[c] EXCEPT !.pc = "wait", !.got = cookie]
      <3>1. call' = [call EXCEPT ![c] = r] /\ r.pc = "wait" /\ r.got = cookie
        BY <1>0, <1>5, <2>4 DEF Get, CallOver
      <3> HIDE DEF r
      <3>2. cookie \in live'
        BY <2>1, <2>4 DEF StaleCookie
      <3>3. Doomed' \ {c} \subseteq Doomed /\ c \notin Doomed'
        BY <1>0, <2>1, <3>1, <3>2, DoomedStep
      <3> QED BY <2>1, <3>3, LoginFrame
    <2> QED BY <2>2, <2>3, <2>4
  <1>6. CASE Reply(c, data)
    <2>1. UNCHANGED <<sessions, expired, cookie, live>>
      BY <1>6 DEF Reply
    <2>2. CASE call' = [call EXCEPT ![c].pc = "ok", ![c].data = data] /\ UNCHANGED refused
      <3> DEFINE r == [call[c] EXCEPT !.pc = "ok", !.data = data]
      <3>1. call' = [call EXCEPT ![c] = r] /\ r.pc = "ok"
        BY <1>0, <2>2 DEF CallOver
      <3> HIDE DEF r
      <3>2. Doomed' \ {c} \subseteq Doomed /\ c \notin Doomed'
        BY <1>0, <2>1, <3>1, DoomedStep
      <3> QED BY <2>1, <2>2, <3>2, LoginFrame
    <2>3. CASE call[c].got \notin live /\ Goto(c, "reset") /\ UNCHANGED refused
      <3>1. "reset" \in CallStates
        BY DEF CallStates
      <3>2. c \in Doomed
        BY <1>6, <2>3 DEF Reply, Doomed, At
      <3> QED BY <1>1, <2>1, <2>3, <3>1, <3>2
    <2>4. CASE Goto(c, "failed") /\ UNCHANGED refused
      <3>1. "failed" \in CallStates
        BY DEF CallStates
      <3> QED BY <1>1, <2>1, <2>4, <3>1
    <2>5. CASE Goto(c, "reset") /\ refused' = refused + 1
      <3>1. "reset" \in CallStates
        BY DEF CallStates
      <3> DEFINE r == [call[c] EXCEPT !.pc = "reset"]
      <3>2. call' = [call EXCEPT ![c] = r]
        BY <1>0, <2>5, <3>1, GotoCall
      <3> HIDE DEF r
      <3>3. Doomed' \ {c} \subseteq Doomed
        BY <1>0, <2>1, <3>2, DoomedStep
      <3>4. /\ Cardinality(Doomed') \in Nat /\ Cardinality(Doomed) \in Nat
            /\ Cardinality(Doomed') <= Cardinality(Doomed) + 1
        <4>1. IsFiniteSet(Doomed) /\ Cardinality(Doomed) \in Nat
          BY <1>0, CallerSets
        <4>2. Cardinality(Doomed \cup {c}) \in {Cardinality(Doomed), Cardinality(Doomed) + 1}
          <5>1. Cardinality(Doomed \cup {c}) =
                   IF c \in Doomed THEN Cardinality(Doomed) ELSE Cardinality(Doomed) + 1
            BY <4>1, FS_AddElement
          <5> QED BY <5>1
        <4>3. Doomed' \in SUBSET (Doomed \cup {c}) /\ Doomed \cup {c} \in SUBSET Callers
          BY <1>0, <3>3
        <4>4. Cardinality(Doomed') <= Cardinality(Doomed \cup {c}) /\ Cardinality(Doomed') \in Nat
          BY <4>3, FewerCallers
        <4> QED BY <4>1, <4>2, <4>4
      <3>5. ResetsDue' <= ResetsDue + 1 /\ ResetsDue \in Nat /\ ResetsDue' \in Nat
        <4>1. StaleCookie' = StaleCookie
          BY <2>1 DEF StaleCookie
        <4> QED BY <1>a, <3>4, <4>1 DEF ResetsDue
      <3>6. Allowed' = Allowed + 1
        <4>1. expired' * Cardinality(Callers) = expired * Cardinality(Callers) /\ expired * Cardinality(Callers) \in Nat
          BY <1>0, <1>a, <2>1
        <4> QED BY <1>0, <2>5, <4>1 DEF Allowed
      <3>7. sessions + (IF cookie = Nil THEN 1 ELSE 0) + ResetsDue <= Allowed
        BY <1>0 DEF LoginInv
      <3>8. ASSUME NEW k \in Nat, sessions + k + ResetsDue <= Allowed
            PROVE  sessions + k + ResetsDue' <= Allowed'
        <4>1. \A n, k1, x, y, a \in Nat : n + k1 + x <= a /\ y <= x + 1 => n + k1 + y <= a + 1
          OBVIOUS
        <4>2. sessions \in Nat /\ ResetsDue \in Nat /\ ResetsDue' \in Nat /\ Allowed \in Nat
          BY <1>0, <1>a, <3>5
        <4> QED BY <3>5, <3>6, <3>8, <4>1, <4>2
      <3>9. sessions + (IF cookie = Nil THEN 1 ELSE 0) + ResetsDue' <= Allowed'
        BY <3>7, <3>8
      <3> QED BY <2>1, <3>9 DEF LoginInv
    <2> QED BY <1>6, <2>2, <2>3, <2>4, <2>5 DEF Reply
  <1>7. CASE Reset(c)
    <2>1. /\ cookie' = Nil /\ UNCHANGED <<sessions, live, expired, refused>> /\ At(c, "reset")
          /\ Allowed' = Allowed
      BY <1>7 DEF Reset, Allowed
    <2> DEFINE r == [call[c] EXCEPT !.pc = NextTrip(c), !.trip = call[c].trip + 1]
    <2>2. call' = [call EXCEPT ![c] = r]
      BY <1>7 DEF Reset
    <2>3. r.pc \in {"refresh", "failed"}
      BY <1>0 DEF CallOver, NextTrip
    <2> HIDE DEF r
    <2>4. Doomed' \ {c} \subseteq Doomed /\ c \notin Doomed'
      BY <1>0, <2>1, <2>2, <2>3, DoomedStep
    <2>5. c \in Doomed /\ Doomed' \in SUBSET Doomed
      BY <2>1, <2>4 DEF Doomed, At
    <2>6. /\ Cardinality(Doomed') <= Cardinality(Doomed) - 1
          /\ Cardinality(Doomed') \in Nat /\ Cardinality(Doomed) \in Nat
      BY <1>0, <2>4, <2>5, FewerCallers
    <2>7. Cardinality(Doomed) <= Cardinality(Callers)
      BY <1>0, CallerSets
    <2>8. ResetsDue' = Cardinality(Doomed') /\ Cardinality(Doomed') <= ResetsDue - 1 /\ ResetsDue \in Nat
      BY <1>a, <2>1, <2>6, <2>7 DEF ResetsDue, StaleCookie
    <2>9. sessions + ResetsDue <= Allowed
      BY <1>0, <1>a, <2>8 DEF LoginInv
    <2> QED BY <1>0, <1>a, <2>1, <2>6, <2>8, <2>9 DEF LoginInv
  <1> QED BY <1>2, <1>3, <1>4, <1>5, <1>6, <1>7 DEF ClientStep

\* The device forgets its sessions.
LEMMA ExpireStep ==
    ASSUME NEW Data, ClientInv(Data), Expire
    PROVE  ClientInv(Data)'
  <1>0. /\ sessions \in Nat /\ expired \in Nat /\ refused \in Nat /\ live' = {} /\ expired' = expired + 1
        /\ UNCHANGED <<cookie, mu, conns, call, sessions, refused>>
    BY DEF ClientInv, ClientShape, Expire
  <1>1. ClientShape(Data)'
    BY <1>0 DEF ClientInv, ClientShape, ClientTypeOK, At
  <1>2. ResetsDue \in Nat /\ ResetsDue' \in Nat /\ ResetsDue' <= Cardinality(Callers)
        /\ Cardinality(Callers) \in Nat
    <2>1. Doomed \in SUBSET Callers /\ Doomed' \in SUBSET Callers
      BY DEF Doomed
    <2>2. /\ Cardinality(Doomed) \in Nat /\ Cardinality(Doomed') \in Nat
          /\ Cardinality(Doomed') <= Cardinality(Callers) /\ Cardinality(Callers) \in Nat
      BY <2>1, CallerSets
    <2> QED BY <2>2 DEF ResetsDue
  <1>3. /\ (expired + 1) * Cardinality(Callers) = expired * Cardinality(Callers) + Cardinality(Callers)
        /\ expired * Cardinality(Callers) \in Nat
    BY <1>0, <1>2
  <1>a. Allowed' = Allowed + Cardinality(Callers) /\ Allowed \in Nat
    BY <1>0, <1>2, <1>3 DEF Allowed
  <1>4. sessions + (IF cookie = Nil THEN 1 ELSE 0) + ResetsDue <= Allowed
    BY DEF ClientInv, LoginInv
  <1>5. LoginInv'
    BY <1>0, <1>2, <1>a, <1>4 DEF LoginInv
  <1> QED BY <1>1, <1>5 DEF ClientInv

\* A caller begins a call, or is done with one.
LEMMA CallChange ==
    ASSUME NEW Data, ClientInv(Data), NEW c \in Callers, NEW r \in CallOver(Data),
           call' = [call EXCEPT ![c] = r],
           call[c].pc \in {"idle", "ok", "failed", "deliver"},
           r.pc \in {"idle", "refresh", "deliver"}, r.trip # MaxTrips,
           r.pc = "deliver" => r.data \in Data,
           UNCHANGED <<cookie, mu, conns, sessions, live, expired, refused>>
    PROVE  ClientInv(Data)'
  <1>1. ClientShape(Data)
    BY DEF ClientInv
  <1>2. StepTo(Data, c, r)
    BY <1>1 DEF StepTo, ClientShape, ClientTypeOK
  <1>3. ClientShape(Data)'
    BY <1>1, <1>2, ShapeStep
  <1>4. Doomed' \ {c} \subseteq Doomed /\ c \notin Doomed'
    BY <1>1, DoomedStep
  <1>5. LoginInv'
    BY <1>4, LoginFrame
  <1> QED BY <1>3, <1>5 DEF ClientInv

LEMMA ClientFrame ==
    ASSUME NEW Data, ClientInv(Data), UNCHANGED <<cookie, mu, conns, call, sessions, live, expired, refused>>
    PROVE  ClientInv(Data)'
  <1>1. ClientShape(Data)'
    BY DEF ClientInv, ClientShape, ClientTypeOK, At
  <1>2. Doomed' = Doomed
    BY DEF Doomed
  <1> QED BY <1>1, <1>2, LoginFrame DEF ClientInv

\* What a step of c shows its surroundings.
LEMMA StepEffect ==
    ASSUME NEW Data, NEW data \in Data, ClientShape(Data), NEW c \in Callers, ClientStep(c, data)
    PROVE  /\ \A d \in Callers \ {c} : call'[d] = call[d]
           /\ call[c].pc \notin {"idle", "deliver"} /\ call'[c].pc \notin {"idle", "deliver"}
           /\ call'[c].pc = "ok" => call'[c].data = data
           /\ expired' = expired /\ (refused' = refused \/ refused' = refused + 1)
           /\ crashed' = crashed \/ (crashed' = "cookie" /\ At(c, "get") /\ cookie = Nil)
  <1>0. call \in [Callers -> CallOver(Data)] /\ call[c] \in CallOver(Data)
    BY DEF ClientShape
  <1>1. ASSUME NEW p \in {"get", "login", "loggingin", "requesting", "failed", "reset"}, Goto(c, p)
        PROVE  (\A d \in Callers \ {c} : call'[d] = call[d]) /\ call'[c].pc = p
    BY <1>0, <1>1 DEF Goto, CallOver
  <1>2. CASE Refresh(c)
    BY <1>1, <1>2 DEF Refresh, At
  <1>3. CASE Wait(c)
    BY <1>1, <1>3 DEF Wait, At
  <1>4. CASE LoginReply(c)
    BY <1>1, <1>4 DEF LoginReply, At
  <1>5. CASE Get(c)
    BY <1>0, <1>5 DEF Get, At, CallOver
  <1>6. CASE Reply(c, data)
    BY <1>0, <1>1, <1>6 DEF Reply, At, CallOver
  <1>7. CASE Reset(c)
    BY <1>0, <1>7 DEF Reset, At, CallOver, NextTrip
  <1> QED BY <1>2, <1>3, <1>4, <1>5, <1>6, <1>7 DEF ClientStep

-------------------------------------------------------------------------------
(* Loop, the collectors and the jobs.                                        *)

\* Collectors and jobs are different callers, and neither is too many.
LEMMA CallersSplit ==
    /\ Collectors \subseteq Callers /\ Jobs \subseteq Callers /\ Collectors \cap Jobs = {}
    /\ Callers = Collectors \cup Jobs
    /\ \A i \in DOMAIN CollectorSeq : CollectorSeq[i] \in Collectors
    /\ DOMAIN CollectorSeq = 1..Len(CollectorSeq) /\ Len(CollectorSeq) \in Nat \ {0}
    /\ Nil \notin Jobs
    /\ Cardinality(Collectors) <= Len(CollectorSeq)
  <1>1. /\ Collectors \subseteq Callers /\ Jobs \subseteq Callers /\ Collectors \cap Jobs = {}
        /\ Callers = Collectors \cup Jobs /\ Nil \notin Jobs
        /\ \A i \in DOMAIN CollectorSeq : CollectorSeq[i] \in Collectors
    BY NetscalerAssumption, NitroAssumption DEF Collectors
  <1>2. DOMAIN CollectorSeq = 1..Len(CollectorSeq) /\ Len(CollectorSeq) \in Nat \ {0}
    BY NetscalerAssumption
  <1>3. Cardinality(Collectors) <= Len(CollectorSeq)
    <2> DEFINE n == Len(CollectorSeq)
               f == [i \in 1..n |-> CollectorSeq[i]]
    <2>1. /\ f \in [1..n -> Collectors] /\ \A i \in 1..n : f[i] = CollectorSeq[i]
          /\ \A c \in Collectors : \E i \in 1..n : f[i] = c
      BY <1>1, <1>2 DEF Collectors
    <2>2. n \in Nat
      BY <1>2
    <2> HIDE DEF f, n
    <2>3. f \in Surjection(1..n, Collectors)
      BY <2>1 DEF Surjection
    <2>4. IsFiniteSet(1..n) /\ Cardinality(1..n) = n
      BY <2>2, FS_Interval
    <2>5. Cardinality(Collectors) <= Cardinality(1..n)
      BY <2>3, <2>4, FS_Surjection
    <2> QED BY <2>4, <2>5 DEF n
  <1> QED BY <1>1, <1>2, <1>3

\* The calls that Loop and the jobs begin and end.
LEMMA CallEffect ==
    ASSUME ClientInv(Responses), NEW c \in Callers
    PROVE  /\ Begin(c) =>
                 /\ \A d \in Callers \ {c} : call'[d] = call[d]
                 /\ call[c].pc = "idle" /\ call'[c].pc = "refresh"
           /\ call' = [call EXCEPT ![c] = Idle] =>
                 /\ \A d \in Callers \ {c} : call'[d] = call[d]
                 /\ call'[c].pc = "idle"
           /\ Goto(c, "deliver") =>
                 /\ \A d \in Callers \ {c} : call'[d] = call[d]
                 /\ call'[c].pc = "deliver" /\ call'[c].data = call[c].data
  <1>1. call \in [Callers -> CallOver(Responses)] /\ call[c] \in CallOver(Responses)
    BY DEF ClientInv, ClientShape
  <1> QED BY <1>1 DEF Begin, At, Goto, CallOver, Idle

LEMMA ClientInvStep == ASSUME IInv, [Next]_vars PROVE ClientInv(Responses)'
  <1>0. /\ ClientInv(Responses) /\ ClientShape(Responses) /\ [packets |-> packets, ver |-> ver] \in Responses
    BY DEF IInv, ClientInv, FreshInv, Responses
  <1>a. MaxTrips \in Nat \ {0} /\ Idle \in CallOver(Responses) /\ Idle.pc = "idle" /\ Idle.trip = 0
    BY NitroAssumption DEF Idle, CallOver, CallStates
  <1>1. CASE UNCHANGED <<cookie, mu, conns, call, sessions, live, expired, refused>>
    BY <1>0, <1>1, ClientFrame
  <1>2. ASSUME NEW c \in Callers, Step(c) PROVE ClientInv(Responses)'
    <2>1. ClientStep(c, [packets |-> packets, ver |-> ver])
      BY <1>2 DEF Step
    <2>2. ClientShape(Responses)'
      BY <1>0, <2>1, ClientStepShape
    <2>3. LoginInv'
      BY <1>0, <2>1, LoginStep
    <2> QED BY <2>2, <2>3 DEF ClientInv
  <1>3. ASSUME NEW c \in Callers, Begin(c), UNCHANGED <<cookie, mu, conns, sessions, live, expired, refused>>
        PROVE  ClientInv(Responses)'
    <2> DEFINE r == [call[c] EXCEPT !.pc = "refresh"]
    <2>1. "refresh" \in CallStates /\ Goto(c, "refresh") /\ call[c].pc = "idle"
      BY <1>3 DEF CallStates, Begin, At
    <2>2. /\ r \in CallOver(Responses) /\ call' = [call EXCEPT ![c] = r] /\ r.pc = "refresh"
          /\ r.trip = call[c].trip
      BY <1>0, <2>1, GotoCall
    <2>3. call[c].trip # MaxTrips
      BY <1>0, <2>1 DEF ClientShape, At
    <2> HIDE DEF r
    <2> QED BY <1>0, <1>3, <2>1, <2>2, <2>3, CallChange
  <1>4. ASSUME NEW c \in Callers, call[c].pc \in {"ok", "failed", "deliver"},
               call' = [call EXCEPT ![c] = Idle], UNCHANGED <<cookie, mu, conns, sessions, live, expired, refused>>
        PROVE  ClientInv(Responses)'
    BY <1>0, <1>a, <1>4, CallChange
  <1>5. ASSUME NEW c \in Callers, At(c, "ok"), Goto(c, "deliver"),
               UNCHANGED <<cookie, mu, conns, sessions, live, expired, refused>>
        PROVE  ClientInv(Responses)'
    <2> DEFINE r == [call[c] EXCEPT !.pc = "deliver"]
    <2>1. "deliver" \in CallStates
      BY DEF CallStates
    <2>2. /\ r \in CallOver(Responses) /\ call' = [call EXCEPT ![c] = r] /\ r.pc = "deliver"
          /\ r.trip = call[c].trip /\ r.data = call[c].data
      BY <1>0, <1>5, <2>1, GotoCall
    <2>3. call[c].pc = "ok" /\ call[c].trip # MaxTrips /\ call[c].data \in Responses
      BY <1>0, <1>5 DEF ClientShape, At
    <2> HIDE DEF r
    <2> QED BY <1>0, <1>5, <2>2, <2>3, CallChange
  <1>6. CASE Spawn
    <2>1. CollectorSeq[next] \in Callers
      BY CallersSplit DEF IInv, TypeOK
    <2> QED BY <1>3, <1>6, <2>1 DEF Spawn
  <1>7. ASSUME NEW c \in Callers, Collected(c) PROVE ClientInv(Responses)'
    BY <1>4, <1>7 DEF Collected, Returned
  <1>8. ASSUME NEW j \in Jobs, JobWakes(j) \/ JobReturns(j) \/ JobDelivers(j) \/ JobExits(j)
        PROVE  ClientInv(Responses)'
    <2>1. j \in Callers
      BY CallersSplit
    <2>2. CASE JobWakes(j)
      BY <1>3, <2>1, <2>2 DEF JobWakes
    <2>3. CASE JobReturns(j)
      <3>1. CASE At(j, "ok")
        BY <1>5, <2>1, <2>3, <3>1 DEF JobReturns
      <3>2. CASE ~At(j, "ok")
        BY <1>4, <2>1, <2>3, <3>2 DEF JobReturns, Returned
      <3> QED BY <3>1, <3>2
    <2>4. CASE JobDelivers(j) \/ JobExits(j)
      <3>1. call[j].pc = "deliver"
        BY <2>4 DEF JobDelivers, JobExits, IInv, JobInv, At
      <3> QED BY <1>4, <2>1, <2>4, <3>1 DEF JobDelivers, JobExits
    <2> QED BY <1>8, <2>2, <2>3, <2>4
  <1>9. CASE Expires
    BY <1>0, <1>9, ExpireStep DEF Expires
  <1>10. CASE Add \/ Cycle \/ PollTick \/ Traffic \/ Rebind \/ Advance \/ UNCHANGED vars
    BY <1>1, <1>10 DEF Add, Cycle, PollTick, Traffic, Rebind, Advance, vars, clientVars
  <1> QED BY <1>2, <1>6, <1>7, <1>8, <1>9, <1>10 DEF Next

LoopInv ==
    /\ lpc \in {"spawn", "add", "wait"} /\ next \in DOMAIN CollectorSeq
    /\ wg \in Nat /\ wg \in -1..Len(CollectorSeq)
    /\ WaitInv /\ Survives

\* The collectors at work after a step.
LEMMA WorkingStep ==
    ASSUME IInv, [Next]_vars
    PROVE  /\ Working \in SUBSET Callers /\ Working' \in SUBSET Collectors
           /\ Spawn => /\ Working' = Working \cup {CollectorSeq[next]}
                       /\ CollectorSeq[next] \notin Working
           /\ \A c \in Callers : Collected(c) => Working' = Working \ {c} /\ c \in Working
           /\ \/ Spawn \/ \E c \in Callers : Collected(c)
              \/ Working' = Working
  <1>0. ClientInv(Responses) /\ ClientShape(Responses) /\ [packets |-> packets, ver |-> ver] \in Responses
    BY DEF IInv, ClientInv, FreshInv, Responses
  <1>1. Working \in SUBSET Callers /\ Working' \in SUBSET Collectors
    BY CallersSplit DEF Working, Collectors
  <1>2. ASSUME Spawn
        PROVE  Working' = Working \cup {CollectorSeq[next]} /\ CollectorSeq[next] \notin Working
    <2>1. CollectorSeq[next] \in Collectors /\ Begin(CollectorSeq[next])
      BY <1>2, CallersSplit DEF Spawn, IInv, TypeOK
    <2>2. PICK k \in Collectors : k = CollectorSeq[next] /\ k \in Callers
      BY <2>1, CallersSplit
    <2>3. (\A d \in Callers \ {k} : call'[d] = call[d]) /\ call[k].pc = "idle" /\ call'[k].pc = "refresh"
      BY <1>0, <2>1, <2>2, CallEffect
    <2>4. \A d \in Collectors : d \in Callers
      BY CallersSplit
    <2>5. Working' = Working \cup {k} /\ k \notin Working
      BY <2>2, <2>3, <2>4 DEF Working, At
    <2> QED BY <2>2, <2>5
  <1>3. ASSUME NEW c \in Callers, Collected(c)
        PROVE  Working' = Working \ {c} /\ c \in Working
    <2>1. c \in Collectors /\ call[c].pc \in {"ok", "failed"} /\ call' = [call EXCEPT ![c] = Idle]
      BY <1>3 DEF Collected, Returned
    <2>2. (\A d \in Callers \ {c} : call'[d] = call[d]) /\ call'[c].pc = "idle"
      BY <1>0, <2>1, CallEffect
    <2>3. \A d \in Collectors : d \in Callers
      BY CallersSplit
    <2> QED BY <2>1, <2>2, <2>3 DEF Working, At
  <1>4. ASSUME NEW c \in Callers, Step(c) PROVE Working' = Working
    <2>1. /\ \A d \in Callers \ {c} : call'[d] = call[d]
          /\ call[c].pc \notin {"idle", "deliver"} /\ call'[c].pc \notin {"idle", "deliver"}
      BY <1>0, <1>4, StepEffect DEF Step
    <2> QED BY <2>1, CallersSplit DEF Working, At, Collectors
  <1>5. ASSUME NEW j \in Jobs, JobWakes(j) \/ JobReturns(j) \/ JobDelivers(j) \/ JobExits(j)
        PROVE  Working' = Working
    <2>1. j \in Callers /\ j \notin Collectors
      BY CallersSplit
    <2>2. \A d \in Callers \ {j} : call'[d] = call[d]
      BY <1>0, <1>5, <2>1, CallEffect DEF JobWakes, JobReturns, JobDelivers, JobExits
    <2> QED BY <2>1, <2>2, CallersSplit DEF Working, At, Collectors
  <1>6. ASSUME call' = call PROVE Working' = Working
    BY <1>6 DEF Working, At, Collectors
  <1> QED BY <1>1, <1>2, <1>3, <1>4, <1>5, <1>6
      DEF Next, Add, Cycle, PollTick, Traffic, Rebind, Expires, Expire, Advance, vars, clientVars

LEMMA LoopStep == ASSUME IInv, [Next]_vars PROVE LoopInv'
  <1>0. /\ LoopInv /\ ClientInv(Responses) /\ ClientShape(Responses)
        /\ [packets |-> packets, ver |-> ver] \in Responses
        /\ Nil \notin {"cookie", "wg"}
    BY NitroAssumption DEF IInv, LoopInv, TypeOK, ClientInv, FreshInv, Responses
  <1>a. IsFiniteSet(Working) /\ Cardinality(Working) \in Nat
    BY WorkingStep, CallerSets
  <1>b. Cardinality(Working') <= Len(CollectorSeq) /\ Cardinality(Working') \in Nat /\ Len(CollectorSeq) \in Nat
    <2>1. Collectors \in SUBSET Callers /\ Working' \in SUBSET Collectors
      BY CallersSplit, WorkingStep
    <2>2. /\ Cardinality(Working') <= Cardinality(Collectors)
          /\ Cardinality(Working') \in Nat /\ Cardinality(Collectors) \in Nat
      BY <2>1, FewerCallers
    <2> QED BY <2>2, CallersSplit
  <1>1. CASE Spawn
    <2>1. Cardinality(Working') = Cardinality(Working) + 1
      <3>1. Cardinality(Working \cup {CollectorSeq[next]}) = Cardinality(Working) + 1
        BY <1>1, <1>a, WorkingStep, FS_AddElement
      <3> QED BY <1>1, <3>1, WorkingStep
    <2>2. lpc = "spawn" /\ lpc' = "add" /\ UNCHANGED <<next, wg, crashed, expired, refused>>
      BY <1>1 DEF Spawn
    <2> QED BY <1>0, <1>a, <2>1, <2>2 DEF LoopInv, WaitInv, Survives
  <1>2. CASE Add /\ crashed = Nil
    <2>1. /\ lpc = "add" /\ wg' = wg + 1 /\ lpc' \in {"spawn", "wait"} /\ next' \in DOMAIN CollectorSeq
          /\ UNCHANGED <<crashed, expired, refused>> /\ Working' = Working
      <3>1. Working' = Working /\ UNCHANGED <<crashed, expired, refused>> /\ lpc = "add" /\ wg' = wg + 1
        BY <1>2 DEF Add, clientVars, Working, At, Collectors
      <3>2. lpc' \in {"spawn", "wait"} /\ next' \in DOMAIN CollectorSeq
        BY <1>0, <1>2, CallersSplit DEF Add, LoopInv
      <3> QED BY <3>1, <3>2
    <2>3. wg + 1 = Cardinality(Working)
      BY <1>0, <1>2, <2>1 DEF LoopInv, WaitInv
    <2>4. wg' \in Nat /\ wg' \in -1..Len(CollectorSeq) /\ WaitInv'
      BY <1>0, <1>b, <2>1, <2>3 DEF LoopInv, WaitInv
    <2>5. Survives'
      BY <1>0, <1>2, <2>1 DEF Survives
    <2> QED BY <2>1, <2>4, <2>5 DEF LoopInv
  <1>3. CASE Cycle
    <2>1. /\ lpc = "wait" /\ lpc' = "spawn" /\ UNCHANGED <<next, wg, crashed, expired, refused>> /\ Working' = Working
      BY <1>3 DEF Cycle, clientVars, Working, At, Collectors
    <2> QED BY <1>0, <2>1 DEF LoopInv, WaitInv, Survives
  <1>4. ASSUME NEW c \in Callers, Collected(c), crashed = Nil PROVE LoopInv'
    <2>1. Cardinality(Working') = Cardinality(Working) - 1 /\ Cardinality(Working) >= 1
      <3>1. Cardinality(Working \ {c}) = Cardinality(Working) - 1
        BY <1>4, <1>a, WorkingStep, FS_RemoveElement
      <3>2. Working' = Working \ {c}
        BY <1>4, WorkingStep
      <3> QED BY <1>a, <1>b, <3>1, <3>2
    <2>2. UNCHANGED <<lpc, next, expired, refused>>
      BY <1>4 DEF Collected
    <2>4. wg + (IF lpc = "add" THEN 1 ELSE 0) = Cardinality(Working)
      BY <1>0, <1>4 DEF LoopInv, WaitInv
    <2>5. CASE wg = 0
      <3>1. lpc = "add" /\ wg' = wg /\ crashed' = "wg"
        BY <1>4, <2>1, <2>4, <2>5 DEF Collected
      <3> QED BY <1>0, <2>2, <3>1 DEF LoopInv, WaitInv, Survives
    <2>6. CASE wg # 0
      <3>1. wg' = wg - 1 /\ crashed' = crashed /\ wg \in Nat
        BY <1>0, <1>4, <2>6 DEF Collected, LoopInv
      <3>2. WaitInv'
        BY <1>a, <2>1, <2>2, <2>4, <3>1 DEF WaitInv
      <3>3. wg' \in Nat /\ wg' \in -1..Len(CollectorSeq)
        BY <1>0, <1>b, <2>6, <3>1 DEF LoopInv
      <3> QED BY <1>0, <1>4, <2>2, <3>1, <3>2, <3>3 DEF LoopInv, Survives
    <2> QED BY <2>5, <2>6
  <1>5. ASSUME NEW c \in Callers, Step(c) PROVE LoopInv'
    <2>1. /\ expired' = expired /\ (refused' = refused \/ refused' = refused + 1)
          /\ crashed' = crashed \/ (crashed' = "cookie" /\ At(c, "get") /\ cookie = Nil)
      BY <1>0, <1>5, StepEffect DEF Step
    <2>2. UNCHANGED <<lpc, next, wg>> /\ Working' = Working
      <3>1. UNCHANGED <<lpc, next, wg>>
        BY <1>5 DEF Step, loopVars
      <3>2. /\ \A d \in Callers \ {c} : call'[d] = call[d]
            /\ call[c].pc \notin {"idle", "deliver"} /\ call'[c].pc \notin {"idle", "deliver"}
        BY <1>0, <1>5, StepEffect DEF Step
      <3> QED BY <3>1, <3>2, CallersSplit DEF Working, At, Collectors
    <2>3. CASE crashed' = crashed
      <3>1. expired \in Nat /\ refused \in Nat
        BY <1>0 DEF ClientShape
      <3>2. expired + refused > 0 => expired' + refused' > 0
        BY <2>1, <3>1
      <3> QED BY <1>0, <2>1, <2>2, <2>3, <3>2 DEF LoopInv, WaitInv, Survives
    <2>4. CASE crashed' = "cookie" /\ At(c, "get") /\ cookie = Nil
      <3>1. sessions > 0 /\ sessions \in Nat /\ expired \in Nat /\ refused \in Nat
        BY <1>0, <2>4 DEF ClientShape
      <3>2. ResetsDue \in Nat /\ Cardinality(Callers) \in Nat
        <4>1. Doomed \in SUBSET Callers
          BY DEF Doomed
        <4>2. Cardinality(Doomed) \in Nat /\ Cardinality(Callers) \in Nat
          BY <4>1, CallerSets
        <4> QED BY <4>2 DEF ResetsDue
      <3>3. sessions + 1 + ResetsDue <= Allowed
        BY <1>0, <2>4 DEF ClientInv, LoginInv
      <3>4. expired # 0 \/ refused # 0
        <4>1. 0 * Cardinality(Callers) = 0
          BY <3>2
        <4>2. expired = 0 /\ refused = 0 => Allowed = 1
          BY <4>1 DEF Allowed
        <4> QED BY <3>1, <3>2, <3>3, <4>2
      <3>5. expired' + refused' > 0
        BY <2>1, <3>1, <3>4
      <3> QED BY <1>0, <2>1, <2>2, <2>4, <3>5, NitroAssumption DEF LoopInv, WaitInv, Survives
    <2> QED BY <2>1, <2>3, <2>4
  <1>6. ASSUME Working' = Working, UNCHANGED <<lpc, next, wg, crashed, refused>>,
               expired' = expired \/ expired' = expired + 1
        PROVE  LoopInv'
    <2>1. expired \in Nat /\ refused \in Nat
      BY <1>0 DEF ClientShape
    <2> QED BY <1>0, <1>6, <2>1 DEF LoopInv, WaitInv, Survives
  <1>7. ASSUME NEW j \in Jobs, JobWakes(j) \/ JobReturns(j) \/ JobDelivers(j) \/ JobExits(j)
        PROVE  LoopInv'
    <2>1. UNCHANGED <<lpc, next, wg, crashed, expired, refused>>
      BY <1>7 DEF JobWakes, JobReturns, JobDelivers, JobExits, loopVars
    <2>2. j \in Callers /\ j \notin Collectors
      BY CallersSplit
    <2>3. \A d \in Callers \ {j} : call'[d] = call[d]
      BY <1>0, <1>7, <2>2, CallEffect DEF JobWakes, JobReturns, JobDelivers, JobExits
    <2>4. Working' = Working
      BY <2>2, <2>3, CallersSplit DEF Working, At, Collectors
    <2> QED BY <1>6, <2>1, <2>4
  <1>8. CASE PollTick \/ Traffic \/ Rebind \/ Expires \/ Advance \/ UNCHANGED vars
    <2>1. /\ UNCHANGED <<lpc, next, wg, crashed, refused, call>>
          /\ expired' = expired \/ expired' = expired + 1
      BY <1>8 DEF PollTick, Traffic, Rebind, Expires, Expire, Advance, vars, clientVars, loopVars
    <2>2. Working' = Working
      BY <2>1 DEF Working, At, Collectors
    <2> QED BY <1>6, <2>1, <2>2
  <1> QED BY <1>1, <1>2, <1>3, <1>4, <1>5, <1>7, <1>8 DEF Next

JobPart ==
    /\ running \in Jobs \cup {Nil} /\ exit \subseteq Jobs /\ running \notin exit
    /\ bindings \in DOMAIN Lists \cup {Nil}
    /\ JobInv /\ FreshInv

LEMMA JobStep == ASSUME IInv, [Next]_vars PROVE JobPart'
  <1>0. /\ JobPart /\ ClientInv(Responses) /\ ClientShape(Responses)
        /\ [packets |-> packets, ver |-> ver] \in Responses
    BY DEF IInv, JobPart, TypeOK, ClientInv, FreshInv, Responses
  <1>a. /\ \A j \in Jobs : j \in Callers /\ j \notin Collectors /\ j # Nil
        /\ DOMAIN Lists = 1..Len(Lists) /\ Len(Lists) \in Nat \ {0} /\ DOMAIN Lists \subseteq Nat
        /\ Nil \notin Nat
    BY CallersSplit, NetscalerAssumption, NitroAssumption
  <1>b. /\ ver \in DOMAIN Lists /\ packets \in Nat /\ late \in BOOLEAN
        /\ jpc \in [Jobs -> {"idle", "sleep", "call", "out"}]
        /\ \A j \in Jobs : call[j].pc \in {"ok", "deliver"} =>
                 call[j].data \in Responses /\ call[j].data.ver \in DOMAIN Lists
    BY <1>0, <1>a DEF JobPart, JobInv, FreshInv, ClientShape, Responses
  <1>1. ASSUME UNCHANGED <<running, exit, jpc, bindings, late>>, \A j \in Jobs : call'[j] = call[j],
               packets' \in Nat, ver' \in DOMAIN Lists, ver <= ver'
        PROVE  JobPart'
    <2>1. JobInv'
      BY <1>0, <1>1 DEF JobPart, JobInv, At
    <2>2. FreshInv'
      BY <1>0, <1>a, <1>b, <1>1 DEF JobPart, FreshInv
    <2> QED BY <1>0, <1>1, <2>1, <2>2 DEF JobPart
  <1>2. ASSUME NEW c \in Callers, Step(c) PROVE JobPart'
    <2>1. /\ \A d \in Callers \ {c} : call'[d] = call[d]
          /\ call[c].pc \notin {"idle", "deliver"} /\ call'[c].pc \notin {"idle", "deliver"}
          /\ call'[c].pc = "ok" => call'[c].data = [packets |-> packets, ver |-> ver]
      BY <1>0, <1>2, StepEffect DEF Step
    <2>2. UNCHANGED <<running, exit, jpc, bindings, late, packets, ver>>
      BY <1>2 DEF Step, jobVars, deviceVars
    <2>3. JobInv'
      <3> SUFFICES ASSUME NEW j \in Jobs
                   PROVE  /\ At(j, "idle")' <=> At(j, "idle")
                          /\ At(j, "deliver")' <=> At(j, "deliver")
        BY <1>0, <2>2 DEF JobPart, JobInv
      <3>1. CASE j = c
        BY <2>1, <3>1 DEF At
      <3>2. CASE j # c
        BY <1>a, <2>1, <3>2 DEF At
      <3> QED BY <3>1, <3>2
    <2>4. FreshInv'
      <3> SUFFICES ASSUME NEW j \in Jobs, call'[j].pc \in {"ok", "deliver"}
                   PROVE  /\ call'[j].data.ver <= ver
                          /\ bindings # Nil /\ ~late /\ j \notin exit => bindings <= call'[j].data.ver
        BY <1>0, <2>2 DEF JobPart, FreshInv
      <3>1. CASE j = c
        <4>1. /\ bindings # Nil /\ ~late => bindings <= ver
              /\ ver \in Nat
          BY <1>0, <1>a, <1>b DEF JobPart, FreshInv
        <4> QED BY <2>1, <3>1, <4>1
      <3>2. CASE j # c
        BY <1>0, <1>a, <2>1, <3>2 DEF JobPart, FreshInv
      <3> QED BY <3>1, <3>2
    <2> QED BY <1>0, <2>2, <2>3, <2>4 DEF JobPart
  <1>3. CASE Spawn
    <2>1. UNCHANGED <<running, exit, jpc, bindings, late, packets, ver>>
      BY <1>3 DEF Spawn, jobVars, deviceVars
    <2>2. PICK c \in Collectors : c = CollectorSeq[next] /\ c \in Callers /\ Begin(c)
      BY <1>3, CallersSplit DEF Spawn, IInv, TypeOK
    <2>3. \A d \in Callers \ {c} : call'[d] = call[d]
      BY <1>0, <2>2, CallEffect
    <2> QED BY <1>a, <1>b, <1>1, <2>1, <2>2, <2>3
  <1>4. ASSUME NEW c \in Callers, Collected(c) PROVE JobPart'
    <2>1. /\ UNCHANGED <<running, exit, jpc, bindings, late, packets, ver>> /\ c \in Collectors
          /\ call' = [call EXCEPT ![c] = Idle]
      BY <1>4 DEF Collected, jobVars, deviceVars
    <2>2. \A d \in Callers \ {c} : call'[d] = call[d]
      BY <1>0, <2>1, CallEffect
    <2> QED BY <1>a, <1>b, <1>1, <2>1, <2>2
  <1>5. CASE PollTick
    <2>1. UNCHANGED <<call, bindings, late, packets, ver>>
      BY <1>5 DEF PollTick, clientVars, deviceVars
    <2>2. CASE /\ running = Nil /\ \E j \in Jobs : jpc[j] = "idle"
               /\ running' = IdleJob /\ jpc' = [jpc EXCEPT ![IdleJob] = "sleep"] /\ exit' = exit
      <3>1. PICK k \in Jobs : k = IdleJob /\ jpc[k] = "idle"
        BY <2>2 DEF IdleJob
      <3>2. /\ running' = k /\ jpc' = [jpc EXCEPT ![k] = "sleep"] /\ k \notin exit
        BY <1>0, <2>2, <3>1 DEF JobPart, JobInv
      <3>3. JobInv'
        BY <1>0, <1>a, <1>b, <2>1, <2>2, <3>1, <3>2 DEF JobPart, JobInv, At
      <3>4. FreshInv'
        BY <1>0, <2>1, <2>2 DEF JobPart, FreshInv
      <3> QED BY <1>0, <2>1, <2>2, <3>2, <3>3, <3>4 DEF JobPart
    <2>3. CASE running # Nil /\ exit' = exit \cup {running} /\ running' = Nil /\ jpc' = jpc
      <3>1. JobInv'
        BY <1>0, <1>a, <2>1, <2>3 DEF JobPart, JobInv, At
      <3>2. FreshInv'
        BY <1>0, <2>1, <2>3 DEF JobPart, FreshInv
      <3> QED BY <1>0, <1>a, <2>1, <2>3, <3>1, <3>2 DEF JobPart
    <2> QED BY <1>5, <2>2, <2>3 DEF PollTick
  <1>6. ASSUME NEW j \in Jobs, NEW p \in {"sleep", "call", "out"}, jpc[j] # "idle",
               UNCHANGED <<running, exit, packets, ver>>, jpc' = [jpc EXCEPT ![j] = p],
               \A d \in Callers \ {j} : call'[d] = call[d],
               p = "sleep" <=> call'[j].pc = "idle", p = "out" <=> call'[j].pc = "deliver"
        PROVE  JobInv'
    BY <1>0, <1>a, <1>b, <1>6 DEF JobPart, JobInv, At
  <1>7. ASSUME NEW j \in Jobs, JobWakes(j) PROVE JobPart'
    <2>1. /\ UNCHANGED <<running, exit, bindings, late, packets, ver>> /\ Begin(j)
          /\ jpc[j] = "sleep" /\ jpc' = [jpc EXCEPT ![j] = "call"]
      BY <1>7 DEF JobWakes, deviceVars
    <2>2. (\A d \in Callers \ {j} : call'[d] = call[d]) /\ call'[j].pc = "refresh"
      BY <1>0, <1>a, <2>1, CallEffect
    <2>3. JobInv'
      BY <1>6, <2>1, <2>2
    <2>4. FreshInv'
      BY <1>0, <1>a, <2>1, <2>2 DEF JobPart, FreshInv
    <2> QED BY <1>0, <2>1, <2>3, <2>4 DEF JobPart
  <1>8. ASSUME NEW j \in Jobs, JobReturns(j) PROVE JobPart'
    <2>1. UNCHANGED <<running, exit, bindings, late, packets, ver>> /\ jpc[j] = "call"
      BY <1>8 DEF JobReturns, deviceVars
    <2>2. CASE At(j, "ok")
      <3>1. jpc' = [jpc EXCEPT ![j] = "out"] /\ Goto(j, "deliver")
        BY <1>8, <2>2 DEF JobReturns
      <3>2. /\ \A d \in Callers \ {j} : call'[d] = call[d]
            /\ call'[j].pc = "deliver" /\ call'[j].data = call[j].data
        BY <1>0, <1>a, <3>1, CallEffect
      <3>3. JobInv'
        BY <1>6, <2>1, <3>1, <3>2
      <3>4. FreshInv'
        BY <1>0, <1>a, <2>1, <2>2, <3>2 DEF JobPart, FreshInv, At
      <3> QED BY <1>0, <2>1, <3>3, <3>4 DEF JobPart
    <2>3. CASE ~At(j, "ok")
      <3>1. jpc' = [jpc EXCEPT ![j] = "sleep"] /\ call' = [call EXCEPT ![j] = Idle]
        BY <1>8, <2>3 DEF JobReturns
      <3>2. (\A d \in Callers \ {j} : call'[d] = call[d]) /\ call'[j].pc = "idle"
        BY <1>0, <1>a, <3>1, CallEffect
      <3>3. JobInv'
        BY <1>6, <2>1, <3>1, <3>2
      <3>4. FreshInv'
        BY <1>0, <1>a, <2>1, <3>2 DEF JobPart, FreshInv
      <3> QED BY <1>0, <2>1, <3>3, <3>4 DEF JobPart
    <2> QED BY <2>2, <2>3
  <1>9. ASSUME NEW j \in Jobs, JobDelivers(j) PROVE JobPart'
    <2>1. /\ UNCHANGED <<running, exit, packets, ver>> /\ jpc[j] = "out"
          /\ bindings' = call[j].data.ver /\ late' = (late \/ j \in exit)
          /\ jpc' = [jpc EXCEPT ![j] = "sleep"] /\ call' = [call EXCEPT ![j] = Idle]
      BY <1>9 DEF JobDelivers, deviceVars
    <2>2. (\A d \in Callers \ {j} : call'[d] = call[d]) /\ call'[j].pc = "idle"
      BY <1>0, <1>a, <2>1, CallEffect
    <2>3. JobInv'
      BY <1>6, <2>1, <2>2
    <2>4. call[j].pc = "deliver" /\ bindings' \in DOMAIN Lists
      BY <1>0, <1>b, <2>1 DEF JobPart, JobInv, At
    <2>5. late' \in BOOLEAN
      BY <1>b, <2>1
    <2>6. ASSUME ~late'
          PROVE  /\ bindings' <= ver
                 /\ \A d \in Jobs \ exit : call'[d].pc \notin {"ok", "deliver"}
      <3>1. j \notin exit /\ running = j
        BY <1>0, <2>1, <2>6 DEF JobPart, JobInv
      <3>2. \A d \in Jobs \ exit : d # j => jpc[d] = "idle"
        BY <1>0, <3>1 DEF JobPart, JobInv
      <3>3. \A d \in Jobs \ exit : d # j => call'[d].pc = "idle"
        BY <1>0, <1>a, <2>2, <3>2 DEF JobPart, JobInv, At
      <3>4. call[j].data.ver <= ver
        BY <1>0, <2>4 DEF JobPart, FreshInv
      <3> QED BY <2>1, <2>2, <3>3, <3>4
    <2>7. FreshInv'
      <3>1. \A d \in Jobs : call'[d].pc \in {"ok", "deliver"} => call'[d].data.ver <= ver
        BY <1>0, <1>a, <2>2 DEF JobPart, FreshInv
      <3> QED BY <1>b, <2>1, <2>5, <2>6, <3>1 DEF FreshInv
    <2> QED BY <1>0, <2>1, <2>3, <2>4, <2>7 DEF JobPart
  <1>10. ASSUME NEW j \in Jobs, JobExits(j) PROVE JobPart'
    <2>1. /\ UNCHANGED <<running, packets, ver, bindings, late>> /\ jpc[j] = "out" /\ j \in exit
          /\ exit' = exit \ {j}
          /\ jpc' = [jpc EXCEPT ![j] = "idle"] /\ call' = [call EXCEPT ![j] = Idle]
      BY <1>10 DEF JobExits, deviceVars
    <2>2. (\A d \in Callers \ {j} : call'[d] = call[d]) /\ call'[j].pc = "idle"
      BY <1>0, <1>a, <2>1, CallEffect
    <2>3. JobInv'
      BY <1>0, <1>a, <1>b, <2>1, <2>2 DEF JobPart, JobInv, At
    <2>4. FreshInv'
      BY <1>0, <1>a, <2>1, <2>2 DEF JobPart, FreshInv
    <2> QED BY <1>0, <2>1, <2>3, <2>4 DEF JobPart
  <1>11. CASE Add \/ Cycle \/ Traffic \/ Rebind \/ Expires \/ Advance \/ UNCHANGED vars
    <2>1. UNCHANGED <<running, exit, jpc, bindings, late, call>>
      BY <1>11 DEF Add, Cycle, Traffic, Rebind, Expires, Expire, Advance, vars, clientVars, jobVars
    <2>2. /\ packets' = packets \/ packets' = packets + 1
          /\ ver' = ver \/ (ver < Len(Lists) /\ ver' = ver + 1)
      BY <1>11 DEF Add, Cycle, Traffic, Rebind, Expires, Expire, Advance, vars, deviceVars
    <2>3. packets' \in Nat /\ ver' \in DOMAIN Lists /\ ver <= ver'
      BY <1>a, <1>b, <2>2
    <2> QED BY <1>1, <2>1, <2>3
  <1> QED BY <1>2, <1>3, <1>4, <1>5, <1>7, <1>8, <1>9, <1>10, <1>11 DEF Next

-------------------------------------------------------------------------------
(* Theorems.                                                                 *)

LEMMA InitInv == Init => IInv
  <1> SUFFICES ASSUME Init PROVE IInv
    OBVIOUS
  <1>0. /\ MaxTrips \in Nat \ {0} /\ MaxConns \in Nat \ {0} /\ Nil \notin Nat /\ Nil \notin Callers
        /\ Nil \notin {"cookie", "wg"}
    BY NitroAssumption
  <1>1. /\ cookie = Nil /\ mu = Nil /\ conns = {} /\ sessions = 0 /\ live = {} /\ expired = 0 /\ refused = 0
        /\ crashed = Nil /\ \A c \in Callers : call[c] = Idle
        /\ call \in [Callers -> {Idle}]
    BY DEF Init, ClientInit
  <1>2. Idle \in CallOver(Responses) /\ Idle.pc = "idle" /\ Idle.trip = 0 /\ "idle" \in CallStates
    BY <1>0 DEF Idle, CallOver, CallStates
  <1>3. ClientShape(Responses)
    <2>1. Cardinality(conns) <= MaxConns
      BY <1>0, <1>1, FS_EmptySet
    <2>2. call \in [Callers -> CallOver(Responses)]
      BY <1>1, <1>2
    <2> QED BY <1>0, <1>1, <1>2, <2>1, <2>2 DEF ClientShape, ClientTypeOK, At
  <1>4. LoginInv
    <2>1. Doomed = {}
      BY <1>1, <1>2 DEF Doomed
    <2>2. ResetsDue = 0
      BY <1>1, <2>1, FS_EmptySet DEF ResetsDue, StaleCookie
    <2>3. 0 * Cardinality(Callers) = 0
      <3>1. Callers \in SUBSET Callers
        OBVIOUS
      <3>2. Cardinality(Callers) \in Nat
        BY <3>1, CallerSets
      <3> QED BY <3>2
    <2> QED BY <1>1, <2>2, <2>3 DEF LoginInv, Allowed
  <1>5. LoopInv
    <2>1. Working = {}
      BY <1>1, <1>2, CallersSplit DEF Working, At
    <2>2. lpc = "spawn" /\ next = 1 /\ wg = 0
      BY DEF Init
    <2>3. WaitInv
      BY <2>1, <2>2, FS_EmptySet DEF WaitInv
    <2> QED BY <1>0, <1>1, <2>2, <2>3, CallersSplit DEF LoopInv, Survives
  <1>6. JobPart
    <2>1. /\ running = Nil /\ exit = {} /\ bindings = Nil /\ late = FALSE /\ ver = 1 /\ packets = 0
          /\ jpc = [j \in Jobs |-> "idle"]
      BY DEF Init
    <2>2. JobInv
      BY <1>1, <1>2, <2>1, CallersSplit DEF JobInv, At
    <2>3. FreshInv
      <3>1. 1 \in DOMAIN Lists
        BY NetscalerAssumption
      <3>2. \A j \in Jobs : call[j].pc = "idle"
        BY <1>1, <1>2, CallersSplit
      <3> QED BY <2>1, <3>1, <3>2 DEF FreshInv
    <2> QED BY <2>1, <2>2, <2>3 DEF JobPart
  <1> QED BY <1>3, <1>4, <1>5, <1>6 DEF IInv, ClientInv, ClientShape, LoopInv, JobPart, JobInv, TypeOK

\* IInv is an inductive invariant of the collector.
THEOREM InductiveInvariant == Spec => []IInv
  <1>1. Init => IInv
    BY InitInv
  <1>2. IInv /\ [Next]_vars => IInv'
    <2> SUFFICES ASSUME IInv, [Next]_vars PROVE IInv'
      OBVIOUS
    <2>1. ClientInv(Responses)' /\ LoopInv' /\ JobPart'
      BY ClientInvStep, LoopStep, JobStep
    <2> QED BY <2>1 DEF IInv, ClientInv, ClientShape, LoopInv, JobPart, JobInv, TypeOK
  <1> QED BY <1>1, <1>2, PTL DEF Spec

\* No more requests are under way than MaxConnsPerHost, each holds a connection,
\* and only the caller that logs in holds the mutex of the cookie.
THEOREM TypeCorrect == Spec => []TypeOK
  <1>1. IInv => TypeOK
    BY DEF IInv
  <1> QED BY <1>1, InductiveInvariant, PTL

\* However late authentication errors discard fresh cookies, an expiry costs at
\* most one login for each caller, and a refused request one.
THEOREM LoginsAreBounded == Spec => []LoginsBounded
  <1>1. IInv => LoginsBounded
    <2> SUFFICES ASSUME IInv PROVE LoginsBounded
      OBVIOUS
    <2>1. Doomed \in SUBSET Callers /\ sessions \in Nat /\ expired \in Nat /\ refused \in Nat
      BY DEF Doomed, IInv, ClientInv, ClientShape
    <2>2. Cardinality(Doomed) \in Nat /\ Cardinality(Callers) \in Nat
      BY <2>1, CallerSets
    <2>3. ResetsDue \in Nat /\ expired * Cardinality(Callers) \in Nat
      BY <2>1, <2>2 DEF ResetsDue
    <2>4. Allowed \in Nat
      BY <2>1, <2>3 DEF Allowed
    <2> QED BY <2>1, <2>3, <2>4 DEF IInv, ClientInv, LoginInv, LoginsBounded
  <1> QED BY <1>1, InductiveInvariant, PTL

\* The two panics of the collector need what they seem to need: an authentication
\* error, or a collector that is done before Loop has counted it.
THEOREM PanicsExplained == Spec => []Survives
  <1>1. IInv => Survives
    BY DEF IInv
  <1> QED BY <1>1, InductiveInvariant, PTL

\* Only a job that delivers after it was told to exit replaces the bindings of a
\* server by older ones.
THEOREM BindingsOnlyNewer == Spec => BindingsNewer
  <1>1. IInv /\ [Next]_vars => [bindings' # bindings /\ bindings # Nil => bindings' > bindings \/ late']_vars
    <2> SUFFICES ASSUME IInv, [Next]_vars, bindings' # bindings, bindings # Nil
                 PROVE  bindings' > bindings \/ late'
      OBVIOUS
    <2>1. PICK j \in Jobs : JobDelivers(j)
      BY DEF Next, Spawn, Add, Cycle, PollTick, Step, Collected, JobWakes, JobReturns, JobExits,
             Traffic, Rebind, Expires, Advance, vars, jobVars
    <2>2. /\ bindings' = call[j].data.ver /\ late' = (late \/ j \in exit) /\ call[j].pc = "deliver"
          /\ late \in BOOLEAN
      BY <2>1 DEF JobDelivers, IInv, JobInv, At, FreshInv
    <2>3. bindings \in Nat /\ call[j].data.ver \in Nat
      <3>1. call[j].data \in Responses
        BY <2>2, CallersSplit DEF IInv, ClientInv, ClientShape
      <3> QED BY <3>1, NetscalerAssumption DEF Responses, IInv, TypeOK
    <2>4. late' \/ bindings <= call[j].data.ver
      BY <2>2 DEF IInv, FreshInv
    <2> QED BY <2>2, <2>3, <2>4
  <1> QED BY <1>1, InductiveInvariant, PTL DEF Spec, BindingsNewer
===============================================================================
