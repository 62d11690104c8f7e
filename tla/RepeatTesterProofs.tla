-------------------------- MODULE RepeatTesterProofs --------------------------
(***************************************************************************)
(* Proofs about RepeatTester, for every number of series and values, every *)
(* heartbeat, maximum age and cleanup period.                              *)
(***************************************************************************)
EXTENDS RepeatTester, SeqLemmas

USE DEF Countdown

LEMMA TimeNat == \A p \in Point : p.time \in Nat
  BY RepeatAssumption DEF Point, Times

LEMMA PointTypes ==
    /\ \A st \in Status : st.time \in Nat /\ st.timePrev \in Nat /\ st # None
    /\ \A st \in Status : Held(st) \in Point /\ Held(st).time = st.timePrev /\ Held(st).value = st.value
    /\ \A p \in Point, n \in 0..2 :
          /\ Fresh(p, n) \in Status /\ Fresh(p, n).time = p.time
          /\ Fresh(p, n).value = p.value /\ Fresh(p, n).n = n
  BY RepeatAssumption, NoneAssumption DEF Point, Status, Times, Held, Fresh

\* A segment survives as the plot grows on its right.
LEMMA SegmentKept ==
    ASSUME NEW K \in SUBSET Point, NEW M \in SUBSET Point, NEW p \in Point,
           \A k \in K, m \in M : k.time < m.time,
           OnSegment(p, K)
    PROVE  OnSegment(p, K \cup M)
  <1>1. PICK a \in K, b \in K :
            /\ a.time < p.time /\ p.time < b.time
            /\ a.value = p.value /\ b.value = p.value
            /\ \A k \in K : k.time <= a.time \/ b.time <= k.time
    BY DEF OnSegment
  <1>2. \A k \in K \cup M : k.time <= a.time \/ b.time <= k.time
    <2>1. \A m \in M : b.time <= m.time
      BY TimeNat
    <2> QED BY <1>1, <2>1
  <1> QED BY <1>1, <1>2 DEF OnSegment

\* A point is sent that completes the plot of all points before it.
LEMMA SeriesSent ==
    ASSUME NEW in \in SUBSET Point, NEW S, NEW L, NEW st, NEW p \in Point, NEW n \in 1..2,
           SeriesInv(st, in, S, L),
           \A q \in in : q.time < p.time,
           \A q \in in \ S : Plotted(q, S \cup {p}, L)
    PROVE  SeriesInv(Fresh(p, n), in \cup {p}, S \cup {p}, L)
  <1>0. S \subseteq in /\ L \subseteq in /\ (\A q \in in : q.time \in Nat) /\ p.time \in Nat
    BY TimeNat DEF SeriesInv
  <1> DEFINE f == Fresh(p, n)
  <1>3. f # None /\ f.time = p.time /\ f.value = p.value /\ f.n # 0
    <2>1. n \in 0..2 /\ n # 0
      OBVIOUS
    <2>2. f \in Status /\ f.time = p.time /\ f.value = p.value /\ f.n = n
      BY <2>1, PointTypes
    <2> QED BY <2>1, <2>2, NoneAssumption
  <1> HIDE DEF f
  <1>4. Describes(f, in \cup {p}, S \cup {p})
    BY <1>0, <1>3 DEF Describes
  <1>5. Ends(p, f, in \cup {p}, S \cup {p}, L)
    <2>1. p.value = f.value /\ f.time <= p.time /\ \A q \in in \cup {p} : q.time <= p.time
      BY <1>0, <1>3
    <2>2. \A k \in (S \cup {p}) \cup L : k.time <= p.time
      BY <1>0, <2>1
    <2> QED BY <2>1, <2>2 DEF Ends
  <1>6. \A q \in (in \cup {p}) \ (S \cup {p}) : NearSent(q, S \cup {p})
    <2>1. \A q \in in \ S : NearSent(q, S)
      BY DEF SeriesInv
    <2> QED BY <2>1 DEF NearSent
  <1>7. \A q, r \in in \cup {p} : q.time = r.time => q = r
    BY <1>0 DEF SeriesInv
  <1> QED BY <1>0, <1>3, <1>4, <1>5, <1>6, <1>7 DEF SeriesInv, f

\* A point is sent while none is held.
LEMMA SeriesNew ==
    ASSUME NEW in \in SUBSET Point, NEW S, NEW L, NEW p \in Point, NEW n \in 1..2,
           NEW st, SeriesInv(st, in, S, L), st = None \/ (st \in Status /\ st.n # 0),
           \A q \in in : q.time < p.time
    PROVE  SeriesInv(Fresh(p, n), in \cup {p}, S \cup {p}, L)
  <1>0. S \subseteq in /\ L \subseteq in
    BY DEF SeriesInv
  <1>1. \A q \in in \ S : Plotted(q, S, L)
    <2>1. CASE st = None
      BY <2>1 DEF SeriesInv
    <2>2. CASE st \in Status /\ st.n # 0
      BY <2>2, PointTypes DEF SeriesInv, Ends
    <2> QED BY <2>1, <2>2
  <1>2. \A q \in in \ S : Plotted(q, S \cup {p}, L)
    <2>1. ASSUME NEW q \in in \ S, OnSegment(q, S \cup L) PROVE OnSegment(q, (S \cup {p}) \cup L)
      <3>1. OnSegment(q, (S \cup L) \cup {p})
        BY <1>0, <2>1, SegmentKept
      <3>2. (S \cup L) \cup {p} = (S \cup {p}) \cup L
        OBVIOUS
      <3> QED BY <3>1, <3>2
    <2> QED BY <1>1, <2>1 DEF Plotted
  <1> QED BY <1>2, SeriesSent

\* What is held when p arrives, and how the run that is held ends: with a point
\* e of its value, either the held point itself or the next one.
LEMMA RunEnds ==
    ASSUME NEW in \in SUBSET Point, NEW S, NEW L, NEW st \in Status, st.n = 0,
           SeriesInv(st, in, S, L), NEW e \in Point, e.value = st.value, st.timePrev <= e.time
    PROVE  \A q \in (in \ S) \ {e} : Plotted(q, S \cup {e}, L) \/ e.time <= q.time
  <1>0. S \subseteq in /\ L \subseteq in /\ st # None /\ st.time \in Nat /\ st.timePrev \in Nat
    BY PointTypes DEF SeriesInv
  <1>1. PICK a \in S : Ends(a, st, in, S, L)
    BY <1>0 DEF SeriesInv
  <1>2. /\ \A q \in in : st.time < q.time => q.value = st.value
        /\ \A k \in S : k.time < st.timePrev
    BY <1>0 DEF SeriesInv, Describes
  <1>3. /\ a.value = st.value /\ st.time <= a.time /\ a \in Point
        /\ \A k \in S \cup L : k.time <= a.time
        /\ \A q \in in \ S : Plotted(q, S, L) \/ a.time < q.time
    BY <1>0, <1>1 DEF Ends
  <1>4. a.time < e.time
    BY <1>0, <1>2, <1>3, TimeNat
  <1>5. \A k \in S \cup L : k \in Point /\ k.time < e.time
    BY <1>0, <1>3, <1>4, TimeNat
  <1>6. ASSUME NEW q \in (in \ S) \ {e}, q.time < e.time PROVE Plotted(q, S \cup {e}, L)
    <2>1. CASE q \in L
      BY <2>1 DEF Plotted
    <2>2. CASE OnSegment(q, S \cup L)
      <3>1. OnSegment(q, (S \cup L) \cup {e})
        BY <1>5, <2>2, SegmentKept
      <3>2. (S \cup L) \cup {e} = (S \cup {e}) \cup L
        OBVIOUS
      <3> QED BY <3>1, <3>2 DEF Plotted
    <2>3. CASE a.time < q.time
      <3>1. q.value = st.value
        BY <1>0, <1>2, <1>3, <2>3, TimeNat
      <3>2. \A k \in (S \cup {e}) \cup L : k.time <= a.time \/ e.time <= k.time
        <4>1. e.time <= e.time
          BY TimeNat
        <4> QED BY <1>3, <4>1
      <3>3. OnSegment(q, (S \cup {e}) \cup L)
        BY <1>3, <1>6, <2>3, <3>1, <3>2 DEF OnSegment
      <3> QED BY <3>3 DEF Plotted
    <2> QED BY <1>3, <2>1, <2>2, <2>3 DEF Plotted
  <1>7. \A q \in in : q.time < e.time \/ e.time <= q.time
    BY TimeNat
  <1> QED BY <1>6, <1>7

\* A heartbeat ends the segment that the held points are on.
LEMMA SeriesHeartbeat ==
    ASSUME NEW in \in SUBSET Point, NEW S, NEW L, NEW p \in Point, NEW st \in Status, st.n = 0,
           SeriesInv(st, in, S, L), p.value = st.value, \A q \in in : q.time < p.time
    PROVE  SeriesInv(Fresh(p, 1), in \cup {p}, S \cup {p}, L)
  <1>0. /\ (\A q \in in : q.time \in Nat) /\ p.time \in Nat
        /\ Held(st) \in in /\ Held(st).time = st.timePrev /\ st.timePrev \in Nat
    BY PointTypes, TimeNat DEF SeriesInv, Describes
  <1>1. st.timePrev <= p.time
    BY <1>0
  <1>2. \A q \in in \ S : Plotted(q, S \cup {p}, L)
    <2>1. \A q \in (in \ S) \ {p} : Plotted(q, S \cup {p}, L) \/ p.time <= q.time
      BY <1>1, RunEnds
    <2>2. \A q \in in : ~(p.time <= q.time) /\ q # p
      BY <1>0
    <2> QED BY <2>1, <2>2
  <1>3. 1 \in 1..2
    OBVIOUS
  <1> QED BY <1>2, <1>3, SeriesSent, Zenon

\* The held point, sent or lost, is on the plot of the points before it.
LEMMA HeldPlotted ==
    ASSUME NEW in \in SUBSET Point, NEW S, NEW L, NEW st \in Status, st.n = 0, SeriesInv(st, in, S, L)
    PROVE  /\ Held(st) \in in
           /\ \A k \in S : k.time < Held(st).time
           /\ \A q \in (in \ S) \ {Held(st)} : Plotted(q, S \cup {Held(st)}, L)
  <1> DEFINE h == Held(st)
  <1>0. /\ st # None /\ h \in Point /\ h.time = st.timePrev /\ h.value = st.value /\ st.timePrev \in Nat
    BY PointTypes
  <1>1. /\ h \in in /\ (\A q \in in : q.time <= st.timePrev) /\ (\A k \in S : k.time < st.timePrev)
        /\ \A q, r \in in : q.time = r.time => q = r
    BY <1>0 DEF SeriesInv, Describes
  <1> HIDE DEF h
  <1>2. \A q \in (in \ S) \ {h} : Plotted(q, S \cup {h}, L) \/ h.time <= q.time
    BY <1>0, RunEnds
  <1>3. \A q \in (in \ S) \ {h} : ~(h.time <= q.time)
    BY <1>0, <1>1, TimeNat
  <1> QED BY <1>0, <1>1, <1>2, <1>3 DEF h

\* Test sends the held point.
LEMMA SeriesFlush ==
    ASSUME NEW in \in SUBSET Point, NEW S, NEW L, NEW st \in Status, st.n = 0, SeriesInv(st, in, S, L)
    PROVE  SeriesInv(None, in, S \cup {Held(st)}, L)
  <1>1. \A q \in in \ (S \cup {Held(st)}) : Plotted(q, S \cup {Held(st)}, L)
    BY HeldPlotted
  <1>2. \A q \in in \ (S \cup {Held(st)}) : NearSent(q, S \cup {Held(st)})
    <2>1. ASSUME NEW q \in in \ S PROVE NearSent(q, S)
      BY DEF SeriesInv
    <2>2. ASSUME NEW q, NearSent(q, S) PROVE NearSent(q, S \cup {Held(st)})
      BY <2>2, Zenon DEF NearSent
    <2> QED BY <2>1, <2>2
  <1>3. Held(st) \in in
    BY HeldPlotted
  <1>4. S \subseteq in /\ L \subseteq in /\ \A p, q \in in : p.time = q.time => p = q
    BY DEF SeriesInv
  <1> HIDE DEF Held
  <1> QED BY <1>1, <1>2, <1>3, <1>4 DEF SeriesInv

\* cleanup deletes the entry of a series.
LEMMA SeriesExpire ==
    ASSUME NEW in \in SUBSET Point, NEW S, NEW L, NEW st \in Status, SeriesInv(st, in, S, L)
    PROVE  /\ st.n = 0 => SeriesInv(None, in, S, L \cup {Held(st)})
           /\ st.n # 0 => SeriesInv(None, in, S, L)
  <1>1. ASSUME st.n = 0 PROVE SeriesInv(None, in, S, L \cup {Held(st)})
    <2>1. (S \cup {Held(st)}) \cup L = S \cup (L \cup {Held(st)})
      OBVIOUS
    <2>2. ASSUME NEW q \in in \ S PROVE Plotted(q, S, L \cup {Held(st)})
      <3>1. CASE q = Held(st)
        BY <3>1 DEF Plotted
      <3>2. CASE q # Held(st)
        <4>1. Plotted(q, S \cup {Held(st)}, L)
          BY <1>1, <3>2, HeldPlotted
        <4> QED BY <2>1, <4>1 DEF Plotted
      <3> QED BY <3>1, <3>2
    <2>3. Held(st) \in in
      BY <1>1, HeldPlotted
    <2>4. /\ S \subseteq in /\ L \subseteq in
          /\ \A p, q \in in : p.time = q.time => p = q
          /\ \A p \in in \ S : NearSent(p, S)
      BY DEF SeriesInv
    <2> HIDE DEF Held
    <2> QED BY <2>2, <2>3, <2>4 DEF SeriesInv
  <1>2. ASSUME st.n # 0 PROVE SeriesInv(None, in, S, L)
    <2>1. st # None
      BY PointTypes
    <2> QED BY <1>2, <2>1 DEF SeriesInv, Ends
  <1> QED BY <1>1, <1>2

\* A repeat within the heartbeat, sent if it is the first of its run.
LEMMA SeriesRepeat ==
    ASSUME NEW in \in SUBSET Point, NEW S, NEW L, NEW p \in Point, NEW st \in Status,
           SeriesInv(st, in, S, L), p.value = st.value, st.time < p.time,
           p.time < st.time + Heartbeat, \A q \in in : q.time < p.time,
           NEW new \in Status, new.time = st.time, new.value = st.value, new.timePrev = p.time,
           new.n = IF st.n > 0 THEN st.n - 1 ELSE 0
    PROVE  SeriesInv(new, in \cup {p}, IF st.n = 2 THEN S \cup {p} ELSE S, L)
  <1> DEFINE T == IF st.n = 2 THEN S \cup {p} ELSE S
  <1>0. /\ S \subseteq in /\ L \subseteq in /\ st # None /\ new # None
        /\ (\A q \in in : q.time \in Nat) /\ p.time \in Nat /\ st.time \in Nat
        /\ st.n \in 0..2 /\ (st.n = 2 => T = S \cup {p}) /\ (st.n # 2 => T = S)
    BY TimeNat, PointTypes DEF SeriesInv, Status
  <1>1. PICK a \in S : Ends(a, st, in, S, L)
    BY <1>0 DEF SeriesInv
  <1>2. /\ \E q \in S : q.time = st.time /\ q.value = st.value
        /\ \A q \in in : st.time < q.time => q.value = st.value /\ q.time < st.time + Heartbeat
    BY <1>0 DEF SeriesInv, Describes
  <1>3. /\ Held(new) = p /\ Held(new) \in in \cup {p}
    BY DEF Held, Point
  <1> HIDE DEF T
  <1>4. S \subseteq T /\ T \subseteq in \cup {p} /\ L \subseteq in \cup {p}
    BY <1>0
  <1>5. Describes(new, in \cup {p}, T)
    <2>1. \E q \in T : q.time = new.time /\ q.value = new.value
      BY <1>2, <1>4
    <2>2. \A q \in in \cup {p} : new.time < q.time => q.value = new.value /\ q.time < new.time + Heartbeat
      BY <1>2
    <2>3. \A q \in in \cup {p} : q.time <= new.timePrev
      BY <1>0
    <2>4. ASSUME new.n = 0 PROVE \A k \in T : k.time < new.timePrev
      <3>1. T = S
        BY <1>0, <2>4
      <3> QED BY <1>0, <3>1
    <2> QED BY <1>3, <2>1, <2>2, <2>3, <2>4 DEF Describes
  <1>6. \A q \in (in \cup {p}) \ T : NearSent(q, T)
    <2>1. \A q \in in \ S : NearSent(q, T)
      BY <1>4 DEF SeriesInv, NearSent
    <2>2. NearSent(p, T)
      BY <1>2, <1>4 DEF NearSent
    <2> QED BY <1>4, <2>1, <2>2
  <1>7. \A q, r \in in \cup {p} : q.time = r.time => q = r
    BY <1>0 DEF SeriesInv
  <1>8. \E b \in T : Ends(b, new, in \cup {p}, T, L)
    <2>1. CASE st.n = 2
      <3>1. \A q \in in \ S : Plotted(q, S, L)
        BY <1>1, <2>1 DEF Ends
      <3>2. \A q \in in \ S : Plotted(q, T, L)
        <4>1. ASSUME NEW q \in in \ S, OnSegment(q, S \cup L) PROVE OnSegment(q, T \cup L)
          <5>1. OnSegment(q, (S \cup L) \cup {p})
            BY <1>0, <4>1, SegmentKept
          <5>2. (S \cup L) \cup {p} = T \cup L
            BY <1>0, <2>1
          <5> QED BY <5>1, <5>2
        <4> QED BY <3>1, <4>1 DEF Plotted
      <3>3. p.value = new.value /\ new.time <= p.time /\ \A q \in in \cup {p} : q.time <= p.time
        BY <1>0
      <3>4. \A k \in T \cup L : k.time <= p.time
        BY <1>4, <3>3
      <3>5. p \in T /\ \A q \in (in \cup {p}) \ T : q \in in \ S
        BY <1>0, <2>1
      <3>6. Ends(p, new, in \cup {p}, T, L)
        BY <3>2, <3>3, <3>4, <3>5 DEF Ends
      <3> QED BY <3>5, <3>6
    <2>2. CASE st.n # 2
      <3>1. new.n = 0 /\ T = S
        BY <1>0, <2>2
      <3>2. a.value = new.value /\ new.time <= a.time /\ \A k \in T \cup L : k.time <= a.time
        BY <1>1, <3>1 DEF Ends
      <3>3. \A q \in in \ S : Plotted(q, S, L) \/ a.time < q.time
        BY <1>1 DEF Ends
      <3>4. a.time < p.time
        BY <1>0
      <3>5. Ends(a, new, in \cup {p}, T, L)
        BY <3>1, <3>2, <3>3, <3>4 DEF Ends
      <3> QED BY <3>1, <3>5
    <2> QED BY <2>1, <2>2
  <1> QED BY <1>0, <1>4, <1>5, <1>6, <1>7, <1>8 DEF SeriesInv, T

-------------------------------------------------------------------------------
\* cleanup keeps the invariant of every series, and takes no held point early.
LEMMA CleanupStep ==
    ASSUME IInv, NEW s \in Series, NEW new, Cleanup(s, new)
    PROVE  /\ \A r \in Series : /\ Kept(r) \in Status \cup {None}
                                /\ SeriesInv(Kept(r), input[r], Range(sent[r]), LostPoints(r)')
                                /\ r # s => status'[r] = Kept(r)
           /\ countdown' \in 1..CleanupEveryN
           /\ lost' \in [Series -> SUBSET [point : Point, at : Times]]
           /\ status'[s] = new /\ (new \in Status => status' \in [Series -> Status \cup {None}])
           /\ LostOnlyIfSilent'
  <1>0. TypeOK /\ LostOnlyIfSilent
    BY DEF IInv
  <1>1. countdown' \in 1..CleanupEveryN
    BY <1>0, RepeatAssumption DEF TypeOK, Cleanup
  <1>2. \A r \in Series : Kept(r) \in Status \cup {None}
    BY <1>0 DEF TypeOK, Kept
  <1>3. /\ \A r \in Series : r # s => status'[r] = Kept(r)
        /\ status'[s] = new /\ (new \in Status => status' \in [Series -> Status \cup {None}])
    BY <1>2 DEF Cleanup
  <1>4. ASSUME NEW r \in Series, Expired(r)
        PROVE  /\ status[r] \in Status /\ Kept(r) = None
               /\ Held(status[r]) \in Point
    BY <1>0, <1>4, PointTypes DEF TypeOK, Expired, Kept
  <1>5. ASSUME NEW r \in Series
        PROVE  /\ Expired(r) /\ status[r].n = 0
                    => lost'[r] = lost[r] \cup {[point |-> Held(status[r]), at |-> now]}
               /\ ~(Expired(r) /\ status[r].n = 0) => lost'[r] = lost[r]
    BY <1>5 DEF Cleanup
  <1>6. lost' \in [Series -> SUBSET [point : Point, at : Times]]
    <2>1. lost' = [r \in Series |-> lost'[r]]
      BY DEF Cleanup
    <2>2. ASSUME NEW r \in Series PROVE lost'[r] \in SUBSET [point : Point, at : Times]
      <3>1. lost[r] \in SUBSET [point : Point, at : Times] /\ now \in Times
        BY <1>0 DEF TypeOK
      <3>2. CASE Expired(r) /\ status[r].n = 0
        <4>1. [point |-> Held(status[r]), at |-> now] \in [point : Point, at : Times]
          BY <1>4, <3>1, <3>2
        <4> QED BY <1>5, <3>1, <3>2, <4>1
      <3> QED BY <1>5, <3>1, <3>2
    <2> QED BY <2>1, <2>2
  <1>7. ASSUME NEW r \in Series
        PROVE  SeriesInv(Kept(r), input[r], Range(sent[r]), LostPoints(r)')
    <2>0. /\ SeriesInv(status[r], input[r], Range(sent[r]), LostPoints(r))
          /\ input[r] \in SUBSET Point
      BY <1>0 DEF IInv, TypeOK
    <2>1. CASE Expired(r) /\ status[r].n = 0
      <3>1. LostPoints(r)' = LostPoints(r) \cup {Held(status[r])}
        <4> DEFINE m == [point |-> Held(status[r]), at |-> now]
        <4>1. m.point = Held(status[r])
          OBVIOUS
        <4>2. lost'[r] = lost[r] \cup {m}
          BY <1>5, <2>1
        <4> HIDE DEF m
        <4> QED BY <4>1, <4>2 DEF LostPoints
      <3>2. SeriesInv(None, input[r], Range(sent[r]), LostPoints(r) \cup {Held(status[r])})
        BY <1>4, <2>0, <2>1, SeriesExpire
      <3> QED BY <1>4, <2>1, <3>1, <3>2
    <2>2. CASE Expired(r) /\ status[r].n # 0
      <3>1. LostPoints(r)' = LostPoints(r)
        BY <1>5, <2>2 DEF LostPoints
      <3>2. SeriesInv(None, input[r], Range(sent[r]), LostPoints(r))
        BY <1>4, <2>0, <2>2, SeriesExpire
      <3> QED BY <1>4, <2>2, <3>1, <3>2
    <2>3. CASE ~Expired(r)
      <3>1. LostPoints(r)' = LostPoints(r) /\ Kept(r) = status[r]
        BY <1>5, <2>3 DEF LostPoints, Kept
      <3> QED BY <2>0, <3>1
    <2> QED BY <2>1, <2>2, <2>3
  <1>8. LostOnlyIfSilent'
    <2>1. ASSUME NEW r \in Series, NEW l \in lost'[r] PROVE l.point.time + MaxAge < l.at + Heartbeat
      <3>1. CASE l \in lost[r]
        BY <1>0, <3>1 DEF LostOnlyIfSilent
      <3>2. CASE l \notin lost[r]
        <4>1. Expired(r) /\ status[r].n = 0 /\ l = [point |-> Held(status[r]), at |-> now]
          BY <1>5, <2>1, <3>2
        <4>2. status[r] \in Status /\ status[r] # None
          BY <1>4, <4>1, PointTypes
        <4>3. SeriesInv(status[r], input[r], Range(sent[r]), LostPoints(r)) /\ input[r] \in SUBSET Point
          BY <1>0 DEF IInv, TypeOK
        <4>4. /\ Held(status[r]) \in input[r] /\ status[r].time < status[r].timePrev
              /\ \A p \in input[r] : status[r].time < p.time => p.time < status[r].time + Heartbeat
          BY <4>1, <4>2, <4>3 DEF SeriesInv, Describes
        <4>5. Held(status[r]).time = status[r].timePrev
          BY <4>2, PointTypes
        <4>6. status[r].timePrev < status[r].time + Heartbeat
          BY <4>4, <4>5
        <4>7. status[r].time + MaxAge <= now
          BY <4>1 DEF Expired
        <4>8. l.point.time = status[r].timePrev /\ l.at = now
          BY <4>1, <4>5
        <4>9. status[r].time \in Nat /\ status[r].timePrev \in Nat /\ now \in Nat
          BY <1>0, <4>2, PointTypes DEF TypeOK, Times
        <4> QED BY <4>6, <4>7, <4>8, <4>9, RepeatAssumption
      <3> QED BY <3>1, <3>2
    <2> QED BY <2>1 DEF LostOnlyIfSilent
  <1> QED BY <1>1, <1>2, <1>3, <1>6, <1>7, <1>8

\* Appending later points keeps a sequence increasing.
LEMMA IncreasingAppend ==
    ASSUME NEW q \in Seq(Point), Increasing(q), NEW p \in Point, \A e \in Range(q) : e.time < p.time
    PROVE  Increasing(Append(q, p))
  <1>1. /\ DOMAIN Append(q, p) = 1..Len(q) + 1 /\ Len(q) \in Nat /\ DOMAIN q = 1..Len(q)
        /\ \A i \in 1..Len(q) : Append(q, p)[i] = q[i] /\ q[i] \in Range(q)
        /\ Append(q, p)[Len(q) + 1] = p
    BY AppendProperties, LenProperties, RangeEquality
  <1> QED BY <1>1 DEF Increasing

\* What the call adds to its own series and leaves to the others.
LEMMA CallStep ==
    ASSUME TypeOK, NEW s \in Series, NEW p \in Point, Call(s, p)
    PROVE  /\ input' \in [Series -> SUBSET Point] /\ now' = now /\ now' \in Times
           /\ input'[s] = input[s] \cup {p}
           /\ \A r \in Series : r # s => input'[r] = input[r]
           /\ \A q \in input[s] : q.time < p.time
  BY DEF TypeOK, Call

\* Sending the point keeps the invariant: the common part of the four cases of
\* Test, given the series' own invariant and the points it sends.
LEMMA TestStep ==
    ASSUME IInv, NEW s \in Series, NEW p \in Point, Call(s, p),
           NEW new \in Status, Cleanup(s, new),
           sent' \in [Series -> Seq(Point)],
           \A r \in Series : r # s => sent'[r] = sent[r],
           SeriesInv(new, input[s] \cup {p}, Range(sent'[s]), LostPoints(s)'),
           Increasing(sent'[s])
    PROVE  IInv'
  <1>0. TypeOK
    BY DEF IInv
  <1>1. /\ input' \in [Series -> SUBSET Point] /\ now' \in Times
        /\ input'[s] = input[s] \cup {p}
        /\ \A r \in Series : r # s => input'[r] = input[r]
    BY <1>0, CallStep
  <1>2. /\ \A r \in Series : /\ SeriesInv(Kept(r), input[r], Range(sent[r]), LostPoints(r)')
                             /\ r # s => status'[r] = Kept(r)
        /\ countdown' \in 1..CleanupEveryN
        /\ lost' \in [Series -> SUBSET [point : Point, at : Times]]
        /\ status'[s] = new /\ status' \in [Series -> Status \cup {None}]
        /\ LostOnlyIfSilent'
    BY CleanupStep
  <1>3. TypeOK'
    BY <1>1, <1>2 DEF TypeOK
  <1>4. ASSUME NEW r \in Series
        PROVE  SeriesInv(status'[r], input'[r], Range(sent'[r]), LostPoints(r)')
    <2>1. CASE r = s
      BY <1>1, <1>2, <2>1
    <2>2. CASE r # s
      <3>1. status'[r] = Kept(r) /\ input'[r] = input[r] /\ sent'[r] = sent[r]
        BY <1>1, <1>2, <2>2
      <3> QED BY <1>2, <3>1
    <2> QED BY <2>1, <2>2
  <1>5. \A r \in Series : Increasing(sent'[r])
    BY DEF IInv
  <1> QED BY <1>2, <1>3, <1>4, <1>5 DEF IInv

\* One point is sent.
LEMMA SendOne ==
    ASSUME IInv, NEW s \in Series, NEW p \in Point, \A q \in input[s] : q.time < p.time,
           sent' = [sent EXCEPT ![s] = Append(@, p)]
    PROVE  /\ sent' \in [Series -> Seq(Point)]
           /\ \A r \in Series : r # s => sent'[r] = sent[r]
           /\ Range(sent'[s]) = Range(sent[s]) \cup {p}
           /\ Increasing(sent'[s])
  <1>1. sent \in [Series -> Seq(Point)] /\ sent[s] \in Seq(Point)
    BY DEF IInv, TypeOK
  <1>2. sent'[s] = Append(sent[s], p) /\ sent' \in [Series -> Seq(Point)]
    BY <1>1
  <1>3. Range(sent'[s]) = Range(sent[s]) \cup {p}
    BY <1>1, <1>2, RangeAppend
  <1>4. Range(sent[s]) \subseteq input[s] /\ Increasing(sent[s])
    BY DEF IInv, SeriesInv
  <1>5. Increasing(sent'[s])
    BY <1>1, <1>2, <1>4, IncreasingAppend
  <1> QED BY <1>1, <1>2, <1>3, <1>5

LEMMA NewStep == ASSUME IInv, NEW s \in Series, NEW p \in Point, TestNew(s, p) PROVE IInv'
  <1>0. TypeOK /\ Call(s, p) /\ Cleanup(s, Fresh(p, 2)) /\ Kept(s) = None /\ input[s] \in SUBSET Point
    BY DEF IInv, TypeOK, TestNew
  <1>1. \A q \in input[s] : q.time < p.time
    BY <1>0, CallStep
  <1>2. SeriesInv(None, input[s], Range(sent[s]), LostPoints(s)')
    BY <1>0, CleanupStep
  <1>3. /\ sent' \in [Series -> Seq(Point)] /\ \A r \in Series : r # s => sent'[r] = sent[r]
        /\ Range(sent'[s]) = Range(sent[s]) \cup {p} /\ Increasing(sent'[s])
    BY <1>1, SendOne DEF TestNew
  <1>4. 2 \in 1..2 /\ Fresh(p, 2) \in Status
    BY PointTypes
  <1>5. SeriesInv(Fresh(p, 2), input[s] \cup {p}, Range(sent[s]) \cup {p}, LostPoints(s)')
    BY <1>0, <1>1, <1>2, <1>4, SeriesNew
  <1> QED BY <1>0, <1>3, <1>4, <1>5, TestStep

LEMMA ChangeStep == ASSUME IInv, NEW s \in Series, NEW p \in Point, TestChange(s, p) PROVE IInv'
  <1> DEFINE k == Kept(s)
             S == Range(sent[s])
             L == LostPoints(s)'
             h == Held(k)
  <1>0. TypeOK /\ Call(s, p) /\ Cleanup(s, Fresh(p, 2)) /\ k # None /\ input[s] \in SUBSET Point
    BY DEF IInv, TypeOK, TestChange
  <1>1. \A q \in input[s] : q.time < p.time
    BY <1>0, CallStep
  <1>2. k \in Status /\ SeriesInv(k, input[s], S, L)
    BY <1>0, CleanupStep
  <1>3. 2 \in 1..2 /\ Fresh(p, 2) \in Status
    BY PointTypes
  <1>4. CASE k.n # 0
    <2>1. sent' = [sent EXCEPT ![s] = Append(@, p)]
      BY <1>4 DEF TestChange
    <2>2. /\ sent' \in [Series -> Seq(Point)] /\ \A r \in Series : r # s => sent'[r] = sent[r]
          /\ Range(sent'[s]) = S \cup {p} /\ Increasing(sent'[s])
      BY <1>1, <2>1, SendOne
    <2>3. SeriesInv(Fresh(p, 2), input[s] \cup {p}, S \cup {p}, L)
      BY <1>0, <1>1, <1>2, <1>3, <1>4, SeriesNew
    <2> QED BY <1>0, <1>3, <2>2, <2>3, TestStep
  <1>5. CASE k.n = 0
    <2>1. sent' = [sent EXCEPT ![s] = Append(Append(@, h), p)]
      BY <1>5 DEF TestChange
    <2>2. h \in input[s] /\ h \in Point /\ (\A e \in S : e.time < h.time) /\ h.time < p.time
      BY <1>0, <1>1, <1>2, <1>5, HeldPlotted
    <2>3. SeriesInv(None, input[s], S \cup {h}, L)
      BY <1>0, <1>2, <1>5, SeriesFlush
    <2>4. SeriesInv(Fresh(p, 2), input[s] \cup {p}, (S \cup {h}) \cup {p}, L)
      BY <1>0, <1>1, <1>3, <2>3, SeriesNew
    <2> HIDE DEF h
    <2>5. /\ sent \in [Series -> Seq(Point)] /\ sent[s] \in Seq(Point) /\ Append(sent[s], h) \in Seq(Point)
          /\ Increasing(sent[s]) /\ S \subseteq input[s]
      BY <1>0, <1>2, <2>2 DEF TypeOK, IInv, SeriesInv
    <2>6. /\ sent'[s] = Append(Append(sent[s], h), p) /\ sent' \in [Series -> Seq(Point)]
          /\ \A r \in Series : r # s => sent'[r] = sent[r]
      BY <2>1, <2>5
    <2>7. Range(Append(sent[s], h)) = S \cup {h} /\ Increasing(Append(sent[s], h))
      BY <2>2, <2>5, RangeAppend, IncreasingAppend
    <2>8. \A e \in S \cup {h} : e.time < p.time
      BY <1>1, <2>2, <2>5
    <2>9. Range(sent'[s]) = (S \cup {h}) \cup {p}
      <3>1. Range(Append(Append(sent[s], h), p)) = Range(Append(sent[s], h)) \cup {p}
        <4> DEFINE t == Append(sent[s], h)
        <4>1. t \in Seq(Point)
          BY <2>5
        <4> HIDE DEF t
        <4>2. Range(Append(t, p)) = Range(t) \cup {p}
          BY <4>1, RangeAppend
        <4> QED BY <4>2 DEF t
      <3> QED BY <2>6, <2>7, <3>1
    <2>10. Increasing(sent'[s])
      BY <2>5, <2>6, <2>7, <2>8, IncreasingAppend
    <2> QED BY <1>0, <1>3, <2>4, <2>6, <2>9, <2>10, TestStep
  <1> QED BY <1>4, <1>5

LEMMA HeartbeatStep == ASSUME IInv, NEW s \in Series, NEW p \in Point, TestHeartbeat(s, p) PROVE IInv'
  <1> DEFINE k == Kept(s)
             S == Range(sent[s])
             L == LostPoints(s)'
  <1>0. /\ TypeOK /\ Call(s, p) /\ Cleanup(s, Fresh(p, 1)) /\ k # None /\ input[s] \in SUBSET Point
        /\ p.value = k.value
    BY DEF IInv, TypeOK, TestHeartbeat, IsRepeat
  <1>1. \A q \in input[s] : q.time < p.time
    BY <1>0, CallStep
  <1>2. k \in Status /\ SeriesInv(k, input[s], S, L)
    BY <1>0, CleanupStep
  <1>3. 1 \in 1..2 /\ Fresh(p, 1) \in Status
    BY PointTypes
  <1>4. /\ sent' \in [Series -> Seq(Point)] /\ \A r \in Series : r # s => sent'[r] = sent[r]
        /\ Range(sent'[s]) = S \cup {p} /\ Increasing(sent'[s])
    BY <1>1, SendOne DEF TestHeartbeat
  <1>5. SeriesInv(Fresh(p, 1), input[s] \cup {p}, S \cup {p}, L)
    <2>1. CASE k.n # 0
      BY <1>0, <1>1, <1>2, <1>3, <2>1, SeriesNew
    <2>2. CASE k.n = 0
      BY <1>0, <1>1, <1>2, <2>2, SeriesHeartbeat
    <2> QED BY <2>1, <2>2
  <1> QED BY <1>0, <1>3, <1>4, <1>5, TestStep

LEMMA RepeatStep == ASSUME IInv, NEW s \in Series, NEW p \in Point, TestRepeat(s, p) PROVE IInv'
  <1> DEFINE k == Kept(s)
             S == Range(sent[s])
             L == LostPoints(s)'
             new == [k EXCEPT !.timePrev = p.time, !.n = IF @ > 0 THEN @ - 1 ELSE 0]
  <1>0. /\ TypeOK /\ Call(s, p) /\ Cleanup(s, new) /\ k # None /\ input[s] \in SUBSET Point
        /\ p.value = k.value /\ k.time < p.time /\ ~(p.time >= k.time + Heartbeat)
    BY DEF IInv, TypeOK, TestRepeat, IsRepeat, NeedHeartbeat
  <1>1. \A q \in input[s] : q.time < p.time
    BY <1>0, CallStep
  <1>2. k \in Status /\ SeriesInv(k, input[s], S, L)
    BY <1>0, CleanupStep
  <1>3. /\ new \in Status /\ new.time = k.time /\ new.value = k.value /\ new.timePrev = p.time
        /\ new.n = IF k.n > 0 THEN k.n - 1 ELSE 0
    <2> HIDE DEF k
    <2>1. k \in [time : Times, value : Values, n : 0..2, timePrev : Times] /\ p.time \in Times
      BY <1>2 DEF Status, Point
    <2>2. (IF k.n > 0 THEN k.n - 1 ELSE 0) \in 0..2
      BY <2>1
    <2> QED BY <2>1, <2>2 DEF Status
  <1>4. p.time < k.time + Heartbeat
    <2> HIDE DEF k
    <2>1. p.time \in Nat /\ k.time \in Nat /\ Heartbeat \in Nat
      BY <1>2, TimeNat, PointTypes, RepeatAssumption
    <2> QED BY <1>0, <2>1
  <1> HIDE DEF new, k
  <1>5. SeriesInv(new, input[s] \cup {p}, IF k.n = 2 THEN S \cup {p} ELSE S, L)
    BY <1>0, <1>1, <1>2, <1>3, <1>4, SeriesRepeat
  <1>6. CASE k.n = 2
    <2>1. sent' = [sent EXCEPT ![s] = Append(@, p)]
      BY <1>6 DEF TestRepeat, k
    <2>2. /\ sent' \in [Series -> Seq(Point)] /\ \A r \in Series : r # s => sent'[r] = sent[r]
          /\ Range(sent'[s]) = S \cup {p} /\ Increasing(sent'[s])
      BY <1>1, <2>1, SendOne
    <2>3. SeriesInv(new, input[s] \cup {p}, S \cup {p}, L)
      BY <1>5, <1>6
    <2> QED BY <1>0, <1>3, <2>2, <2>3, TestStep
  <1>7. CASE k.n # 2
    <2>1. sent' = sent
      BY <1>7 DEF TestRepeat, k
    <2>2. /\ sent' \in [Series -> Seq(Point)] /\ \A r \in Series : r # s => sent'[r] = sent[r]
          /\ Range(sent'[s]) = S /\ Increasing(sent'[s])
      BY <1>0, <2>1 DEF IInv, TypeOK
    <2>3. SeriesInv(new, input[s] \cup {p}, S, L)
      BY <1>5, <1>7
    <2> QED BY <1>0, <1>3, <2>2, <2>3, TestStep
  <1> QED BY <1>6, <1>7

-------------------------------------------------------------------------------
LEMMA InitInv == Init => IInv
  <1> SUFFICES ASSUME Init PROVE IInv
    OBVIOUS
  <1>0. <<>> \in Seq(Point) /\ Range(<<>>) = {} /\ DOMAIN <<>> = {}
    BY EmptySeq, RangeShort
  <1>1. TypeOK
    BY <1>0, RepeatAssumption DEF Init, TypeOK, Times
  <1>2. SeriesInv(None, {}, {}, {})
    BY DEF SeriesInv
  <1>3. ASSUME NEW s \in Series
        PROVE  /\ SeriesInv(status[s], input[s], Range(sent[s]), LostPoints(s))
               /\ Increasing(sent[s])
    <2>1. status[s] = None /\ input[s] = {} /\ Range(sent[s]) = {} /\ LostPoints(s) = {} /\ DOMAIN sent[s] = {}
      BY <1>0 DEF Init, LostPoints
    <2> QED BY <1>2, <2>1 DEF Increasing
  <1>4. LostOnlyIfSilent
    BY DEF Init, LostOnlyIfSilent
  <1> QED BY <1>1, <1>3, <1>4 DEF IInv

\* IInv is an inductive invariant of the filter.
THEOREM InductiveInvariant == Spec => []IInv
  <1>1. Init => IInv
    BY InitInv
  <1>2. IInv /\ [Next]_vars => IInv'
    <2> SUFFICES ASSUME IInv, [Next]_vars PROVE IInv'
      OBVIOUS
    <2>1. CASE Tick
      <3>1. now' \in Times
        BY <2>1, RepeatAssumption DEF Tick, IInv, TypeOK, Times
      <3> QED BY <2>1, <3>1 DEF Tick, IInv, TypeOK, LostPoints, LostOnlyIfSilent
    <2>2. CASE UNCHANGED vars
      BY <2>2 DEF vars, IInv, TypeOK, LostPoints, LostOnlyIfSilent
    <2> QED BY <2>1, <2>2, NewStep, ChangeStep, HeartbeatStep, RepeatStep DEF Next, Test
  <1> QED BY <1>1, <1>2, PTL DEF Spec

\* However runs, heartbeats, changes and cleanups interleave over the series,
\* every withheld point lies on a segment of the plot, or was lost to cleanup.
THEOREM PlotFaithful == Spec => []LineFaithful
  <1>1. IInv => LineFaithful
    <2> SUFFICES ASSUME IInv, NEW s \in Series,
                        NEW p \in input[s] \ (Range(sent[s]) \cup Holding(s))
                 PROVE  p \in LostPoints(s) \/ OnSegment(p, Range(sent[s]) \cup LostPoints(s))
      BY DEF LineFaithful
    <2>1. SeriesInv(status[s], input[s], Range(sent[s]), LostPoints(s)) /\ input[s] \in SUBSET Point
          /\ status[s] \in Status \cup {None}
      BY DEF IInv, TypeOK
    <2>2. CASE status[s] = None
      BY <2>1, <2>2 DEF SeriesInv, Plotted
    <2>3. CASE status[s] # None
      <3>1. PICK a \in Range(sent[s]) : Ends(a, status[s], input[s], Range(sent[s]), LostPoints(s))
        BY <2>1, <2>3 DEF SeriesInv
      <3>2. /\ \A q \in input[s] : status[s].time < q.time => q.value = status[s].value
            /\ Range(sent[s]) \subseteq input[s]
        BY <2>1, <2>3 DEF SeriesInv, Describes
      <3>3. a.time \in Nat /\ p.time \in Nat /\ status[s].time \in Nat
        BY <2>1, <2>3, <3>2, TimeNat, PointTypes
      <3>4. ASSUME status[s].n = 0, a.time < p.time PROVE FALSE
        <4>1. status[s].time < p.time
          BY <3>1, <3>3, <3>4 DEF Ends
        <4> QED BY <2>3, <3>2, <3>4, <4>1 DEF Holding
      <3> QED BY <3>1, <3>4 DEF Ends, Plotted
    <2> QED BY <2>2, <2>3
  <1> QED BY <1>1, InductiveInvariant, PTL

\* Nothing is sent that was not put, and every series is sent in time order,
\* held points included.
THEOREM OutputOrdered == Spec => []SentInOrder
  <1>1. IInv => SentInOrder
    BY DEF IInv, SeriesInv, Increasing, SentInOrder
  <1> QED BY <1>1, InductiveInvariant, PTL

\* The filter keeps its types: what it holds of a series is a point of it or
\* nothing, and its cleanup counter stays within CleanupEveryN.
THEOREM TypeCorrect == Spec => []TypeOK
  <1>1. IInv => TypeOK
    BY DEF IInv
  <1> QED BY <1>1, InductiveInvariant, PTL

\* A point is withheld only within a heartbeat of one that was sent.
THEOREM HeartbeatHolds == Spec => []HeartbeatKept
  <1>1. IInv => HeartbeatKept
    BY DEF IInv, SeriesInv, NearSent, HeartbeatKept
  <1> QED BY <1>1, InductiveInvariant, PTL

\* cleanup loses a held point only after maxAge minus the heartbeat of silence.
THEOREM LossNeedsSilence == Spec => []LostOnlyIfSilent
  <1>1. IInv => LostOnlyIfSilent
    BY DEF IInv
  <1> QED BY <1>1, InductiveInvariant, PTL
===============================================================================
