----------------------------- MODULE RepeatTester -----------------------------
(***************************************************************************)
(* The DropRepeats filter of the TSDB client: internal/tsdb/repeat.go and  *)
(* its use in Client.Put.  A run of equal values in a series is reduced to *)
(* its first two points, a heartbeat, and its last point, which is held    *)
(* back until the value changes.  Every cleanupEveryN calls the tester     *)
(* forgets the series whose status is older than maxAge by the wall clock. *)
(*                                                                         *)
(* TSDBClient leaves the filter's choices open; this module makes them.    *)
(***************************************************************************)
EXTENDS Naturals, Sequences, SequencesExt

CONSTANTS
    Series,        \* the time series
    Values,        \* the values of points
    Heartbeat,     \* repeatHeartbeat
    MaxAge,        \* repeatMaxAge
    CleanupEveryN, \* repeatCleanupEveryN
    MaxTime,       \* bound on the wall clock
    None           \* no status

ASSUME RepeatAssumption ==
    /\ Heartbeat \in Nat /\ MaxAge \in Nat /\ Heartbeat <= MaxAge
    /\ CleanupEveryN \in Nat \ {0}
    /\ MaxTime \in Nat

VARIABLES
    now,       \* the wall clock
    countdown, \* cleanupCountdown
    status,    \* bySeries
    input,     \* per series, the points given to Put
    sent,      \* per series, the points passed to send, in order
    lost       \* per series, held points that cleanup deleted, and when

vars == <<now, countdown, status, input, sent, lost>>

Times  == 0..MaxTime
Point  == [time : Times, value : Values]
Status == [time : Times, value : Values, n : 0..2, timePrev : Times]

ASSUME NoneAssumption == None \notin Status

\* The types of the variables.
TypeOK ==
    /\ now \in Times
    /\ countdown \in 1..CleanupEveryN
    /\ status \in [Series -> Status \cup {None}]
    /\ input \in [Series -> SUBSET Point]
    /\ sent \in [Series -> Seq(Point)]
    /\ lost \in [Series -> SUBSET [point : Point, at : Times]]

Init ==
    /\ now = 0
    /\ countdown = CleanupEveryN
    /\ status = [s \in Series |-> None]
    /\ input = [s \in Series |-> {}]
    /\ sent = [s \in Series |-> <<>>]
    /\ lost = [s \in Series |-> {}]

-------------------------------------------------------------------------------
\* Mutant of Held: the start of the run instead of its end.
HeldStart(st) == [time |-> st.time, value |-> st.value]

\* The point a status holds back: the last of its run of repeats.
Held(st) == [time |-> st.timePrev, value |-> st.value]

\* Mutant of Expired: the wrong age.
ExpiredEarly(s) ==
    /\ countdown = 1
    /\ status[s] # None
    /\ status[s].time + Heartbeat <= now

\* cleanup deletes the entry of s in this call.
Expired(s) ==
    /\ countdown = 1
    /\ status[s] # None
    /\ status[s].time + MaxAge <= now

\* bySeries[s] after cleanup.
Kept(s) == IF Expired(s) THEN None ELSE status[s]

\* Mutant of Countdown: never restarted.
CountdownOnce == countdown - 1

\* cleanupCountdown after this call.
Countdown == IF countdown = 1 THEN CleanupEveryN ELSE countdown - 1

\* cleanup, and the status that Test leaves for s.
Cleanup(s, new) ==
    /\ countdown' = Countdown
    /\ status' = [r \in Series |-> IF r = s THEN new ELSE Kept(r)]
    /\ lost' = [r \in Series |->
                   IF Expired(r) /\ status[r].n = 0
                   THEN lost[r] \cup {[point |-> Held(status[r]), at |-> now]}
                   ELSE lost[r]]

\* Put is called with the points of a series in time order, none of the future.
Call(s, p) ==
    /\ p.time <= now
    /\ \A q \in input[s] : q.time < p.time
    /\ input' = [input EXCEPT ![s] = @ \cup {p}]
    /\ UNCHANGED now

IsRepeat(s, p) == p.time > Kept(s).time /\ p.value = Kept(s).value

\* Mutant of NeedHeartbeat: off by one.
NeedHeartbeatLate(s, p) == p.time > Kept(s).time + Heartbeat

NeedHeartbeat(s, p) == p.time >= Kept(s).time + Heartbeat

\* Mutant of Fresh: off by one.
FreshLess(p, n) == [time |-> p.time, value |-> p.value, n |-> n - 1, timePrev |-> 0]

\* The status of a series whose point p was sent.  n counts down with the
\* repeats: 2 means the next one is sent, 1 that it is held, 0 that one is held.
Fresh(p, n) == [time |-> p.time, value |-> p.value, n |-> n, timePrev |-> 0]

\* The series is not known, or not any more.
TestNew(s, p) ==
    /\ Call(s, p)
    /\ Kept(s) = None
    /\ Cleanup(s, Fresh(p, 2))
    /\ sent' = [sent EXCEPT ![s] = Append(@, p)]

\* Not a repeat: the point that was held goes first.
TestChange(s, p) ==
    /\ Call(s, p)
    /\ Kept(s) # None
    /\ ~IsRepeat(s, p)
    /\ Cleanup(s, Fresh(p, 2))
    /\ sent' = [sent EXCEPT ![s] =
                   IF Kept(s).n = 0 THEN Append(Append(@, Held(Kept(s))), p) ELSE Append(@, p)]

\* A repeat that has to be sent as a sign of life.
TestHeartbeat(s, p) ==
    /\ Call(s, p)
    /\ Kept(s) # None
    /\ IsRepeat(s, p) /\ NeedHeartbeat(s, p)
    /\ Cleanup(s, Fresh(p, 1))
    /\ sent' = [sent EXCEPT ![s] = Append(@, p)]

\* Any other repeat: only the first of a run is sent.
TestRepeat(s, p) ==
    /\ Call(s, p)
    /\ Kept(s) # None
    /\ IsRepeat(s, p) /\ ~NeedHeartbeat(s, p)
    /\ Cleanup(s, [Kept(s) EXCEPT !.timePrev = p.time,
                                  !.n = IF @ > 0 THEN @ - 1 ELSE 0])
    /\ sent' = IF Kept(s).n = 2 THEN [sent EXCEPT ![s] = Append(@, p)] ELSE sent

\* The wall clock advances.
Tick ==
    /\ now < MaxTime
    /\ now' = now + 1
    /\ UNCHANGED <<countdown, status, input, sent, lost>>

Test(s, p) == TestNew(s, p) \/ TestChange(s, p) \/ TestHeartbeat(s, p) \/ TestRepeat(s, p)

Next == Tick \/ \E s \in Series, p \in Point : Test(s, p)

Spec == Init /\ [][Next]_vars

-------------------------------------------------------------------------------
(* Properties.                                                               *)

\* p lies inside a line segment of a plot through the points K.
OnSegment(p, K) ==
    \E a, b \in K :
        /\ a.time < p.time /\ p.time < b.time
        /\ a.value = p.value /\ b.value = p.value
        /\ \A k \in K : k.time <= a.time \/ b.time <= k.time

\* Points held back now, the last of which can still be sent.
Holding(s) ==
    {p \in input[s] : /\ status[s] # None /\ status[s].n = 0
                      /\ p.value = status[s].value
                      /\ status[s].time < p.time}

LostPoints(s) == {l.point : l \in lost[s]}

\* Every point that Put withheld is contained in a line segment between points
\* that were sent or that cleanup took from the tester while it held them: no
\* other path of Test damages the plot.
LineFaithful ==
    \A s \in Series : \A p \in input[s] \ (Range(sent[s]) \cup Holding(s)) :
        p \in LostPoints(s) \/ OnSegment(p, Range(sent[s]) \cup LostPoints(s))

\* What is sent is what was put, in time order, held points included.
SentInOrder ==
    \A s \in Series :
        /\ Range(sent[s]) \subseteq input[s]
        /\ \A i, j \in DOMAIN sent[s] : i < j => sent[s][i].time < sent[s][j].time

\* A server is never without a point of a live series for a whole heartbeat: a
\* point is withheld only within that time of one that was sent.
HeartbeatKept ==
    \A s \in Series : \A p \in input[s] \ Range(sent[s]) :
        \E q \in Range(sent[s]) :
            q.value = p.value /\ q.time < p.time /\ p.time < q.time + Heartbeat

\* cleanup takes a held point only from a series that has been silent for
\* longer than maxAge exceeds the heartbeat.
LostOnlyIfSilent ==
    \A s \in Series : \A l \in lost[s] : l.point.time + MaxAge < l.at + Heartbeat

\* The documented filter (tsp-forwarder(8), DropRepeats): only points that are
\* contained in line segments are dropped.  Once a later point is sent, the line
\* to it passes through every point that was dropped before.
LineSegments ==
    \A s \in Series : \A p \in input[s] \ Range(sent[s]) :
        (\E q \in Range(sent[s]) : p.time < q.time) => OnSegment(p, Range(sent[s]))

-------------------------------------------------------------------------------
(* The inductive invariant, for one series: its status st, its input in, the *)
(* set S of the points sent and the set L of the held points lost.           *)

\* p is accounted for in the plot.
Plotted(p, S, L) == p \in L \/ OnSegment(p, S \cup L)

\* The last point sent ends the plot; only a run that is being held goes on
\* after it.
Ends(a, st, in, S, L) ==
    /\ a.value = st.value /\ st.time <= a.time
    /\ \A k \in S \cup L : k.time <= a.time
    /\ \A p \in in \ S : Plotted(p, S, L) \/ (st.n = 0 /\ a.time < p.time)
    /\ st.n # 0 => \A p \in in : p.time <= a.time

\* The status describes the current run.
Describes(st, in, S) ==
    /\ \E q \in S : q.time = st.time /\ q.value = st.value
    /\ \A p \in in : st.time < p.time => p.value = st.value /\ p.time < st.time + Heartbeat
    /\ st.n = 0 => /\ Held(st) \in in /\ st.time < st.timePrev
                   /\ \A p \in in : p.time <= st.timePrev
                   /\ \A k \in S : k.time < st.timePrev

NearSent(p, S) == \E q \in S : q.value = p.value /\ q.time < p.time /\ p.time < q.time + Heartbeat

SeriesInv(st, in, S, L) ==
    /\ S \subseteq in /\ L \subseteq in
    /\ \A p, q \in in : p.time = q.time => p = q
    /\ \A p \in in \ S : NearSent(p, S)
    /\ st = None => \A p \in in \ S : Plotted(p, S, L)
    /\ st # None => Describes(st, in, S) /\ \E a \in S : Ends(a, st, in, S, L)

Increasing(q) == \A i, j \in DOMAIN q : i < j => q[i].time < q[j].time

IInv ==
    /\ TypeOK
    /\ \A s \in Series : SeriesInv(status[s], input[s], Range(sent[s]), LostPoints(s))
    /\ \A s \in Series : Increasing(sent[s])
    /\ LostOnlyIfSilent
===============================================================================
