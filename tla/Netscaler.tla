------------------------------- MODULE Netscaler ------------------------------
(***************************************************************************)
(* contrib/collect-netscaler/collect on top of NitroClient: Loop runs the  *)
(* collectors of a cycle side by side, lbvserver learns which virtual      *)
(* server has traffic, the bindings poller keeps a job for it that reads   *)
(* which services are bound to it, and the service collector joins the     *)
(* three.                                                                  *)
(*                                                                         *)
(* There is one virtual server.  The device (external) counts its packets  *)
(* and has a list of the services bound to it, with a version; the other   *)
(* services are not configured.  A response holds what the device had when *)
(* it answered.                                                            *)
(***************************************************************************)
EXTENDS NitroClient, Sequences

CONSTANTS
    CollectorSeq, \* the collectors, in the order they are registered
    Jobs,         \* the binding reader jobs
    Lists,        \* Lists[v]: the services bound in version v
    Window,       \* 24 h: how long a server counts as recently active
    Scenarios     \* bounds: cycles, traffic, seconds, expiries, faults, rebinds, reads

ASSUME NetscalerAssumption ==
    /\ Window \in Nat \ {0} /\ CollectorSeq \in Seq(Callers) /\ Len(CollectorSeq) > 0
    /\ Callers = {CollectorSeq[i] : i \in DOMAIN CollectorSeq} \cup Jobs
    /\ {CollectorSeq[i] : i \in DOMAIN CollectorSeq} \cap Jobs = {}
    /\ DOMAIN Lists = 1..Len(Lists) /\ Len(Lists) \in Nat \ {0}

VARIABLES
    left,               \* what is left of the bounds
    clock, packets, ver,\* time; TotalPktsSent; the version of the bindings
    lpc, next, wg,      \* Loop, the collector to start, the WaitGroup
    log,                \* lbvserverLog of the server: packets and seen, Nil if unknown
    running, exit,      \* the job in charge, Nil if none; jobs told to exit
    jpc,                \* the jobs: idle, sleep, call, out
    bindings,           \* byLBVServer: a version, Nil if none
    lost,               \* the collection of services panicked in this cycle
    late                \* observation: a job delivered though it was told to exit

loopVars   == <<lpc, next, wg>>
jobVars    == <<running, exit, jpc, bindings, late>>
deviceVars == <<packets, ver>>
vars == <<clientVars, left, clock, deviceVars, loopVars, log, jobVars, lost>>

Init ==
    /\ ClientInit
    /\ left \in Scenarios /\ faults = left.faults
    /\ clock = Window /\ packets = 0 /\ ver = 1
    /\ lpc = "spawn" /\ next = 1 /\ wg = 0
    /\ log = Nil
    /\ running = Nil /\ exit = {} /\ jpc = [j \in Jobs |-> "idle"] /\ bindings = Nil
    /\ lost = FALSE /\ late = FALSE

Use(kind) == left[kind] > 0 /\ left' = [left EXCEPT ![kind] = @ - 1]
IdleJob == CHOOSE j \in Jobs : jpc[j] = "idle"
Collectors == {CollectorSeq[i] : i \in DOMAIN CollectorSeq}

\* RecentlyActive: the server's packet counter was seen to change.
Active == log # Nil /\ log.seen # Nil /\ clock - log.seen < Window

-------------------------------------------------------------------------------
(* Loop.                                                                     *)

Spawn ==
    /\ lpc = "spawn"
    /\ Begin(CollectorSeq[next])
    /\ lpc' = "add"
    /\ UNCHANGED <<cookie, mu, conns, sessions, live, expired, refused, crashed, faults, left, clock,
                   deviceVars, next, wg, log, jobVars, lost>>

\* wg.Add(1) comes after the go statement.
Add ==
    /\ lpc = "add"
    /\ wg' = wg + 1
    /\ IF next < Len(CollectorSeq) THEN lpc' = "spawn" /\ next' = next + 1
                                   ELSE lpc' = "wait" /\ next' = 1
    /\ UNCHANGED <<clientVars, left, clock, deviceVars, log, jobVars, lost>>

\* wg.Wait returns, and the next tick starts a cycle.
Cycle ==
    /\ lpc = "wait" /\ wg = 0
    /\ Use("cycles")
    /\ lpc' = "spawn" /\ lost' = FALSE
    /\ UNCHANGED <<clientVars, clock, deviceVars, next, wg, log, jobVars>>

\* lbvserverLog.merge: a server seen for the first time is not active.
merge(tps) ==
    IF log = Nil THEN [packets |-> tps, seen |-> Nil]
    ELSE IF tps # log.packets THEN [packets |-> tps, seen |-> clock] ELSE log

\* byVServer: the services of the server, if it is active and its bindings known.
byVServer == IF Active /\ bindings # Nil THEN Lists[bindings] ELSE {}

\* service dereferences the fields of every bound service; one that the response
\* lacks has none.  logPanics ends the collection of all servers.
Panics(response) == ~(byVServer \subseteq Lists[response])

\* A collector has its response or an error; a Done too many panics.
Collected(c) ==
    /\ Returned(c) /\ c \in Collectors
    /\ call' = [call EXCEPT ![c] = Idle]
    /\ IF wg = 0 THEN crashed' = "wg" /\ UNCHANGED wg
                 ELSE wg' = wg - 1 /\ UNCHANGED crashed
    /\ log'  = IF At(c, "ok") /\ c = "lbvserver" THEN merge(call[c].data.packets) ELSE log
    /\ lost' = (lost \/ (At(c, "ok") /\ c = "service" /\ Panics(call[c].data.ver)))
    /\ UNCHANGED <<cookie, mu, conns, sessions, live, expired, refused, faults, left, clock,
                   deviceVars, lpc, next, jobVars>>

-------------------------------------------------------------------------------
(* The bindings poller and its jobs.                                         *)

\* Mutant: the job of a server that is not active is forgotten, not told to exit.
PollTickForgets ==
    /\ \/ /\ Active /\ running = Nil
          /\ \E j \in Jobs : jpc[j] = "idle"
          /\ running' = IdleJob /\ jpc' = [jpc EXCEPT ![IdleJob] = "sleep"]
       \/ ~Active /\ running # Nil /\ running' = Nil /\ UNCHANGED jpc
    /\ UNCHANGED <<clientVars, left, clock, deviceVars, loopVars, log, exit, bindings, late, lost>>

\* The tick of the poller: a job for an active server, none for another one.
PollTick ==
    /\ \/ /\ Active /\ running = Nil
          /\ \E j \in Jobs : jpc[j] = "idle"
          /\ running' = IdleJob /\ jpc' = [jpc EXCEPT ![IdleJob] = "sleep"]
          /\ UNCHANGED exit
       \/ /\ ~Active /\ running # Nil
          /\ exit' = exit \cup {running} /\ running' = Nil
          /\ UNCHANGED jpc
    /\ UNCHANGED <<clientVars, left, clock, deviceVars, loopVars, log, bindings, late, lost>>

\* The job's sleep is over: it asks for the bindings.
JobWakes(j) ==
    /\ jpc[j] = "sleep" /\ Use("reads")
    /\ jpc' = [jpc EXCEPT ![j] = "call"] /\ Begin(j)
    /\ UNCHANGED <<cookie, mu, conns, sessions, live, expired, refused, crashed, faults, clock,
                   deviceVars, loopVars, log, running, exit, bindings, late, lost>>

\* An error sends the job back to sleep, told to exit or not.
JobReturns(j) ==
    /\ jpc[j] = "call" /\ Returned(j)
    /\ IF At(j, "ok") THEN jpc' = [jpc EXCEPT ![j] = "out"] /\ Goto(j, "deliver")
                      ELSE jpc' = [jpc EXCEPT ![j] = "sleep"] /\ call' = [call EXCEPT ![j] = Idle]
    /\ UNCHANGED <<cookie, mu, conns, sessions, live, expired, refused, crashed, faults, left, clock,
                   deviceVars, loopVars, log, running, exit, bindings, late, lost>>

\* The select of the job: the poller takes the list, ...
JobDelivers(j) ==
    /\ jpc[j] = "out"
    /\ bindings' = call[j].data.ver /\ late' = (late \/ j \in exit)
    /\ jpc' = [jpc EXCEPT ![j] = "sleep"] /\ call' = [call EXCEPT ![j] = Idle]
    /\ UNCHANGED <<cookie, mu, conns, sessions, live, expired, refused, crashed, faults, left, clock,
                   deviceVars, loopVars, log, running, exit, lost>>

\* ... or the job finds that it was told to exit.
JobExits(j) ==
    /\ jpc[j] = "out" /\ j \in exit
    /\ exit' = exit \ {j}
    /\ jpc' = [jpc EXCEPT ![j] = "idle"] /\ call' = [call EXCEPT ![j] = Idle]
    /\ UNCHANGED <<cookie, mu, conns, sessions, live, expired, refused, crashed, faults, left, clock,
                   deviceVars, loopVars, log, running, bindings, late, lost>>

-------------------------------------------------------------------------------
(* The device, and time.                                                     *)

Traffic ==
    /\ Use("traffic") /\ packets' = packets + 1
    /\ UNCHANGED <<clientVars, clock, ver, loopVars, log, jobVars, lost>>

Rebind ==
    /\ ver < Len(Lists) /\ Use("rebinds") /\ ver' = ver + 1
    /\ UNCHANGED <<clientVars, clock, packets, loopVars, log, jobVars, lost>>

Expires ==
    /\ Use("expiries") /\ Expire
    /\ UNCHANGED <<clock, deviceVars, loopVars, log, jobVars, lost>>

Advance ==
    /\ Use("seconds") /\ clock' = clock + 1
    /\ UNCHANGED <<clientVars, deviceVars, loopVars, log, jobVars, lost>>

\* A step of a call: a response holds what the device has now.
Step(c) ==
    /\ ClientStep(c, [packets |-> packets, ver |-> ver])
    /\ UNCHANGED <<left, clock, deviceVars, loopVars, log, jobVars, lost>>

Next ==
    /\ crashed = Nil
    /\ \/ Spawn \/ Add \/ Cycle \/ PollTick
       \/ \E c \in Callers : Step(c) \/ Collected(c)
       \/ \E j \in Jobs : JobWakes(j) \/ JobReturns(j) \/ JobDelivers(j) \/ JobExits(j)
       \/ Traffic \/ Rebind \/ Expires \/ Advance

Spec == Init /\ [][Next]_vars

\* Some call proceeds as long as one can: a request is ended by its timeout at
\* the latest.  Who it is that proceeds is left open; that no caller is passed
\* over forever follows from the bounds on cycles and reads.
Progress ==
    /\ crashed = Nil
    /\ \/ \E c \in Callers : Step(c) \/ Collected(c)
       \/ \E j \in Jobs : JobReturns(j)

FairSpec == Spec /\ WF_vars(Progress)

-------------------------------------------------------------------------------
(* Properties.                                                               *)

\* The types of the variables.  A connection is held by exactly the callers
\* whose request is under way, the mutex by the caller that logs in.
TypeOK ==
    /\ ClientTypeOK
    /\ lpc \in {"spawn", "add", "wait"} /\ next \in DOMAIN CollectorSeq
    /\ wg \in -1..Len(CollectorSeq)
    /\ running \in Jobs \cup {Nil} /\ exit \subseteq Jobs /\ running \notin exit
    /\ \A j \in Jobs : jpc[j] \in {"idle", "sleep", "call", "out"}
    /\ bindings \in DOMAIN Lists \cup {Nil}


\* The program panics for want of a cookie only after a session has expired or a
\* request was refused, when the Reset of one caller came between Refresh and Get
\* of another: starting and failed logins alone do not lead there.  And for a
\* collector done too early only while Loop has not yet counted it.
Survives ==
    /\ crashed = "cookie" => expired + refused > 0
    /\ crashed = "wg" => lpc = "add"

\* The bindings of a server are only ever replaced by newer ones, unless a job
\* that was told to exit while it was asking has delivered its list nevertheless:
\* two jobs are then at work for one server.
BindingsNewer ==
    [][bindings' # bindings /\ bindings # Nil => bindings' > bindings \/ late']_vars

\* What bindingReaderJob says: it keeps the bindings up to date, so that a list is never
\* replaced by an older one (collect/service.go mainloop).
BindingsUpToDate ==
    [][bindings' # bindings /\ bindings # Nil => bindings' > bindings]_vars

\* What NewClient says: the client remains valid for use despite any errors
\* (nitro/client.go Get and Reset).
RemainsValid == crashed # "cookie"

-------------------------------------------------------------------------------
(* The inductive invariant behind TypeOK, LoginsBounded, Survives and        *)
(* BindingsNewer.                                                            *)

Responses == [packets : Nat, ver : DOMAIN Lists]

\* The WaitGroup counts the collectors at work, except the one that Loop has
\* started and not yet counted.
Working == {c \in Collectors : ~At(c, "idle")}
WaitInv ==
    crashed = Nil => wg + (IF lpc = "add" THEN 1 ELSE 0) = Cardinality(Working)

\* A job at work is in charge or was told to exit, and only one is in charge;
\* it calls the client exactly when it says so.
JobInv ==
    /\ jpc \in [Jobs -> {"idle", "sleep", "call", "out"}]
    /\ \A j \in Jobs :
          /\ jpc[j] # "idle" <=> j \in exit \cup ({running} \ {Nil})
          /\ jpc[j] \in {"idle", "sleep"} <=> At(j, "idle")
          /\ jpc[j] = "out" <=> At(j, "deliver")

\* The job in charge has read nothing older than the bindings, unless another
\* job has overwritten them.
FreshInv ==
    /\ ver \in DOMAIN Lists /\ packets \in Nat /\ late \in BOOLEAN
    /\ \A j \in Jobs : call[j].pc \in {"ok", "deliver"} => call[j].data.ver <= ver
    /\ bindings # Nil /\ ~late =>
          /\ bindings <= ver
          /\ \A j \in Jobs \ exit :
                call[j].pc \in {"ok", "deliver"} => bindings <= call[j].data.ver

IInv ==
    /\ ClientInv(Responses) /\ TypeOK /\ wg \in Nat
    /\ WaitInv /\ JobInv /\ FreshInv /\ Survives
===============================================================================
