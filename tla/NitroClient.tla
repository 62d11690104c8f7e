------------------------------ MODULE NitroClient -----------------------------
(***************************************************************************)
(* The Nitro API client of contrib/collect-netscaler/nitro/client.go: many *)
(* goroutines call do, sharing one session cookie behind a mutex and a     *)
(* limited number of connections.  Refresh keeps the mutex while it logs   *)
(* in, and logging in takes a connection like any other request.           *)
(*                                                                         *)
(* The device (external) knows a set of live sessions; sessions expire all *)
(* at once.  A request with a session that is not live is answered with an *)
(* authentication error.  One with a live session may be refused too: HTTP *)
(* status 401 and the codes statusAuth1 to 3 are authentication errors     *)
(* whatever their cause (2138: not authorized to execute this command).    *)
(* That, and every other failure (timeout, transport, status, JSON, server *)
(* error), is a fault.                                                     *)
(***************************************************************************)
EXTENDS Integers, FiniteSets

CONSTANTS
    Callers,   \* the goroutines that call do
    MaxConns,  \* MaxConnsPerHost
    MaxTrips,  \* maxTrips
    Nil

ASSUME NitroAssumption ==
    /\ MaxConns \in Nat \ {0} /\ MaxTrips \in Nat \ {0}
    /\ IsFiniteSet(Callers)
    /\ Nil \notin Nat /\ Nil \notin Callers /\ Nil \notin {"cookie", "wg"}

VARIABLES
    cookie, mu,      \* the session, Nil if there is none; who holds the mutex
    conns,           \* the callers that hold a connection
    call,            \* the call of each caller: pc, trip, session sent, data received
    sessions, live,  \* how often someone logged in; the sessions the device accepts
    expired,         \* how often the sessions expired
    refused,         \* authentication errors that were given to a live session
    crashed,         \* why the program panicked, Nil if it did not
    faults           \* bound on faults: how many are left

clientVars == <<cookie, mu, conns, call, sessions, live, expired, refused, crashed, faults>>

Idle == [pc |-> "idle", trip |-> 0, got |-> Nil, data |-> Nil]

ClientInit ==
    /\ cookie = Nil /\ mu = Nil /\ conns = {}
    /\ call = [c \in Callers |-> Idle]
    /\ sessions = 0 /\ live = {} /\ expired = 0 /\ refused = 0
    /\ crashed = Nil

At(c, pc) == call[c].pc = pc
Goto(c, pc) == call' = [call EXCEPT ![c].pc = pc]

\* A trip that ended with an authentication error is repeated, MaxTrips in all.
NextTrip(c) == IF call[c].trip + 1 < MaxTrips THEN "refresh" ELSE "failed"

\* Mutant: do logs in anew for every request.
RefreshAlways(c) ==
    /\ At(c, "refresh") /\ mu = Nil
    /\ Goto(c, "login") /\ mu' = c
    /\ UNCHANGED <<cookie, conns, sessions, live, expired, refused, crashed, faults>>

\* cookie.Refresh returns if there is a cookie, and else logs in.
Refresh(c) ==
    /\ At(c, "refresh") /\ mu = Nil
    /\ IF cookie # Nil THEN Goto(c, "get") /\ UNCHANGED mu
                       ELSE Goto(c, "login") /\ mu' = c
    /\ UNCHANGED <<cookie, conns, sessions, live, expired, refused, crashed, faults>>

\* Mutant: logging in does not count as a connection.
WaitUncounted(c) ==
    /\ At(c, "login") \/ Cardinality(conns) < MaxConns
    /\ conns' = conns \cup {c}
    /\ \/ At(c, "login") /\ Goto(c, "loggingin")
       \/ At(c, "wait") /\ Goto(c, "requesting")
    /\ UNCHANGED <<cookie, mu, sessions, live, expired, refused, crashed, faults>>


\* connLimit.Wait, of the request that logs in or of the request proper.
Wait(c) ==
    /\ Cardinality(conns) < MaxConns
    /\ conns' = conns \cup {c}
    /\ \/ At(c, "login") /\ Goto(c, "loggingin")
       \/ At(c, "wait") /\ Goto(c, "requesting")
    /\ UNCHANGED <<cookie, mu, sessions, live, expired, refused, crashed, faults>>

\* Mutant: a failure to log in is ignored.
LoginReplyIgnored(c) ==
    /\ At(c, "loggingin")
    /\ conns' = conns \ {c} /\ mu' = Nil /\ Goto(c, "get")
    /\ \/ /\ sessions' = sessions + 1
          /\ live' = live \cup {sessions'} /\ cookie' = sessions'
          /\ UNCHANGED faults
       \/ faults > 0 /\ faults' = faults - 1 /\ UNCHANGED <<sessions, live, cookie>>
    /\ UNCHANGED <<expired, refused, crashed>>

\* newCookie is done, and with it Refresh; a failure ends the call.
LoginReply(c) ==
    /\ At(c, "loggingin")
    /\ conns' = conns \ {c} /\ mu' = Nil
    /\ \/ /\ sessions' = sessions + 1
          /\ live' = live \cup {sessions'} /\ cookie' = sessions'
          /\ Goto(c, "get")
          /\ UNCHANGED faults
       \/ /\ faults > 0 /\ faults' = faults - 1
          /\ Goto(c, "failed")
          /\ UNCHANGED <<sessions, live, cookie>>
    /\ UNCHANGED <<expired, refused, crashed>>

\* cookie.Get, and newRequest, which panics if there is no cookie: nothing but
\* Refresh made sure there is one, and the mutex was free in between.
Get(c) ==
    /\ At(c, "get") /\ mu = Nil
    /\ IF cookie = Nil
       THEN crashed' = "cookie" /\ UNCHANGED call
       ELSE call' = [call EXCEPT ![c].pc = "wait", ![c].got = cookie] /\ UNCHANGED crashed
    /\ UNCHANGED <<cookie, mu, conns, sessions, live, expired, refused, faults>>

\* roundtrip ends: with the data the device has now, with an authentication
\* error, or with a fault.
Reply(c, data) ==
    /\ At(c, "requesting")
    /\ conns' = conns \ {c}
    /\ \/ /\ call[c].got \in live
          /\ call' = [call EXCEPT ![c].pc = "ok", ![c].data = data]
          /\ UNCHANGED <<faults, refused>>
       \/ call[c].got \notin live /\ Goto(c, "reset") /\ UNCHANGED <<faults, refused>>
       \/ /\ call[c].got \in live /\ Goto(c, "reset") /\ refused' = refused + 1
          /\ faults > 0 /\ faults' = faults - 1
       \/ faults > 0 /\ faults' = faults - 1 /\ Goto(c, "failed") /\ UNCHANGED refused
    /\ UNCHANGED <<cookie, mu, sessions, live, expired, crashed>>

\* cookie.Reset after an authentication error, whatever cookie there is now.
Reset(c) ==
    /\ At(c, "reset") /\ mu = Nil
    /\ cookie' = Nil
    /\ call' = [call EXCEPT ![c].pc = NextTrip(c), ![c].trip = @ + 1]
    /\ UNCHANGED <<mu, conns, sessions, live, expired, refused, crashed, faults>>

Expire ==
    /\ live # {}
    /\ live' = {} /\ expired' = expired + 1
    /\ UNCHANGED <<cookie, mu, conns, call, sessions, refused, crashed, faults>>

\* A caller calls do, and takes the result.
Begin(c) == At(c, "idle") /\ Goto(c, "refresh")
Returned(c) == call[c].pc \in {"ok", "failed"}

ClientStep(c, data) ==
    \/ Refresh(c) \/ Wait(c) \/ LoginReply(c) \/ Get(c) \/ Reply(c, data) \/ Reset(c)

-------------------------------------------------------------------------------
CallStates == {"idle", "refresh", "login", "loggingin", "get", "wait",
               "requesting", "reset", "ok", "failed", "deliver"}

ClientTypeOK ==
    /\ cookie \in 1..sessions \cup {Nil} /\ mu \in Callers \cup {Nil}
    /\ conns \subseteq Callers /\ Cardinality(conns) <= MaxConns
    /\ live \subseteq 1..sessions
    /\ \A c \in Callers :
          /\ call[c].pc \in CallStates
          /\ call[c].trip \in 0..MaxTrips
          /\ c \in conns <=> call[c].pc \in {"loggingin", "requesting"}
          /\ mu = c <=> call[c].pc \in {"login", "loggingin"}

\* The first login, one for each caller when the sessions expire, and one for
\* each authentication error given to a live session.
Allowed == 1 + expired * Cardinality(Callers) + refused

\* A session that expires costs at most one login for each caller that was
\* using it, and a request that is refused costs one, although a late
\* authentication error also discards a cookie that has been refreshed in the
\* meantime.
LoginsBounded == sessions <= Allowed

-------------------------------------------------------------------------------
(* The invariant behind LoginsBounded.                                       *)

\* The cookie is that of a session that has expired.
StaleCookie == cookie # Nil /\ cookie \notin live

\* The callers that have, or will get, an authentication error.
Doomed ==
    {c \in Callers : \/ call[c].pc \in {"wait", "requesting"} /\ call[c].got \notin live
                    \/ call[c].pc = "reset"}

\* How often cookie.Reset can still be called before the sessions expire again
\* or another request is refused:
\* any caller may pick up a stale cookie, but only until the first Reset.
ResetsDue == IF StaleCookie THEN Cardinality(Callers) ELSE Cardinality(Doomed)

\* The logins that are behind and those that may be due without another expiry.
LoginInv ==
    sessions + (IF cookie = Nil THEN 1 ELSE 0) + ResetsDue <= Allowed

CallOver(Data) ==
    [pc : CallStates, trip : 0..MaxTrips, got : Nat \cup {Nil}, data : Data \cup {Nil}]

\* Who logs in has found no cookie; a caller on its way to the cookie saw one.
ClientShape(Data) ==
    /\ ClientTypeOK
    /\ sessions \in Nat /\ expired \in Nat /\ refused \in Nat
    /\ call \in [Callers -> CallOver(Data)]
    /\ \A c \in Callers : /\ call[c].trip = MaxTrips => At(c, "failed")
                          /\ At(c, "get") => sessions > 0
                          /\ call[c].pc \in {"ok", "deliver"} => call[c].data \in Data
    /\ mu # Nil => cookie = Nil

ClientInv(Data) == ClientShape(Data) /\ LoginInv
===============================================================================
