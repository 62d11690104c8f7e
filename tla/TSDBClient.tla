------------------------------ MODULE TSDBClient ------------------------------
(***************************************************************************)
(* The TSDB client of a relay: internal/tsdb/client.go, client_conn.go and *)
(* the loss reporting that internal/relay/relay.go installs as its Drop    *)
(* callback.                                                               *)
(*                                                                         *)
(* Three kinds of goroutine share the client: the caller of Put, which     *)
(* must never block and so drops what a full queue cannot take; mainloop,  *)
(* which takes one command at a time to the connection its series hashes   *)
(* to and stops and waits for a version response when an acknowledgement   *)
(* is due; and the dialers, one per connection that is not up.             *)
(*                                                                         *)
(* A connection is a pair of FIFO channels to a server that is not part of *)
(* the repository (or is tsp-aggregator).  A connection that is cut or     *)
(* closed loses any suffix of what is still on its way.  A connection is   *)
(* never reused: Conns are the identities of all that are ever dialled.    *)
(***************************************************************************)
EXTENDS Naturals, Sequences, FiniteSets, SequencesExt

CONSTANTS
    Points,          \* the data points the caller may submit, ordered by time
    Series,          \* the time series (metric and tags)
    SeriesOf,        \* the series of a point
    SeriesHash,      \* cmd.SeriesHash: the uint16 hash of a series
    Hosts,           \* the addresses of the Host setting
    Conns,           \* TCP connections (bounds the number of dials)
    MaxConnsPerHost, \* the MaxConnsPerHost setting
    MaxQueue,        \* clientMaxQueue
    QueueFullModes,  \* the OnQueueFull settings to explore
    DropRepeats,     \* the DropRepeats setting
    SockBuf,         \* messages a connection holds before Write blocks
    MaxFaults,       \* bound on connections cut and responses timed out
    Version,         \* the version command
    None             \* no point, no connection, no host

ASSUME ClientAssumption ==
    /\ Points \subseteq Nat
    /\ SeriesOf \in [Points -> Series]
    /\ SeriesHash \in [Series -> Nat]
    /\ MaxConnsPerHost \in Nat
    /\ MaxQueue \in Nat
    /\ DropRepeats \in BOOLEAN
    /\ SockBuf \in Nat \ {0}
    /\ MaxFaults \in Nat
    /\ QueueFullModes \subseteq {"Drop", "DropAndLog"}
    /\ None \notin Points
    /\ None \notin Conns
    /\ None \notin Hosts
    /\ Version \notin Points

VARIABLES
    \* the caller's side of the client
    offered,     \* points handed to Put so far
    held,        \* per series, the repeat that repeatTester holds back
    suppressed,  \* repeats that repeatTester held back and will not release
    sending,     \* commands the running Put has still to send
    queue,       \* the channel c.cmd
    \* mainloop
    pc,          \* where mainloop is
    cur,         \* the command mainloop is handling
    conn,        \* the connection that it uses for it
    \* the connection pool
    up,          \* c.up
    dialers,     \* per host, the goroutines running dial
    addr,        \* clientConn.Addr; None if the connection was not yet dialled
    pending,     \* clientConn.Pending
    ackDue,      \* connections whose ackTime is clientConnAckInterval old
    \* the network and the servers
    open,        \* connections neither cut nor closed
    wire,        \* what a connection still has to bring to its server
    resp,        \* response lines the client has still to read
    arrived,     \* points the servers read, in order, and whether they kept them
    faults,      \* number of faults so far
    \* what became of the points
    acked,       \* points that left Pending because a version response came
    dropped,     \* points passed to the Drop callback
    logged,      \* points that logLost printed
    statDrop,    \* relay.Errors type=Drop
    forgotten,   \* points that left the client without any record
    onQueueFull, \* the OnQueueFull setting
    panicked     \* the process died of a Go panic

callerVars == <<offered, held, suppressed, sending, queue>>
mainVars   == <<pc, cur, conn>>
poolVars   == <<up, dialers, addr, pending, ackDue>>
netVars    == <<open, wire, resp, arrived, faults>>
fateVars   == <<acked, dropped, logged, statDrop, forgotten, onQueueFull, panicked>>
vars == <<callerVars, mainVars, poolVars, netVars, fateVars>>

Lines    == {"error", "part1", "part2"}
Messages == Points \cup {Version}
Arrivals == [point : Points, conn : Conns, ok : BOOLEAN]

CallerType ==
    /\ offered \subseteq Points
    /\ held \in [Series -> Points \cup {None}]
    /\ suppressed \subseteq Points
    /\ sending \in Seq(Points)
    /\ queue \in Seq(Points)
    /\ Len(queue) <= MaxQueue

MainType ==
    /\ pc \in {"recv", "lookup", "put", "ack", "read", "error"}
    /\ cur \in Points \cup {None}
    /\ conn \in Conns \cup {None}

PoolType ==
    /\ up \in Seq(Conns)
    /\ dialers \in [Hosts -> Nat]
    /\ addr \in [Conns -> Hosts \cup {None}]
    /\ pending \in [Conns -> Seq(Points)]
    /\ ackDue \subseteq Conns

NetType ==
    /\ open \subseteq Conns
    /\ wire \in [Conns -> Seq(Messages)]
    /\ resp \in [Conns -> Seq(Lines)]
    /\ arrived \in Seq(Arrivals)
    /\ faults \in 0..MaxFaults

FateType ==
    /\ acked \subseteq Points
    /\ dropped \subseteq Points
    /\ logged \subseteq Points
    /\ statDrop \in Nat
    /\ forgotten \subseteq Points
    /\ onQueueFull \in {"Drop", "DropAndLog"}
    /\ panicked \in BOOLEAN

\* The types of the variables; the queue never exceeds its capacity.
TypeOK == CallerType /\ MainType /\ PoolType /\ NetType /\ FateType

Init ==
    /\ offered = {}
    /\ held = [s \in Series |-> None]
    /\ suppressed = {}
    /\ sending = <<>>
    /\ queue = <<>>
    /\ pc = "recv" /\ cur = None /\ conn = None
    /\ up = <<>>
    /\ dialers = [h \in Hosts |-> 0]
    /\ addr = [c \in Conns |-> None]
    /\ pending = [c \in Conns |-> <<>>]
    /\ ackDue = {}
    /\ open = {}
    /\ wire = [c \in Conns |-> <<>>]
    /\ resp = [c \in Conns |-> <<>>]
    /\ arrived = <<>>
    /\ faults = 0
    /\ acked = {} /\ dropped = {} /\ logged = {} /\ forgotten = {}
    /\ statDrop = 0
    /\ onQueueFull \in QueueFullModes
    /\ panicked = FALSE
-------------------------------------------------------------------------------
(* The Drop callback: relay.drop counts the newlines of its argument, and    *)
(* relay.logLost prints the argument line by line, slicing each one off at   *)
(* its newline.  Both callers pass points, but only Pending keeps them       *)
(* newline-terminated; a line with no newline is not counted, and cutting it *)
(* at index -1 panics.                                                       *)
Drop(points, newlines) ==
    /\ dropped' = dropped \cup Range(points)
    /\ statDrop' = statDrop + newlines
    /\ logged' = IF onQueueFull = "DropAndLog" /\ newlines = Len(points)
                 THEN logged \cup Range(points) ELSE logged
    /\ panicked' = (panicked \/ (onQueueFull = "DropAndLog" /\ newlines < Len(points)))

-------------------------------------------------------------------------------
(* Client.Put, called by one goroutine, in time order within a series.  The  *)
(* first call starts the dialers.  What repeatTester makes of the point is   *)
(* left open here (RepeatTester models it): it passes the point on, alone or *)
(* after the repeat it held, or it holds the point back.                     *)
Offer(p) ==
    /\ ~panicked
    /\ sending = <<>>
    /\ p \notin offered
    /\ \A q \in offered : SeriesOf[q] = SeriesOf[p] => q < p
    /\ offered' = offered \cup {p}
    /\ dialers' = IF offered = {} THEN [h \in Hosts |-> MaxConnsPerHost]
                                  ELSE dialers
    /\ UNCHANGED <<queue, mainVars, up, addr, pending, ackDue, netVars, fateVars>>

\* The repeat held for the series of p, as a set.
HeldBefore(p) == {held[SeriesOf[p]]} \ {None}

\* The series of p holds nothing any more.
Released(p) == [held EXCEPT ![SeriesOf[p]] = None]

\* Mutant of Flushed: the point overtakes the repeat held before it.
FlushedLate(p) == <<p, held[SeriesOf[p]]>>

\* Mutant of Flushed: the buffer of the held repeat is that of the point.
FlushedTwice(p) == <<p, p>>

\* The held repeat ends its line segment and goes first.
Flushed(p) == <<held[SeriesOf[p]], p>>

\* New series, first repeat of a value, heartbeat, or a changed value that
\* no held repeat precedes.
PutPass(p) ==
    /\ Offer(p)
    /\ sending' = <<p>>
    /\ held' = Released(p)
    /\ suppressed' = suppressed \cup HeldBefore(p)

\* A changed value.
PutFlush(p) ==
    /\ DropRepeats
    /\ held[SeriesOf[p]] # None
    /\ Offer(p)
    /\ sending' = Flushed(p)
    /\ held' = Released(p)
    /\ UNCHANGED suppressed

\* A repeat.
PutRepeat(p) ==
    /\ DropRepeats
    /\ \E q \in offered : SeriesOf[q] = SeriesOf[p]
    /\ Offer(p)
    /\ held' = [held EXCEPT ![SeriesOf[p]] = p]
    /\ suppressed' = suppressed \cup HeldBefore(p)
    /\ UNCHANGED sending

\* Mutant of QueueFull: off by one.
QueueFullLate == Len(queue) > MaxQueue

\* The select of Client.send finds no room in c.cmd.
QueueFull == Len(queue) >= MaxQueue

\* Client.send: enqueue, or drop the point if the queue is full.
Send ==
    /\ ~panicked
    /\ sending # <<>>
    /\ sending' = Tail(sending)
    /\ \/ /\ ~QueueFull
          /\ queue' = Append(queue, Head(sending))
          /\ UNCHANGED fateVars
       \/ /\ QueueFull
          /\ Drop(<<Head(sending)>>, 0)
          /\ UNCHANGED <<queue, acked, forgotten, onQueueFull>>
    /\ UNCHANGED <<offered, held, suppressed, mainVars, poolVars, netVars>>

-------------------------------------------------------------------------------
(* mainloop.                                                                 *)

\* for cmd = range c.cmd
Recv ==
    /\ ~panicked
    /\ pc = "recv" /\ queue # <<>>
    /\ cur' = Head(queue)
    /\ queue' = Tail(queue)
    /\ pc' = "lookup"
    /\ UNCHANGED <<offered, held, suppressed, sending, conn, poolVars, netVars, fateVars>>

\* lookupConn: retried every second until some connection is up.
LookupConn ==
    /\ ~panicked
    /\ pc = "lookup" /\ up # <<>>
    /\ conn' = up[(SeriesHash[SeriesOf[cur]] % Len(up)) + 1]
    /\ pc' = "put"
    /\ UNCHANGED <<callerVars, cur, poolVars, netVars, fateVars>>

\* clientConn.put, the write accepted by the kernel: the point reaches the
\* wire unless the connection is already cut, and a copy goes to Pending.
\* ack then returns at once unless an acknowledgement is due.
ConnPut ==
    /\ ~panicked
    /\ pc = "put"
    /\ conn \in open => Len(wire[conn]) < SockBuf
    /\ wire' = IF conn \in open THEN [wire EXCEPT ![conn] = Append(@, cur)] ELSE wire
    /\ pending' = [pending EXCEPT ![conn] = Append(@, cur)]
    /\ cur' = None
    /\ pc' = IF conn \in ackDue THEN "ack" ELSE "recv"
    /\ UNCHANGED <<callerVars, conn, up, dialers, addr, ackDue,
                   open, resp, arrived, faults, fateVars>>

\* clientConn.put, the write failed: the command is in no buffer any more.
ConnPutError ==
    /\ ~panicked
    /\ pc = "put" /\ conn \notin open
    /\ forgotten' = forgotten \cup {cur}
    /\ cur' = None
    /\ pc' = "error"
    /\ UNCHANGED <<callerVars, conn, poolVars, netVars,
                   acked, dropped, logged, statDrop, onQueueFull, panicked>>

\* version: the request; an error of this write is ignored.
WriteVersion ==
    /\ ~panicked
    /\ pc = "ack"
    /\ conn \in open => Len(wire[conn]) < SockBuf
    /\ wire' = IF conn \in open THEN [wire EXCEPT ![conn] = Append(@, Version)] ELSE wire
    /\ pc' = "read"
    /\ UNCHANGED <<callerVars, cur, conn, poolVars,
                   open, resp, arrived, faults, fateVars>>

\* Mutant of Acknowledges: any line of the version response will do.
AcknowledgesEarly(line) == line \in {"part1", "part2"}

\* isVersionResponsePart2.
Acknowledges(line) == line = "part2"

\* Mutant of ResetPending: the reset is missing.
ResetPendingNot(c) == pending

\* Pending.Reset, or the end of the clientConn.
ResetPending(c) == [pending EXCEPT ![c] = <<>>]

\* readVersionResponse: one line.  Error lines belong to earlier puts and are
\* only counted; the second part of the version response acknowledges all of
\* Pending and ends the wait.
ReadVersionResponse ==
    /\ ~panicked
    /\ pc = "read" /\ resp[conn] # <<>>
    /\ resp' = [resp EXCEPT ![conn] = Tail(@)]
    /\ \/ /\ ~Acknowledges(Head(resp[conn]))
          /\ UNCHANGED <<pc, pending, ackDue, acked>>
       \/ /\ Acknowledges(Head(resp[conn]))
          /\ acked' = acked \cup Range(pending[conn])
          /\ pending' = ResetPending(conn)
          /\ ackDue' = ackDue \ {conn}
          /\ pc' = "recv"
    /\ UNCHANGED <<callerVars, cur, conn, up, dialers, addr,
                   open, wire, arrived, faults,
                   dropped, logged, statDrop, forgotten, onQueueFull, panicked>>

\* readVersionResponse: end of file on a cut connection, or no line within
\* clientConnAckTimeout on a live one.
ReadError ==
    /\ ~panicked
    /\ pc = "read" /\ resp[conn] = <<>>
    /\ \/ conn \notin open /\ UNCHANGED faults
       \/ conn \in open /\ faults < MaxFaults /\ faults' = faults + 1
    /\ pc' = "error"
    /\ UNCHANGED <<callerVars, cur, conn, poolVars,
                   open, wire, resp, arrived, fateVars>>

\* Mutant of Redial: the connection is not replaced.
RedialNot(h) == dialers

\* go c.dial(addr)
Redial(h) == [dialers EXCEPT ![h] = @ + 1]

\* Client.error: take the connection out of the pool, close it, report what
\* was never acknowledged and start a dialer in its place.  What is on the
\* wire may still arrive.
ConnError ==
    /\ ~panicked
    /\ pc = "error"
    /\ \E i \in DOMAIN up : up[i] = conn /\ up' = RemoveAt(up, i)
    /\ open' = open \ {conn}
    /\ resp' = [resp EXCEPT ![conn] = <<>>]
    /\ Drop(pending[conn], Len(pending[conn]))
    /\ pending' = ResetPending(conn)
    /\ dialers' = Redial(addr[conn])
    /\ pc' = "recv"
    /\ UNCHANGED <<callerVars, cur, conn, addr, ackDue,
                   wire, arrived, faults, acked, forgotten, onQueueFull>>

-------------------------------------------------------------------------------
(* A dialer succeeds: newDial has tested the connection with a version       *)
(* request, and the fresh clientConn has a zero ackTime.  Failed attempts    *)
(* change nothing here.                                                      *)
Dial(h, c) ==
    /\ ~panicked
    /\ dialers[h] > 0 /\ addr[c] = None
    /\ dialers' = [dialers EXCEPT ![h] = @ - 1]
    /\ addr' = [addr EXCEPT ![c] = h]
    /\ up' = Append(up, c)
    /\ ackDue' = ackDue \cup {c}
    /\ open' = open \cup {c}
    /\ UNCHANGED <<callerVars, mainVars, pending,
                   wire, resp, arrived, faults, fateVars>>

\* clientConnAckInterval has passed since the connection's ackTime.
AckInterval(c) ==
    /\ ~panicked
    /\ c \in Range(up) \ ackDue
    /\ ackDue' = ackDue \cup {c}
    /\ UNCHANGED <<callerVars, mainVars, up, dialers, addr, pending, netVars, fateVars>>

-------------------------------------------------------------------------------
(* The network and the servers (external).                                   *)

\* Response lines are lost once the connection is gone.
Respond(c, lines) == resp' = IF c \in open THEN [resp EXCEPT ![c] = @ \o lines] ELSE resp

\* OpenTSDB answers in two lines, tsp-aggregator with the second alone.
VersionResponses == {<<"part1", "part2">>, <<"part2">>}

ServerRead(c) ==
    /\ wire[c] # <<>>
    /\ wire' = [wire EXCEPT ![c] = Tail(@)]
    /\ \/ /\ Head(wire[c]) = Version
          /\ \E lines \in VersionResponses : Respond(c, lines)
          /\ UNCHANGED arrived
       \/ /\ Head(wire[c]) # Version
          /\ arrived' = Append(arrived, [point |-> Head(wire[c]), conn |-> c, ok |-> TRUE])
          /\ UNCHANGED resp
       \/ /\ Head(wire[c]) # Version
          /\ arrived' = Append(arrived, [point |-> Head(wire[c]), conn |-> c, ok |-> FALSE])
          /\ Respond(c, <<"error">>)
    /\ UNCHANGED <<callerVars, mainVars, poolVars, open, faults, fateVars>>

\* The connection is cut; response lines already received may go with it.
Cut(c) ==
    /\ c \in open
    /\ faults < MaxFaults /\ faults' = faults + 1
    /\ open' = open \ {c}
    /\ resp' \in {resp, [resp EXCEPT ![c] = <<>>]}
    /\ UNCHANGED <<callerVars, mainVars, poolVars, wire, arrived, fateVars>>

\* What a cut or closed connection still carried is lost.
LoseWire(c) ==
    /\ c \notin open /\ wire[c] # <<>>
    /\ wire' = [wire EXCEPT ![c] = <<>>]
    /\ UNCHANGED <<callerVars, mainVars, poolVars, open, resp, arrived,
                   faults, fateVars>>

-------------------------------------------------------------------------------
Put(p) == PutPass(p) \/ PutFlush(p) \/ PutRepeat(p)

Mainloop ==
    \/ Recv \/ LookupConn \/ ConnPut \/ ConnPutError
    \/ WriteVersion \/ ReadVersionResponse \/ ReadError \/ ConnError

Environment == \E c \in Conns : ServerRead(c) \/ Cut(c) \/ LoseWire(c)

Next ==
    \/ \E p \in Points : Put(p)
    \/ Send
    \/ Mainloop
    \/ \E h \in Hosts, c \in Conns : Dial(h, c)
    \/ \E c \in Conns : AckInterval(c)
    \/ Environment

Spec == Init /\ [][Next]_vars

(* mainloop and the caller of Put are goroutines that run until they block;  *)
(* a dialer retries until it succeeds, and a server that keeps a connection  *)
(* open keeps reading from it.                                               *)
Fairness ==
    /\ WF_vars(Mainloop)
    /\ WF_vars(Send)
    /\ \A h \in Hosts : WF_vars(\E c \in Conns : Dial(h, c))
    /\ \A c \in Conns : WF_vars(c \in open /\ ServerRead(c))

FairSpec == Spec /\ Fairness

-------------------------------------------------------------------------------
(* Properties.                                                               *)

ArrivedPoints == {arrived[i].point : i \in DOMAIN arrived}

\* The documented delivery guarantee (tsp-aggregator(8): "at-most-once"): no
\* point reaches a server twice, whatever connections fail and are replaced.
AtMostOnce ==
    \A i, j \in DOMAIN arrived : arrived[i].point = arrived[j].point => i = j

\* clientConn.ack may forget Pending because a version response shows that the
\* server has read every put before it: nothing is released unread.
AckSound == acked \subseteq ArrivedPoints

HeldPoints    == Range(held) \ {None}
CurPoints     == {cur} \ {None}
PendingPoints == UNION {Range(pending[c]) : c \in Conns}

\* Points that no connection has carried.
Unsent == suppressed \cup HeldPoints \cup Range(sending) \cup Range(queue) \cup CurPoints

\* A point handed to Put is at any time in exactly one place: no path through
\* send, mainloop, put, ack and error duplicates or mislays it.
Accounted ==
    /\ offered = Unsent \cup PendingPoints \cup acked \cup dropped \cup forgotten
    /\ suppressed \cap (HeldPoints \cup Range(sending) \cup Range(queue) \cup CurPoints) = {}
    /\ HeldPoints \cap (Range(sending) \cup Range(queue) \cup CurPoints) = {}
    /\ Range(sending) \cap (Range(queue) \cup CurPoints) = {}
    /\ Range(queue) \cap CurPoints = {}
    /\ Unsent \cap (PendingPoints \cup acked \cup dropped \cup forgotten) = {}
    /\ PendingPoints \cap (acked \cup dropped \cup forgotten) = {}
    /\ \A c, d \in Conns : c # d => Range(pending[c]) \cap Range(pending[d]) = {}
    /\ acked \cap (dropped \cup forgotten) = {}
    /\ dropped \cap forgotten = {}

\* dialAll, dial and error keep MaxConnsPerHost connections per host up or
\* being dialled: a failed connection is always replaced, and by one dialer.
PoolConserved ==
    offered # {} =>
        \A h \in Hosts :
            dialers[h] + Cardinality({i \in DOMAIN up : addr[up[i]] = h}) = MaxConnsPerHost

\* Points of one series that travel on one connection arrive in time order,
\* held repeats included: queue, mainloop and connection are FIFO.
OrderedPerConn ==
    \A i, j \in DOMAIN arrived :
        /\ i < j
        /\ arrived[i].conn = arrived[j].conn
        /\ SeriesOf[arrived[i].point] = SeriesOf[arrived[j].point]
        => arrived[i].point < arrived[j].point

\* The documented order guarantee (tsp-aggregator(8)): "data points in each
\* time series arrive in strictly monotonic time order (no duplicates)".
OrderGuarantee ==
    \A i, j \in DOMAIN arrived :
        /\ i < j /\ arrived[i].ok /\ arrived[j].ok
        /\ SeriesOf[arrived[i].point] = SeriesOf[arrived[j].point]
        => arrived[i].point < arrived[j].point

\* The documented DropAndLog (tsp-forwarder(8)): points lost to a full queue
\* are logged.
DroppedAreLogged == onQueueFull = "DropAndLog" => dropped \subseteq logged

\* What the client promises its caller, of which this module is one
\* implementation: each point is processed at most once, and never both
\* confirmed and reported lost.
Feed == INSTANCE AtMostOnceFeed
            WITH log <- [i \in DOMAIN arrived |-> arrived[i].point],
                 confirmed <- acked, reported <- dropped

\* Spec implements AtMostOnceFeed.
FeedSpec == Feed!Spec

\* Every point the queue accepted is eventually written to a connection or
\* recorded as lost: mainloop never waits forever once the network settles.
QueueDrains ==
    \A p \in Points :
        p \in Range(queue) ~> (panicked \/ p \notin Range(queue) \cup {cur})

-------------------------------------------------------------------------------
(* The inductive invariant behind AtMostOnce, AckSound, Accounted and        *)
(* FeedSpec.                                                                 *)

\* Nothing is waiting twice, and a held repeat belongs to its series.
CallerInv ==
    /\ \A s \in Series : held[s] # None => SeriesOf[held[s]] = s
    /\ IsInjective(sending)
    /\ IsInjective(queue)

\* mainloop works on pooled connections; only they are open.
PoolInv ==
    /\ IsInjective(up)
    /\ open \subseteq Range(up)
    /\ \A c \in Range(up) : addr[c] # None
    /\ \A c \in Conns : addr[c] = None => wire[c] = <<>> /\ resp[c] = <<>> /\ pending[c] = <<>>
    /\ pc \in {"put", "ack", "read", "error"} => conn \in Range(up)
    /\ (pc \in {"lookup", "put"}) <=> (cur # None)

\* No message but version requests is twice on a wire.
SentOnce(w) == \A i, j \in DOMAIN w : w[i] = w[j] /\ w[i] # Version => i = j

\* A point is on one wire, or has arrived, or neither; never twice.
WireInv ==
    /\ \A c \in Conns : Range(wire[c]) \subseteq (offered \ Unsent) \cup {Version}
    /\ ArrivedPoints \subseteq offered \ Unsent
    /\ \A c \in Conns : Range(wire[c]) \cap ArrivedPoints = {}
    /\ \A c, d \in Conns : c # d => Range(wire[c]) \cap Range(wire[d]) \subseteq {Version}
    /\ \A c \in Conns : SentOnce(wire[c])
    /\ AtMostOnce

\* v is in s at most as its last element.
LastOnly(s, v) == \A i \in DOMAIN s : s[i] = v => i = Len(s)

\* No version request is under way.
Quiet(c) == Version \notin Range(wire[c]) /\ "part2" \notin Range(resp[c])

\* Every unacknowledged point has reached the server or is on its way.
Carried(c) == Range(pending[c]) \subseteq ArrivedPoints \cup Range(wire[c])

\* Nothing follows the version request that mainloop waits for, and until it
\* or its response is lost every pending point is ahead of it.
Awaited(c) ==
    /\ LastOnly(wire[c], Version)
    /\ LastOnly(resp[c], "part2")
    /\ "part2" \in Range(resp[c]) => wire[c] = <<>>
    /\ ~Quiet(c) => Carried(c)

\* The stop-and-wait protocol of ack, version and readVersionResponse.
AckInv ==
    /\ \A c \in Range(up) : pc \notin {"read", "error"} \/ conn # c => Quiet(c)
    /\ \A c \in open : Carried(c)
    /\ pc = "read" => Awaited(conn)
    /\ AckSound

IInv == TypeOK /\ CallerInv /\ PoolInv /\ Accounted /\ WireInv /\ AckInv

-------------------------------------------------------------------------------
(* The invariants behind PoolConserved and OrderedPerConn, on top of IInv.   *)

\* Before the first Put nothing is dialled.
ConserveInv ==
    /\ offered = {} => up = <<>> /\ \A h \in Hosts : dialers[h] = 0
    /\ PoolConserved

\* Points of X are older than points of Y of the same series.
Before(X, Y) == \A x \in X, y \in Y : SeriesOf[x] = SeriesOf[y] => x < y

\* The points in a sequence of messages are in time order within each series.
Sorted(q) ==
    \A i, j \in DOMAIN q :
        i < j /\ q[i] # Version /\ q[j] # Version /\ SeriesOf[q[i]] = SeriesOf[q[j]] => q[i] < q[j]

OnWire(c)    == Range(wire[c]) \ {Version}
ArrivedOn(c) == {arrived[i].point : i \in {k \in DOMAIN arrived : arrived[k].conn = c}}
Waiting      == CurPoints \cup Range(queue) \cup Range(sending)

\* What waits for a connection waits in time order.
CallerOrder ==
    /\ Sorted(sending) /\ Sorted(queue)
    /\ Before(CurPoints, Range(queue))
    /\ Before(CurPoints \cup Range(queue), Range(sending))

\* What arrived over c, what is on its wire and what waits follow each other.
WireOrder(c) ==
    /\ Sorted(wire[c])
    /\ Before(ArrivedOn(c), OnWire(c))
    /\ Before(ArrivedOn(c) \cup OnWire(c), Waiting)

\* A held repeat is the newest point of its series.
HeldNewest ==
    \A s \in Series : held[s] # None =>
        \A q \in offered : SeriesOf[q] = s => q <= held[s]

\* The way of a series from Put to a server is one FIFO.
OrderInv == CallerOrder /\ (\A c \in Conns : WireOrder(c)) /\ HeldNewest /\ OrderedPerConn
===============================================================================
