---------------------------- MODULE AtMostOnceFeed ----------------------------
(***************************************************************************)
(* What a relay client promises its caller, with no queue, connection or   *)
(* acknowledgement in sight.  Points are offered one at a time.  A point   *)
(* that was offered may be processed by a server, once; it may be          *)
(* confirmed, if it was processed; or it may be reported lost, whether or  *)
(* not it was processed, since at-most-once delivery cannot know.  A point *)
(* is never both confirmed and reported lost.                              *)
(***************************************************************************)
EXTENDS Naturals, Sequences, Functions

CONSTANT Points

VARIABLES
    offered,    \* points given to the client
    log,        \* points processed by the servers, in order
    confirmed,  \* points the client knows to be processed
    reported    \* points the client reported lost

feedVars == <<offered, log, confirmed, reported>>

FeedInit == offered = {} /\ log = <<>> /\ confirmed = {} /\ reported = {}

OfferPoint(p) ==
    /\ p \notin offered
    /\ offered' = offered \cup {p}
    /\ UNCHANGED <<log, confirmed, reported>>

Process(p) ==
    /\ p \in offered \ Range(log)
    /\ log' = Append(log, p)
    /\ UNCHANGED <<offered, confirmed, reported>>

Confirm(S) ==
    /\ S \subseteq Range(log) \ reported
    /\ confirmed' = confirmed \cup S
    /\ UNCHANGED <<offered, log, reported>>

Report(S) ==
    /\ S \subseteq offered \ confirmed
    /\ reported' = reported \cup S
    /\ UNCHANGED <<offered, log, confirmed>>

FeedNext ==
    \/ \E p \in Points : OfferPoint(p) \/ Process(p)
    \/ \E S \in SUBSET Points : Confirm(S) \/ Report(S)

Spec == FeedInit /\ [][FeedNext]_feedVars
===============================================================================
