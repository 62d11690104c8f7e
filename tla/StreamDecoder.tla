---------------------------- MODULE StreamDecoder -----------------------------
(***************************************************************************)
(* The stream decoder of internal/tsdb/decoder.go with its order check: a  *)
(* decoder remembers the time of the last point of each series and accepts *)
(* only points that follow it.  What it remembers is bounded in number and *)
(* forgotten by age.                                                       *)
(*                                                                         *)
(* A decoder is a record of bySeries, a function from the series it knows  *)
(* to times, and the countdown to the next cleanup.                        *)
(***************************************************************************)
EXTENDS Points, Functions

CONSTANTS
    MaxSeries,     \* decoderMaxSeries
    MaxAge,        \* decoderMaxAge, in seconds
    MaxStep,       \* decoderMaxStep, in seconds
    CleanupEveryN  \* decoderCleanupEveryN

ASSUME DecoderAssumption ==
    /\ MaxSeries \in Nat /\ MaxAge \in Nat /\ MaxStep \in Nat
    /\ CleanupEveryN \in Nat \ {0}

NewDecoder == [bySeries |-> <<>>, countdown |-> CleanupEveryN]

\* Mutant: the age is left out.
cleanupEager(d, now) ==
    IF d.countdown > 1
    THEN [d EXCEPT !.countdown = @ - 1]
    ELSE [bySeries |-> Restrict(d.bySeries, {s \in DOMAIN d.bySeries : d.bySeries[s] > now}),
          countdown |-> CleanupEveryN]

\* Every CleanupEveryN points, series are forgotten whose last point is MaxAge
\* old by the wall clock.
cleanup(d, now) ==
    IF d.countdown > 1
    THEN [d EXCEPT !.countdown = @ - 1]
    ELSE [bySeries |-> Restrict(d.bySeries,
                          {s \in DOMAIN d.bySeries : d.bySeries[s] > now - MaxAge}),
          countdown |-> CleanupEveryN]

\* Mutant: the number of series is not limited.
InOrderUnlimited(d, p) ==
    LET s == appendSeries(p) IN s \in DOMAIN d.bySeries => p.time > d.bySeries[s]

\* Does p follow the last point of its series?  A series that is new is
\* accepted at any time, if there is room.
InOrder(d, p) ==
    LET s == appendSeries(p)
    IN  IF s \in DOMAIN d.bySeries
        THEN p.time > d.bySeries[s] /\ p.time - d.bySeries[s] <= MaxStep
        ELSE Cardinality(DOMAIN d.bySeries) # MaxSeries

\* Decode of one line: the decoder afterwards and the point, Error if the line
\* is invalid or out of order.
Decode(d, line, now) ==
    LET p  == unmarshalText(line)
        d1 == cleanup(d, now)
    IN  IF Failed(p) THEN [dec |-> d, point |-> Error]
        ELSE IF ~InOrder(d1, p) THEN [dec |-> d1, point |-> Error]
        ELSE [dec |-> [d1 EXCEPT !.bySeries = Assigned(@, appendSeries(p), p.time)],
              point |-> p]
===============================================================================
