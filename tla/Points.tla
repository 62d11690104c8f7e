-------------------------------- MODULE Points --------------------------------
(***************************************************************************)
(* Data points and their text form: internal/tsdb/tsdb.go and codec.go.    *)
(*                                                                         *)
(* A text is an opaque value.  Empty is the empty string, BadText are the  *)
(* texts that hold a character OpenTSDB does not store.  A line of text is *)
(* given by its fields: what a parser could make of each of them.  Its     *)
(* time counts fractions of a second (PerSecond of them), because lines    *)
(* may carry milliseconds and points do not.  Values are integers.  How    *)
(* long its text is is left open: LineLength.                              *)
(***************************************************************************)
EXTENDS Integers, Sequences, FiniteSets, SequencesExt

CONSTANTS
    Empty,     \* the empty string
    BadText,   \* texts with an invalid character
    BadNumber, \* a field that is not a number, or not a finite one
    Nil,       \* no value
    PerSecond, \* units of a line's time per second
    MaxTags,   \* maxTagsPerPoint
    HalfRange, \* 2^63: integer values are in -HalfRange..HalfRange-1
    HalfTime,  \* the same for times, in units of a line's time
    LineLength(_), \* the length of a line's text
    MaxLine    \* maxLineLength

ASSUME PointsAssumption ==
    /\ PerSecond \in Nat \ {0} /\ MaxTags \in Nat /\ HalfRange \in Nat \ {0}
    /\ HalfTime \in Nat \ {0} /\ MaxLine \in Nat
    /\ Empty \notin BadText /\ Nil \notin BadText
    /\ BadNumber \notin Int

\* What a function returns in place of a point when it fails.
Error == [error |-> TRUE]
Failed(p) == p = Error

validText(s) == s # Empty /\ s \notin BadText

\* The map m after the assignment m[k] = v.
Assigned(m, k, v) == [x \in DOMAIN m \cup {k} |-> IF x = k THEN v ELSE m[x]]

\* A tag is a pair of key and value; the value is Nil when there is no '='.
validTag(kv) == validText(kv[1]) /\ kv[2] # Nil /\ validText(kv[2])

Keys(tags) == {tags[i][1] : i \in DOMAIN tags}

DistinctKeys(tags) == Cardinality(Keys(tags)) = Len(tags)

\* setTags of a line: every tag valid, no key twice, not too many.
setTags(tags) ==
    /\ \A i \in DOMAIN tags : validTag(tags[i])
    /\ DistinctKeys(tags)
    /\ Len(tags) <= MaxTags

Tag(p, key) ==
    LET at == {i \in DOMAIN p.tags : p.tags[i][1] = key}
    IN  IF at = {} THEN Nil ELSE p.tags[Min(at)][2]

SetMetric(p, metric) ==
    IF validText(metric) THEN [p EXCEPT !.metric = metric] ELSE Error

\* Mutant: a tag that is reassigned keeps its old value as well.
SetTagsKeep(p, kv) ==
    IF (\A i \in DOMAIN kv : validTag(kv[i])) THEN [p EXCEPT !.tags = kv \o @] ELSE Error

\* The tags that have none of the keys, in their order.
Without(tags, keys) ==
    LET kept[n \in 0..Len(tags)] ==
            IF n = 0 THEN <<>>
            ELSE IF tags[n][1] \in keys THEN kept[n - 1] ELSE Append(kept[n - 1], tags[n])
    IN  kept[Len(tags)]

\* The new tags come first; old tags keep their place unless reassigned.  The
\* new keys are not compared with each other.
SetTags(p, kv) ==
    LET all == kv \o Without(p.tags, Keys(kv))
    IN  IF (\A i \in DOMAIN kv : validTag(kv[i])) /\ Len(all) <= MaxTags
        THEN [p EXCEPT !.tags = all]
        ELSE Error

\* An integer that overflows.
Wrap(n, half) == ((n + half) % (2 * half)) - half

\* Neither the conversion of a time to nanoseconds nor parseInt checks for overflow.
\* Points have a resolution of one second, maxTimePrecision; a time that was
\* truncated below the range comes out at its other end (in the last second, which
\* is a fraction: it is written without).
parseTime(t) == Wrap((Wrap(t, HalfTime) \div PerSecond) * PerSecond, HalfTime) \div PerSecond

parseValue(v) == Wrap(v, HalfRange)

TooLong(line) == LineLength(line) > MaxLine

\* The point that a line of text denotes.  A time has digits only: no sign.
unmarshalText(line) ==
    IF /\ ~TooLong(line)
       /\ validText(line.metric)
       /\ line.time # BadNumber /\ line.time >= 0 /\ line.value # BadNumber
       /\ setTags(line.tags)
    THEN [metric |-> line.metric, time |-> parseTime(line.time),
          value |-> parseValue(line.value), tags |-> line.tags]
    ELSE Error

\* appendInt negates a negative number first, which does nothing to the
\* smallest one: its digits come out as "-0".
appendInt(n) == IF n = -HalfRange THEN 0 ELSE n

\* The text of a point, as append writes it: whole seconds.
append(p) == [metric |-> p.metric, time |-> p.time * PerSecond,
              value |-> appendInt(p.value), tags |-> p.tags]

NewPoint(time, value, metric, tags) ==
    IF value # BadNumber /\ validText(metric) /\ setTags(tags)
    THEN [metric |-> metric, time |-> parseTime(time * PerSecond), value |-> value, tags |-> tags]
    ELSE Error

\* A series is told by metric and tags, in the order they are written.
appendSeries(p) == <<p.metric, p.tags>>
===============================================================================
