------------------------------ MODULE MCPipeline ------------------------------
(***************************************************************************)
(* An instance of Pipeline for TLC: a forwarder with two relays, one of    *)
(* them an aggregator, and small limits everywhere.                        *)
(***************************************************************************)
EXTENDS Pipeline

L(metric, time, value) ==
    [metric |-> metric, time |-> time, value |-> value, tags |-> <<>>]

\* Series a: the time of the start, a time with a fraction of a second and a
\* value that overflows, a time that overflows (the others are then too far
\* ahead of it); another series; an invalid line.
MCLines == {L("a", 6, 1), L("a", 9, 2), L("a", 16, 0), L("b", 6, 0), L("", 6, 0)}

\* Texts are short, but for one value of a tag.
MCLineLength(line) == IF \E i \in DOMAIN line.tags : line.tags[i][2] = "long" THEN 2 ELSE 1

Lit(t) == [lit |-> t, cap |-> 0, lang |-> {}]
Re(t, lang, cap) == [lit |-> t, cap |-> cap, lang |-> lang]
To(t) == [lit |-> t, ref |-> 0]
Sub == [lit |-> "${1}", ref |-> 1]

\* A default host and a blocked metric.
Default == << [Match |-> <<Lit(""), Lit("host"), Re("^$", {""}, 0)>>,
               Set |-> <<To(""), To("host"), To("h")>>, Block |-> FALSE],
              [Match |-> <<Re("b", {"b"}, 0)>>, Set |-> <<>>, Block |-> TRUE] >>

\* A metric that becomes a tag; a submatch that is empty, which is an error.
Submatches == << [Match |-> <<Re("(a)", {"a"}, 1)>>,
                  Set |-> <<To("c"), To("host"), Sub>>, Block |-> FALSE],
                 [Match |-> <<Lit(""), Lit("host"), Re("(.*)", {"", "a"}, 1)>>,
                  Set |-> <<To(""), To("host"), Sub, To("rack"), Sub>>, Block |-> FALSE] >>

\* A Set that assigns one tag twice.
Twice == << [Match |-> <<>>, Set |-> <<To(""), To("k"), To("v"), To("k"), To("u")>>,
             Block |-> FALSE] >>

\* A Set that makes lines too long.
Long == << [Match |-> <<>>, Set |-> <<To(""), To("k"), To("long")>>, Block |-> FALSE] >>

S(set, lines, restarts, seconds, backwards, ticks) ==
    [rules |-> set,
     bound |-> [lines |-> lines, restarts |-> restarts, seconds |-> seconds,
                back |-> backwards, ticks |-> ticks]]

\* Plugins that age, idle and restart; ticks against the wall clock; the
\* exporter against the broadcast; the other rules.
MCScenarios == {S(Default, 2, 0, 2, 0, 0), S(Default, 2, 1, 1, 0, 0), S(Default, 1, 1, 2, 0, 0),
                S(Default, 0, 0, 1, 1, 3),
                S(Default, 2, 0, 0, 0, 1), S(Submatches, 2, 0, 0, 0, 1), S(Twice, 2, 0, 0, 0, 0),
                S(Long, 1, 0, 0, 0, 0)}
MCRelaySeq == <<"x", "y">>
===============================================================================
