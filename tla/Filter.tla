-------------------------------- MODULE Filter --------------------------------
(***************************************************************************)
(* The filter: internal/tsdb/filter/filter.go.                             *)
(*                                                                         *)
(* A rule keeps its two arrays as configured, because which arrays are     *)
(* accepted is part of the component.  An element of Match is a record of  *)
(* the text (lit), the number of submatches of the regex it denotes (cap,  *)
(* -1 if it does not parse) and the texts that regex matches (lang).  An   *)
(* element of Set is a record of the text (lit) and the submatch it refers *)
(* to (ref, 0 if none); a text with a reference is not storable itself.    *)
(* A submatch captures the whole text it was applied to.                   *)
(***************************************************************************)
EXTENDS Points

\* Positions of the pairs that follow the head of Match and of Set.
Pairs(array) == {i \in 2..Len(array) : i % 2 = 0}

NoMatch == [lit |-> Empty, cap |-> 0, lang |-> {}]
MatchMetric(r) == IF r.Match = <<>> THEN NoMatch ELSE Head(r.Match)

\* A regex of a tag sees the empty string where the tag is absent.
TagText(p, key) == IF Tag(p, key) = Nil THEN Empty ELSE Tag(p, key)

\* Does the rule match, and the text that its submatches are taken from.
Match(r, p) ==
    /\ MatchMetric(r).lit # Empty => p.metric \in MatchMetric(r).lang
    /\ \A i \in Pairs(r.Match) : TagText(p, r.Match[i].lit) \in r.Match[i+1].lang

Submatch(r, p) ==
    LET tags == {i \in Pairs(r.Match) : r.Match[i+1].cap > 0}
    IN  IF MatchMetric(r).lit # Empty /\ MatchMetric(r).cap > 0
        THEN [cap |-> MatchMetric(r).cap, src |-> p.metric]
        ELSE IF tags # {}
        THEN [cap |-> r.Match[Min(tags)+1].cap, src |-> TagText(p, r.Match[Min(tags)].lit)]
        ELSE [cap |-> 0, src |-> Nil]

\* Without a submatch a template is copied as it stands; a reference beyond
\* the submatches there are expands to nothing.
Expand(sub, e) ==
    IF e.ref = 0 \/ sub.cap = 0 THEN e.lit
    ELSE IF e.ref <= sub.cap THEN sub.src ELSE Empty

Rewrite(r, p) ==
    LET sub == Submatch(r, p)
        q   == IF r.Set # <<>> /\ Head(r.Set).lit # Empty
               THEN SetMetric(p, Expand(sub, Head(r.Set))) ELSE p
        n   == (Len(r.Set) - 1) \div 2
        kv  == [i \in 1..n |-> <<r.Set[2*i].lit, Expand(sub, r.Set[2*i+1])>>]
    IN  IF Failed(q) \/ Len(r.Set) < 2 THEN q ELSE SetTags(q, kv)

\* A rule is tried on the point as the rules before it left it; a matching Block or
\* a failed rewrite ends the evaluation.
EvalRule(acc, r) ==
    IF acc.verdict # "pass" \/ ~Match(r, acc.point) THEN acc
    ELSE IF r.Block THEN [acc EXCEPT !.verdict = "block"]
    ELSE IF Failed(Rewrite(r, acc.point)) THEN [acc EXCEPT !.verdict = "error"]
    ELSE [acc EXCEPT !.point = Rewrite(r, acc.point)]

\* The rules in their order.
Eval(rules, point) ==
    LET after[n \in 0..Len(rules)] ==
            IF n = 0 THEN [verdict |-> "pass", point |-> point]
            ELSE EvalRule(after[n - 1], rules[n])
    IN  after[Len(rules)]

-------------------------------------------------------------------------------
\* A submatch reference is validated against maxCap and against ${9}.
validateSubmatch(ref, maxCap) == ref = 0 \/ ref \in 1..(IF maxCap < 9 THEN maxCap ELSE 9)

\* The number of submatches of the last regex of Match, -1 if there is none.
MaxCap(r) == IF r.Match = <<>> THEN -1 ELSE Last(r.Match).cap

IsNoop(r) ==
    \/ r.Set = <<>>
    \/ Head(r.Set).lit = Empty /\ Len(r.Set) \in {1, 2}
    \/ Head(r.Set).lit = Empty /\ Len(r.Set) = 3 /\ r.Set[3].lit = Empty

validate(r) ==
    LET subs == {i \in DOMAIN r.Match : r.Match[i].cap > 0}
    IN  /\ ~r.Block => ~IsNoop(r)
        /\ r.Block => r.Set = <<>>
        /\ Len(r.Match) > 1 => Len(r.Match) % 2 = 1
        /\ \A i \in DOMAIN r.Match : r.Match[i].cap >= 0
        /\ subs \cap Pairs(r.Match) = {}
        /\ Cardinality(subs) <= 1
        /\ r.Set # <<>> => validateSubmatch(Head(r.Set).ref, MaxCap(r))
        /\ Len(r.Set) > 1 =>
              /\ Len(r.Set) % 2 = 1
              /\ \A i \in Pairs(r.Set) : /\ r.Set[i].ref = 0
                                         /\ validateSubmatch(r.Set[i+1].ref, MaxCap(r))

validateRules(rules) == rules # <<>> /\ \A i \in DOMAIN rules : validate(rules[i])
===============================================================================
