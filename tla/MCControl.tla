------------------------------ MODULE MCControl ------------------------------
(* An instance of Control: three hosts in two clusters, two of which share a *)
(* short name; documents that are valid, that name no aggregator or a        *)
(* subscriber "aggregator", that put the aggregators out of scope, and that  *)
(* are invalid; filter programs that fail or print an invalid rule.          *)
EXTENDS Control

elem(kind, id, path) == [kind |-> kind, id |-> id, path |-> path]
host(id, short, cluster, procs, statse) ==
    [kind |-> "host", id |-> id, short |-> short, path |-> <<"g", cluster, id>>,
     procs |-> procs, statse |-> statse]
agg(interval) == [agg |-> TRUE, interval |-> interval]
sub(id, direct) == [id |-> id, host |-> id \o "-host", direct |-> direct, dedup |-> direct]

MCTree(a, b) ==
    <<elem("group", "g", <<"g">>), elem("cluster", "c1", <<"g", "c1">>),
      host("a.x", "a", "c1", {"p"}, a), host("b.x", "b", "c1", {}, b),
      elem("cluster", "c2", <<"g", "c2">>),
      host("a.y", "a", "c2", {"p"}, [agg |-> FALSE, interval |-> Nil])>>

group(id, targets, queries) == [id |-> id, targets |-> targets, queries |-> queries]

MCGroups == <<group("q1", <<"c1">>, <<"k1", "k2">>), group("q2", <<"p", "a.y">>, <<"k2", "k3">>),
              group("q3", <<"b.x", "c2">>, <<"k1">>)>>

All == {"a.x", "b.x", "a.y", "a", "new"}

Base == [tree |-> MCTree(Nil, agg("5s")), groups |-> MCGroups, other |-> FALSE,
         net |-> [scope |-> All, agg |-> "b.x",
                  subs |-> <<sub("tsdb", TRUE), sub("log", FALSE)>>]]

MCDocuments ==
    {Base,
     [Base EXCEPT !.net.agg = Nil, !.net.subs = <<sub("aggregator", TRUE), sub("log", FALSE)>>],
     [Base EXCEPT !.tree = MCTree(agg(Nil), agg("5s")), !.net.scope = All \ {"a.x"},
                  !.net.subs = <<sub("aggregator", TRUE), sub("new", TRUE)>>],
     [Base EXCEPT !.net.scope = All \ {"b.x"}, !.net.subs[1] = sub("aggregator", TRUE)],
     [Base EXCEPT !.tree = Append(@, host("a.x", "a", "c2", {}, Nil))],
     [Base EXCEPT !.groups = Append(@, group("q4", <<"c1", "a.x">>, <<"k1">>))]}

rule(match, set, block) == [match |-> match, set |-> set, block |-> block]

MCOutputs == {<<>>, <<rule("bad", Nil, TRUE)>>, <<rule("cpu", Nil, TRUE)>>, Nil}

\* A file with a rule of its own, and one with a relay and an interval.
MCFiles == {Nil, Broken,
            [Defaults EXCEPT !.filter = <<rule(Nil, Nil, TRUE)>>],
            [Defaults EXCEPT !.relay = "local" :> [host |-> "spool", dedup |-> FALSE, conns |-> Nil],
                             !.interval = "0s"]}

MCNodes ==
    {[program |-> "tsp-forwarder", host |-> "a.x", controlled |-> TRUE],
     [program |-> "tsp-forwarder", host |-> "a", controlled |-> FALSE],
     [program |-> "tsp-poller", host |-> "a", controlled |-> TRUE],
     [program |-> "tsp-aggregator", host |-> "b.x", controlled |-> TRUE],
     [program |-> "collect-statse", host |-> "b", controlled |-> TRUE]}

budget(d, o, f, n, c, s) ==
    [doc |-> d, output |-> o, file |-> f, names |-> n, ctl |-> c, signal |-> s]

\* The controller's files change, or those of the program.
MCScenarios == {budget(1, 1, 0, 0, 1, 0), budget(0, 1, 1, 0, 0, 1), budget(0, 1, 0, 2, 0, 0)}
=============================================================================
