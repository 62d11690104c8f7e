------------------------------ MODULE MCStatse ------------------------------
(* An instance of Statse: two forwarders; applications that send both        *)
(* versions of messages, with and without tags, with an error, with a        *)
(* statistic given twice, with a host of their own, with invalid tags, and   *)
(* for a blocked metric.                                                     *)
EXTENDS Statse

m(ver, metric, tags, stats, error, bad) ==
    [ver |-> ver, metric |-> metric, tags |-> tags, stats |-> stats, error |-> error, bad |-> bad]

OpGet == {<<"op", "get">>}

MCMessages ==
    {m(1, "a", {}, <<<<"time", 2>>>>, FALSE, FALSE),
     m(1, "a", OpGet, <<<<"time", 1>>, <<"time", 3>>>>, FALSE, FALSE),
     m(2, "a", OpGet, <<<<"time", 3>>, <<"size", 1>>>>, FALSE, FALSE),
     m(2, "a", {<<"host", "x">>}, <<>>, TRUE, FALSE),
     m(2, "a", OpGet, <<>>, FALSE, TRUE),
     m(2, "b", OpGet, <<<<"time", 1>>>>, FALSE, FALSE),
     m(2, "c", OpGet, <<<<"time", 1>>>>, FALSE, FALSE)}

\* Many messages at once, with a broken connection, or over a longer time.
MCScenarios == {[messages |-> 3, breaks |-> 0, seconds |-> 3],
                [messages |-> 2, breaks |-> 1, seconds |-> 2],
                [messages |-> 2, breaks |-> 0, seconds |-> 5]}

MCHostSymmetry == Permutations(Hosts)

MCBlocked == {"b"}
MCNoHost == {"c"}
=============================================================================
