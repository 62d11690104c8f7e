------------------------------ MODULE MCNetscaler -----------------------------
(***************************************************************************)
(* An instance of Netscaler for TLC: two collectors, two jobs and fewer    *)
(* connections than callers.                                               *)
(***************************************************************************)
EXTENDS Netscaler

S(cycles, traffic, seconds, rebinds, reads, expiries, fails) ==
    [cycles |-> cycles, traffic |-> traffic, seconds |-> seconds, rebinds |-> rebinds,
     reads |-> reads, expiries |-> expiries, faults |-> fails]

\* Sessions expire and requests fail; a server is active, idle and active again
\* while its bindings change.
MCScenarios == {S(1, 1, 0, 0, 1, 2, 1), S(2, 2, 1, 1, 2, 0, 0)}
MCCollectorSeq == <<"lbvserver", "service">>
MCLists == <<{"a", "b"}, {"b", "c"}>>
===============================================================================
