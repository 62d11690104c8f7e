----------------------------- MODULE MCTSDBClient -----------------------------
(* Small instances of TSDBClient for TLC. *)
EXTENDS TSDBClient

MCPoints     == 1..3
MCSeries     == {"a", "b"}
MCSeriesOf   == <<"a", "a", "a">>
MCSeriesOf2  == <<"a", "b", "a">>
MCSeriesHash == [s \in MCSeries |-> IF s = "a" THEN 3 ELSE 2]

\* Nothing tells connections apart, nor hosts.
MCSymmetry == Permutations(Conns) \cup Permutations(Hosts)
===============================================================================
