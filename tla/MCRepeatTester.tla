---------------------------- MODULE MCRepeatTester ----------------------------
(***************************************************************************)
(* Instances of RepeatTester for TLC.                                      *)
(***************************************************************************)
EXTENDS RepeatTester, TLC

CONSTANTS s1, s2, v1, v2

MCSymmetry == Permutations(Series) \cup Permutations(Values)
===============================================================================
