----------------------------- MODULE MCPluginPool -----------------------------
(***************************************************************************)
(* Instances of PluginPool for TLC.                                        *)
(***************************************************************************)
EXTENDS PluginPool
===============================================================================
