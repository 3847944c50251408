------------------------------- MODULE MC_Config -------------------------------
(* Config files with up to two receiver entries in all, so that the loops *)
(* of validate reach a second entry after a first valid one.              *)
EXTENDS Config

MC_MaxEntries == 2
=============================================================================
