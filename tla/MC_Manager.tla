----------------------------- MODULE MC_Manager -----------------------------
(* A TLC instance of Manager: three receiver lists and two config changes, *)
(* so that a reload can replace a reconciler by another one, drop it, or   *)
(* hit the receiver receiver.Init does not know after starting one.        *)
EXTENDS Manager

MC_Configs == {<<Gateway>>, <<Gateway, NginxInc>>, <<"nginx-webserver">>, <<Gateway, Kong>>}
MC_MaxChanges == 2
=============================================================================
