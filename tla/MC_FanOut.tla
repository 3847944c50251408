----------------------------- MODULE MC_FanOut -----------------------------
(* Model-checking instance of FanOut: queues of two slots and five events, *)
(* so that both output queues can fill, overflow and drain in one run.     *)
EXTENDS FanOut

MC_ApiCap == 2
MC_OutCap == 2
MC_MaxEvents == 5
=============================================================================
