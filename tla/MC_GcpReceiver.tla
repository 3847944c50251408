---------------------------- MODULE MC_GcpReceiver ----------------------------
(* Three messages, one of them unparseable, two callbacks at once, an      *)
(* ingestion queue of one slot: enough for two callbacks to race to the    *)
(* push, for one to block on a full queue, and for a lease to expire under *)
(* a running callback.                                                     *)
EXTENDS GcpReceiver

MC_NumMsgs == 3
MC_Bad == {2}
MC_Outstanding == 2
MC_ApiCap == 1
MC_MaxRedeliveries == 1
=============================================================================
