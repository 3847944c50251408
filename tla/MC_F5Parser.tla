----------------------------- MODULE MC_F5Parser -----------------------------
(* The parser over every record and variant of F5Parser.  TLC's integers   *)
(* are 32-bit, so uint64 is scaled to 2^30: every value a well-formed line *)
(* yields (times up to 3, latencies up to 2 * 10^6 ns) is far below it, and *)
(* a negative latency still wraps to a large unsigned value.               *)
EXTENDS F5Parser

MC_Mod64 == 2^30
=============================================================================
