------------------------------ MODULE Multicast ------------------------------
(***************************************************************************)
(* What the event pipeline promises its sinks (spec 4.2, 4.3): every event *)
(* the receivers produce is offered to each output; an output may lose     *)
(* events (its queue is full, or the process stops), but what it receives  *)
(* it receives once, in the order the events were produced, and never an  *)
(* event that was not produced.  A lossy, order-preserving multicast.      *)
(***************************************************************************)
EXTENDS Naturals, Sequences

CONSTANTS
  Outputs,    \* the sinks
  MaxEvents   \* how many events are produced in one behaviour

VARIABLES
  produced,   \* events 1..produced have been produced
  delivered   \* delivered[o]: the events output o has received, in order

vars == <<produced, delivered>>

Init ==
  /\ produced = 0
  /\ delivered = [o \in Outputs |-> <<>>]

\* The next event is produced.
Produce ==
  /\ produced < MaxEvents
  /\ produced' = produced + 1
  /\ UNCHANGED delivered

\* Output o receives a produced event later than the last it received; the
\* events in between are lost to o.
Deliver(o) ==
  /\ \E e \in 1..produced :
       /\ delivered[o] = <<>> \/ delivered[o][Len(delivered[o])] < e
       /\ delivered' = [delivered EXCEPT ![o] = Append(@, e)]
  /\ UNCHANGED produced

Next == Produce \/ \E o \in Outputs : Deliver(o)

Spec == Init /\ [][Next]_vars
=============================================================================
