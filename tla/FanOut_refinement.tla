------------------------- MODULE FanOut_refinement -------------------------
(***************************************************************************)
(* The pipeline of FanOut implements the lossy, order-preserving multicast *)
(* of Multicast, for every capacity and every number of events, under the *)
(* refinement mapping delivered <- exported.                               *)
(*                                                                         *)
(* The argument: m.ApiEvents holds the pushed events the fan-out has not   *)
(* yet taken, in order and without gaps; each output queue and each       *)
(* exporter's history is increasing, holds only events the fan-out has     *)
(* counted, and every event still queued is later than every event taken. *)
(* So the head an exporter takes is a produced event later than the last  *)
(* it took: a Deliver step of the multicast.                               *)
(***************************************************************************)
EXTENDS FanOut_proofs

\* s is strictly increasing.
Increasing(s) == \A i, j \in 1..Len(s) : i < j => s[i] < s[j]

\* Every element of s is one of the first n events.
Within(s, n) == \A i \in 1..Len(s) : s[i] \in 1..n

\* m.ApiEvents holds the events after the first inCount, up to produced.
IngestionQueued ==
  /\ produced = inCount + Len(apiEvents)
  /\ \A i \in 1..Len(apiEvents) : apiEvents[i] = inCount + i

\* What each output holds, queued and taken.
OutputOrdered(o) ==
  /\ Increasing(outEvents[o]) /\ Within(outEvents[o], inCount)
  /\ Increasing(exported[o]) /\ Within(exported[o], inCount)
  /\ (exported[o] # <<>> /\ outEvents[o] # <<>>) =>
       exported[o][Len(exported[o])] < outEvents[o][1]

\* The inductive invariant of the refinement.
RInv == TypeOK /\ IngestionQueued /\ \A o \in Outputs : OutputOrdered(o)

(* Appending an event later than the last keeps a sequence increasing,     *)
(* and appending one of the first n events keeps it within them.           *)
LEMMA AppendOrdered ==
  ASSUME NEW s \in Seq(Nat), NEW x \in Nat, NEW n \in Nat,
         Increasing(s), Within(s, n), x \in 1..n,
         s # <<>> => s[Len(s)] < x
  PROVE  /\ Increasing(Append(s, x)) /\ Within(Append(s, x), n)
         /\ Append(s, x)[Len(Append(s, x))] = x
         /\ Append(s, x) # <<>> /\ (s # <<>> => Append(s, x)[1] = s[1])
<1>1. /\ Len(Append(s, x)) = Len(s) + 1
      /\ Append(s, x)[Len(s) + 1] = x
      /\ \A i \in 1..Len(s) : Append(s, x)[i] = s[i]
  BY AppendProperties
<1>2. Increasing(Append(s, x))
  BY <1>1 DEF Increasing
<1>3. Within(Append(s, x), n)
  BY <1>1 DEF Within
<1>4. QED BY <1>1, <1>2, <1>3

(* The tail of an increasing sequence is increasing, within the same       *)
(* events, and starts after its head.                                      *)
LEMMA TailOrdered ==
  ASSUME NEW s \in Seq(Nat), NEW n \in Nat, s # <<>>,
         Increasing(s), Within(s, n)
  PROVE  /\ Increasing(Tail(s)) /\ Within(Tail(s), n)
         /\ Tail(s) # <<>> => s[1] < Tail(s)[1]
         /\ Tail(s) # <<>> => Tail(s)[Len(Tail(s))] = s[Len(s)]
<1>1. /\ Len(Tail(s)) = Len(s) - 1
      /\ \A i \in 1..Len(Tail(s)) : Tail(s)[i] = s[i + 1]
  BY HeadTailProperties
<1>2. Increasing(Tail(s))
  BY <1>1 DEF Increasing
<1>3. Within(Tail(s), n)
  BY <1>1 DEF Within
<1>4. Tail(s) # <<>> => s[1] < Tail(s)[1]
  BY <1>1 DEF Increasing
<1>5. QED BY <1>1, <1>2, <1>3, <1>4

(* The first and the last element of a non-empty sequence within the     *)
(* first n events are among them.                                          *)
LEMMA EndsWithin ==
  ASSUME NEW s \in Seq(Nat), NEW n \in Nat, s # <<>>, Within(s, n)
  PROVE  s[1] \in 1..n /\ s[Len(s)] \in 1..n
<1>1. Len(s) \in Nat \ {0}
  BY EmptySeq
<1>2. QED BY <1>1 DEF Within

(* What lies within the first n events lies within the first n + 1. *)
LEMMA WithinGrows ==
  ASSUME NEW s \in Seq(Nat), NEW n \in Nat, Within(s, n)
  PROVE  Within(s, n + 1)
BY DEF Within

(* The initial state satisfies the invariant: every queue is empty. *)
LEMMA RInvInit == Init => RInv
<1> SUFFICES ASSUME Init PROVE RInv
  OBVIOUS
<1>1. TypeOK
  BY TypeCorrectInit
<1>2. IngestionQueued
  BY DEF Init, IngestionQueued
<1>3. \A o \in Outputs : OutputOrdered(o)
  BY DEF Init, OutputOrdered, Increasing, Within
<1>4. QED BY <1>1, <1>2, <1>3 DEF RInv

(* A push appends the next event to m.ApiEvents. *)
LEMMA RInvReceive == RInv /\ Receive => RInv'
<1> SUFFICES ASSUME RInv, Receive PROVE RInv'
  OBVIOUS
<1>1. TypeOK'
  BY TypeInductive DEF RInv, Next
<1>2. /\ apiEvents' = Append(apiEvents, produced + 1) /\ produced' = produced + 1
      /\ UNCHANGED <<outEvents, inCount, exported>>
  BY DEF Receive
<1>3. /\ apiEvents \in Seq(Event) /\ inCount \in Nat
      /\ produced = inCount + Len(apiEvents)
      /\ \A i \in 1..Len(apiEvents) : apiEvents[i] = inCount + i
  BY DEF RInv, TypeOK, IngestionQueued
<1>4. /\ Len(apiEvents') = Len(apiEvents) + 1
      /\ apiEvents'[Len(apiEvents) + 1] = produced + 1
      /\ \A i \in 1..Len(apiEvents) : apiEvents'[i] = apiEvents[i]
  BY <1>2, <1>3, AppendProperties
<1>5. IngestionQueued'
  BY <1>2, <1>3, <1>4 DEF IngestionQueued
<1>6. \A o \in Outputs : OutputOrdered(o)'
  BY <1>2 DEF RInv, OutputOrdered, Increasing, Within
<1>7. QED BY <1>1, <1>5, <1>6 DEF RInv

(* The fan-out offers the oldest pushed event, inCount + 1, to each output: *)
(* later than everything the outputs hold.                                 *)
LEMMA RInvFanOutEvent == RInv /\ FanOutEvent => RInv'
<1> SUFFICES ASSUME RInv, FanOutEvent PROVE RInv'
  OBVIOUS
<1> DEFINE ev == Head(apiEvents)
<1>1. TypeOK'
  BY TypeInductive DEF RInv, Next
<1>2. /\ apiEvents \in Seq(Event) /\ apiEvents # <<>> /\ inCount \in Nat
      /\ produced = inCount + Len(apiEvents)
      /\ \A i \in 1..Len(apiEvents) : apiEvents[i] = inCount + i
  BY DEF FanOutEvent, RInv, TypeOK, IngestionQueued
<1>3. ev = inCount + 1
  BY <1>2
<1>4. /\ apiEvents' = Tail(apiEvents) /\ inCount' = inCount + 1
      /\ outEvents' = [o \in Outputs |-> TrySend(outEvents[o], ev)]
      /\ UNCHANGED <<produced, exported>>
  BY DEF FanOutEvent
<1>5. IngestionQueued'
  <2>1. /\ Len(Tail(apiEvents)) = Len(apiEvents) - 1
        /\ \A i \in 1..Len(Tail(apiEvents)) : Tail(apiEvents)[i] = apiEvents[i + 1]
    BY <1>2, HeadTailProperties
  <2>2. QED BY <1>2, <1>4, <2>1 DEF IngestionQueued
<1>6. ASSUME NEW o \in Outputs PROVE OutputOrdered(o)'
  <2> DEFINE q == outEvents[o]  x == exported[o]
  <2> USE DEF q, x
  <2>a. q \in Seq(Event) /\ x \in Seq(Event)
    BY DEF RInv, TypeOK
  <2>b. Seq(Event) \subseteq Seq(Nat)
    <3>1. Event \subseteq Nat
      BY DEF Event
    <3>2. QED BY <3>1, SeqMonotonic
  <2>0. q \in Seq(Nat) /\ x \in Seq(Nat)
    BY <2>a, <2>b
  <2>1. /\ q \in Seq(Nat) /\ x \in Seq(Nat)
        /\ Increasing(q) /\ Within(q, inCount)
        /\ Increasing(x) /\ Within(x, inCount)
        /\ (x # <<>> /\ q # <<>>) => x[Len(x)] < q[1]
    BY <2>0 DEF RInv, OutputOrdered
  <2>2. Within(q, inCount + 1) /\ Within(x, inCount + 1)
    BY <1>2, <2>1, WithinGrows
  <2>3. exported'[o] = x
    BY <1>4
  <2>4. CASE Len(q) < OutCap
    <3>1. outEvents'[o] = Append(q, ev)
      BY <1>4, <2>4 DEF TrySend
    <3>2. ASSUME q # <<>> PROVE q[Len(q)] < ev
      <4>1. q[Len(q)] \in 1..inCount
        BY <3>2, <1>2, <2>1, EndsWithin
      <4>2. QED BY <4>1, <1>2, <1>3
    <3>3. /\ Increasing(Append(q, ev)) /\ Within(Append(q, ev), inCount + 1)
          /\ Append(q, ev) # <<>> /\ (q # <<>> => Append(q, ev)[1] = q[1])
      <4>1. ev \in Nat /\ ev \in 1..inCount + 1
        BY <1>2, <1>3
      <4>2. inCount + 1 \in Nat
        BY <1>2
      <4>3. QED BY <2>1, <2>2, <3>2, <4>1, <4>2, AppendOrdered, SMTT(30)
    <3>6. q = <<>> => Append(q, ev)[1] = ev
      BY AppendProperties, <1>2, <1>3, EmptySeq
    <3>4. ASSUME x # <<>> PROVE x[Len(x)] < ev
      <4>1. x[Len(x)] \in 1..inCount
        BY <3>4, <1>2, <2>1, EndsWithin, SMTT(30)
      <4>2. QED BY <4>1, <1>2, <1>3
    <3>5. QED BY <2>1, <2>2, <2>3, <3>1, <3>3, <3>4, <3>6, <1>4 DEF OutputOrdered
  <2>5. CASE ~(Len(q) < OutCap)
    <3>1. outEvents'[o] = q
      BY <1>4, <2>5 DEF TrySend
    <3>2. QED BY <2>1, <2>2, <2>3, <3>1, <1>4 DEF OutputOrdered
  <2>6. QED BY <2>4, <2>5
<1>7. QED BY <1>1, <1>5, <1>6 DEF RInv

(* An exporter takes the head of its queue: the oldest event queued for it, *)
(* later than everything it took before.                                   *)
LEMMA RInvTake ==
  ASSUME NEW o \in Outputs, RInv, Take(o)
  PROVE  RInv'
<1> DEFINE q == outEvents[o]  x == exported[o]
<1> USE DEF q, x
<1>1. TypeOK'
  BY TypeInductive DEF RInv, Next, ExportGrpc, ExportHttp, Outputs
<1>2. /\ exported' = [exported EXCEPT ![o] = Append(x, Head(q))]
      /\ outEvents' = [outEvents EXCEPT ![o] = Tail(q)]
      /\ UNCHANGED <<apiEvents, inCount, produced>>
      /\ q # <<>>
  BY DEF Take
<1>3. IngestionQueued'
  BY <1>2 DEF RInv, IngestionQueued
<1>4. /\ q \in Seq(Nat) /\ x \in Seq(Nat) /\ inCount \in Nat
      /\ Increasing(q) /\ Within(q, inCount)
      /\ Increasing(x) /\ Within(x, inCount)
      /\ (x # <<>> /\ q # <<>>) => x[Len(x)] < q[1]
  <2>1. q \in Seq(Event) /\ x \in Seq(Event) /\ inCount \in Nat
    BY DEF RInv, TypeOK
  <2>2. Seq(Event) \subseteq Seq(Nat)
    <3>1. Event \subseteq Nat
      BY DEF Event
    <3>2. QED BY <3>1, SeqMonotonic
  <2>3. QED BY <2>1, <2>2 DEF RInv, OutputOrdered
<1>5. Head(q) = q[1] /\ q[1] \in 1..inCount
  BY <1>2, <1>4, EndsWithin
<1>6. OutputOrdered(o)'
  <2>1. x # <<>> => x[Len(x)] < q[1]
    BY <1>2, <1>4
  <2>2. /\ Increasing(Append(x, q[1])) /\ Within(Append(x, q[1]), inCount)
        /\ Append(x, q[1])[Len(Append(x, q[1]))] = q[1]
    <3>1. q[1] \in Nat
      BY <1>4, <1>5
    <3>2. QED BY <1>4, <1>5, <2>1, <3>1, AppendOrdered, SMTT(30)
  <2>3. /\ Increasing(Tail(q)) /\ Within(Tail(q), inCount)
        /\ Tail(q) # <<>> => q[1] < Tail(q)[1]
    BY <1>2, <1>4, TailOrdered
  <2>4. /\ exported'[o] = Append(x, q[1])
        /\ outEvents'[o] = Tail(q)
    BY <1>2, <1>5 DEF RInv, TypeOK
  <2>5. QED BY <1>2, <2>2, <2>3, <2>4 DEF OutputOrdered
<1>7. ASSUME NEW p \in Outputs, p # o PROVE OutputOrdered(p)'
  BY <1>2, <1>7 DEF RInv, TypeOK, OutputOrdered
<1>8. QED BY <1>1, <1>3, <1>6, <1>7 DEF RInv

(* Every step of the pipeline preserves the invariant. *)
LEMMA RInvStep == RInv /\ [Next]_vars => RInv'
<1> SUFFICES ASSUME RInv, [Next]_vars PROVE RInv'
  OBVIOUS
<1>1. CASE Receive
  BY <1>1, RInvReceive
<1>2. CASE FanOutEvent
  BY <1>2, RInvFanOutEvent
<1>3. ASSUME NEW o \in Outputs, Take(o) PROVE RInv'
  BY <1>3, RInvTake
<1>4. CASE FanOutStop \/ (\E o \in Outputs : Leave(o)) \/ Cancel \/ UNCHANGED vars
  <2>1. TypeOK'
    BY <1>4, TypeInductive DEF RInv, Next, StopGrpc, StopHttp, Outputs
  <2>2. UNCHANGED <<apiEvents, outEvents, inCount, produced, exported>>
    BY <1>4 DEF FanOutStop, Leave, Cancel, vars
  <2>3. QED BY <2>1, <2>2 DEF RInv, IngestionQueued, OutputOrdered, Increasing, Within
<1>5. QED BY <1>1, <1>2, <1>3, <1>4
          DEF Next, ExportGrpc, ExportHttp, StopGrpc, StopHttp, Outputs

(* Each step of the pipeline is a step of the multicast or leaves the      *)
(* produced events and the exporters' histories alone.                     *)
LEMMA StepRefines == RInv /\ [Next]_vars => [Abstract!Next]_Abstract!vars
<1> SUFFICES ASSUME RInv, [Next]_vars PROVE [Abstract!Next]_Abstract!vars
  OBVIOUS
<1>1. CASE Receive
  <2>1. Abstract!Produce
    BY <1>1 DEF Receive, Abstract!Produce
  <2>2. QED BY <2>1 DEF Abstract!Next
<1>2. ASSUME NEW o \in Outputs, Take(o) PROVE [Abstract!Next]_Abstract!vars
  <2> DEFINE q == outEvents[o]  x == exported[o]
  <2> USE DEF q, x
  <2>1. /\ q \in Seq(Event) /\ q # <<>> /\ inCount \in Nat
        /\ Within(q, inCount) /\ Increasing(x)
        /\ x # <<>> => x[Len(x)] < q[1]
        /\ produced = inCount + Len(apiEvents) /\ Len(apiEvents) \in Nat
    BY <1>2, LenProperties DEF Take, RInv, TypeOK, OutputOrdered, IngestionQueued
  <2>2. q[1] \in 1..produced
    <3>1. Seq(Event) \subseteq Seq(Nat)
      <4>1. Event \subseteq Nat
        BY DEF Event
      <4>2. QED BY <4>1, SeqMonotonic
    <3>2. q[1] \in 1..inCount
      BY <2>1, <3>1, EndsWithin
    <3>3. QED BY <2>1, <3>2
  <2>3. /\ exported' = [exported EXCEPT ![o] = Append(@, q[1])]
        /\ UNCHANGED produced
    BY <1>2, <2>1 DEF Take
  <2>4. Abstract!Deliver(o)
    BY <2>1, <2>2, <2>3 DEF Abstract!Deliver
  <2>5. QED BY <2>4 DEF Abstract!Next
<1>3. CASE FanOutEvent \/ FanOutStop \/ (\E o \in Outputs : Leave(o)) \/ Cancel
           \/ UNCHANGED vars
  BY <1>3 DEF FanOutEvent, FanOutStop, Leave, Cancel, vars, Abstract!vars
<1>4. QED BY <1>1, <1>2, <1>3
          DEF Next, ExportGrpc, ExportHttp, StopGrpc, StopHttp, Outputs

(* The pipeline implements the lossy, order-preserving multicast for every *)
(* capacity of the queues and every number of events: each exporter of     *)
(* Manager.run takes every event at most once, in the order the receivers  *)
(* pushed them, and only events that were pushed.                          *)
THEOREM Refinement == Spec => MulticastRefined
<1>1. Init => Abstract!Init
  BY DEF Init, Abstract!Init
<1>2. Spec => []RInv
  BY RInvInit, RInvStep, PTL DEF Spec
<1>3. QED BY <1>1, <1>2, StepRefines, PTL DEF Spec, MulticastRefined, Abstract!Spec
=============================================================================
