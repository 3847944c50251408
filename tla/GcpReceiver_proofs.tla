------------------------- MODULE GcpReceiver_proofs -------------------------
(***************************************************************************)
(* Proofs about the Pub/Sub receiver (GcpReceiver) for every number of     *)
(* messages, callback slots, queue capacity and lease expiries: the type   *)
(* invariant, and that an ack never overtakes the push it follows.         *)
(***************************************************************************)
EXTENDS GcpReceiver, SequenceTheorems, TLAPS

\* A running callback holds a message of the subscription.
HeldMsgs == \A s \in Slots : cb[s].pc # "idle" => cb[s].m \in Msgs

\* The type invariant is inductive only together with HeldMsgs: Ack adds
\* the callback's message to acked, Push appends it to m.ApiEvents.
TInv == TypeOK /\ HeldMsgs

\* A callback about to ack a parseable message has pushed its event.
AckReady == \A s \in Slots : (cb[s].pc = "ack" /\ cb[s].m \notin Bad) => cb[s].m \in PushedSet

\* The inductive invariant behind AckedImpliesPushed.
IInv == TInv /\ AckReady /\ AckedImpliesPushed

(* Appending to the history adds exactly the appended element to the set   *)
(* of pushed events.                                                       *)
LEMMA RangeAppend ==
  ASSUME NEW S, NEW p \in Seq(S), NEW x \in S
  PROVE  {Append(p, x)[i] : i \in 1..Len(Append(p, x))}
           = {p[i] : i \in 1..Len(p)} \cup {x}
<1>1. Len(Append(p, x)) = Len(p) + 1 /\ Append(p, x)[Len(p) + 1] = x
      /\ \A i \in 1..Len(p) : Append(p, x)[i] = p[i]
  BY AppendProperties
<1>2. QED BY <1>1

(* The initial states satisfy the strengthened type invariant. *)
LEMMA TInvInit == Init => TInv
<1> SUFFICES ASSUME Init PROVE TInv
  OBVIOUS
<1>1. <<>> \in Seq(Msgs)
  BY EmptySeq
<1>2. cb \in [Slots -> [m : Msgs \cup {0}, pc : PCs]]
  BY DEF Init, Idle, PCs
<1>3. started \in BOOLEAN /\ returned \in BOOLEAN /\ cancelled \in BOOLEAN /\ fanout \in BOOLEAN
  BY Zenon DEF Init
<1>4. QED BY <1>1, <1>2, <1>3, GcpAssumption DEF Init, TInv, TypeOK, HeldMsgs, Idle, Msgs

(* Every step of the receiver preserves the strengthened type invariant. *)
LEMMA TInvStep == TInv /\ [Next]_vars => TInv'
<1> SUFFICES ASSUME TInv, [Next]_vars PROVE TInv'
  OBVIOUS
<1> USE GcpAssumption DEF TInv, TypeOK, HeldMsgs
<1>1. ASSUME NEW s \in Slots, Deliver(s) PROVE TInv'
  BY <1>1 DEF Deliver, PCs
<1>2. ASSUME NEW s \in Slots, Parse(s) PROVE TInv'
  BY <1>2 DEF Parse, PCs
<1>3. ASSUME NEW s \in Slots, Push(s) PROVE TInv'
  <2>1. cb[s].m \in Msgs
    BY <1>3 DEF Push
  <2>2. Append(apiEvents, cb[s].m) \in Seq(Msgs) /\ Append(pushed, cb[s].m) \in Seq(Msgs)
        /\ Len(Append(apiEvents, cb[s].m)) = Len(apiEvents) + 1
    BY <2>1, AppendProperties
  <2>3. QED BY <1>3, <2>2, SMTT(30) DEF Push, PCs
<1>4. ASSUME NEW s \in Slots, Ack(s) PROVE TInv'
  BY <1>4 DEF Ack, Idle, PCs
<1>5. ASSUME NEW s \in Slots, LeaseExpires(s) PROVE TInv'
  BY <1>5 DEF LeaseExpires
<1>6. CASE FanOutTake
  <2>1. apiEvents # <<>> /\ apiEvents' = Tail(apiEvents)
    BY <1>6 DEF FanOutTake
  <2>2. Tail(apiEvents) \in Seq(Msgs) /\ Len(Tail(apiEvents)) = Len(apiEvents) - 1
    BY <2>1, HeadTailProperties
  <2>3. QED BY <1>6, <2>1, <2>2 DEF FanOutTake
<1>7. CASE FanOutStop
  BY <1>7 DEF FanOutStop
<1>8. CASE Cancel
  BY <1>8 DEF Cancel
<1>9. CASE Return
  BY <1>9 DEF Return
<1>10. CASE UNCHANGED vars
  BY <1>10 DEF vars
<1>11. QED BY <1>1, <1>2, <1>3, <1>4, <1>5, <1>6, <1>7, <1>8, <1>9, <1>10 DEF Next

(* Type correctness of the receiver: every callback holds a message of the *)
(* subscription or none, and m.ApiEvents never holds more than its         *)
(* capacity, however the callbacks, the fan-out and lease expiries         *)
(* interleave.                                                             *)
THEOREM TypeCorrect == Spec => []TypeOK
<1>1. Init => TInv
  BY TInvInit
<1>2. TInv => TypeOK
  BY DEF TInv
<1>3. QED BY <1>1, <1>2, TInvStep, PTL DEF Spec

(* Pushing only adds to the set of pushed events. *)
LEMMA PushedGrows ==
  ASSUME TInv, NEW s \in Slots, Push(s)
  PROVE  PushedSet' = PushedSet \cup {cb[s].m}
<1>1. cb[s].m \in Msgs /\ pushed \in Seq(Msgs)
  BY DEF Push, TInv, TypeOK, HeldMsgs
<1>2. pushed' = Append(pushed, cb[s].m)
  BY DEF Push
<1>3. QED BY <1>1, <1>2, RangeAppend DEF PushedSet

(* Every step preserves the inductive invariant. *)
LEMMA IInvStep == IInv /\ [Next]_vars => IInv'
<1> SUFFICES ASSUME IInv, [Next]_vars PROVE IInv'
  OBVIOUS
<1>0. TInv'
  BY TInvStep DEF IInv
<1> USE DEF IInv
<1>1. ASSUME NEW s \in Slots, Deliver(s) PROVE IInv'
  <2>1. PICK msg \in pending : cb' = [cb EXCEPT ![s] = [m |-> msg, pc |-> "parse"]]
    BY <1>1 DEF Deliver
  <2>2. UNCHANGED <<pushed, acked>>
    BY <1>1 DEF Deliver
  <2>3. AckReady'
    BY <2>1, <2>2 DEF AckReady, PushedSet, TInv, TypeOK
  <2>4. AckedImpliesPushed'
    BY <2>2 DEF AckedImpliesPushed, PushedSet
  <2>5. QED BY <1>0, <2>3, <2>4
<1>2. ASSUME NEW s \in Slots, Parse(s) PROVE IInv'
  <2>1. cb' = [cb EXCEPT ![s].pc = IF cb[s].m \in Bad THEN "ack" ELSE "push"]
        /\ UNCHANGED <<pushed, acked>>
    BY <1>2 DEF Parse
  <2>2. AckReady'
    BY <2>1 DEF AckReady, PushedSet, TInv, TypeOK
  <2>3. AckedImpliesPushed'
    BY <2>1 DEF AckedImpliesPushed, PushedSet
  <2>4. QED BY <1>0, <2>2, <2>3
<1>3. ASSUME NEW s \in Slots, Push(s) PROVE IInv'
  <2>1. PushedSet' = PushedSet \cup {cb[s].m}
    BY <1>3, PushedGrows DEF IInv
  <2>2. cb' = [cb EXCEPT ![s].pc = "ack"] /\ UNCHANGED acked
    BY <1>3 DEF Push
  <2>3. AckReady'
    BY <2>1, <2>2 DEF AckReady, TInv, TypeOK
  <2>4. AckedImpliesPushed'
    BY <2>1, <2>2 DEF AckedImpliesPushed
  <2>5. QED BY <1>0, <2>3, <2>4
<1>4. ASSUME NEW s \in Slots, Ack(s) PROVE IInv'
  <2>1. cb' = [cb EXCEPT ![s] = Idle] /\ acked' = acked \cup {cb[s].m}
        /\ UNCHANGED pushed
    BY <1>4 DEF Ack
  <2>2. cb[s].pc = "ack"
    BY <1>4 DEF Ack
  <2>3. cb[s].m \in Bad \/ cb[s].m \in PushedSet
    BY <2>2 DEF AckReady
  <2>4. AckReady'
    BY <2>1 DEF AckReady, PushedSet, Idle, TInv, TypeOK
  <2>5. AckedImpliesPushed'
    BY <2>1, <2>3 DEF AckedImpliesPushed, PushedSet
  <2>6. QED BY <1>0, <2>4, <2>5
<1>5. ASSUME NEW s \in Slots, LeaseExpires(s) PROVE IInv'
  BY <1>0, <1>5 DEF LeaseExpires, AckReady, AckedImpliesPushed, PushedSet
<1>6. CASE FanOutTake
  BY <1>0, <1>6 DEF FanOutTake, AckReady, AckedImpliesPushed, PushedSet
<1>7. CASE FanOutStop
  BY <1>0, <1>7 DEF FanOutStop, AckReady, AckedImpliesPushed, PushedSet
<1>8. CASE Cancel
  BY <1>0, <1>8 DEF Cancel, AckReady, AckedImpliesPushed, PushedSet
<1>9. CASE Return
  BY <1>0, <1>9 DEF Return, AckReady, AckedImpliesPushed, PushedSet
<1>10. CASE UNCHANGED vars
  BY <1>0, <1>10 DEF vars, AckReady, AckedImpliesPushed, PushedSet
<1>11. QED BY <1>1, <1>2, <1>3, <1>4, <1>5, <1>6, <1>7, <1>8, <1>9, <1>10 DEF Next

(* An ack never overtakes the push it follows, for every number of         *)
(* messages, callbacks and lease expiries: every message the callback of   *)
(* sub.Receive has acked was unparseable or has its event in the history   *)
(* of m.ApiEvents.                                                         *)
THEOREM AckAfterPush == Spec => []AckedImpliesPushed
<1>1. Init => IInv
  <2> SUFFICES ASSUME Init PROVE IInv
    OBVIOUS
  <2>1. TInv
    BY TInvInit
  <2>2. AckReady /\ AckedImpliesPushed
    BY DEF Init, AckReady, AckedImpliesPushed, Idle
  <2>3. QED BY <2>1, <2>2 DEF IInv
<1>2. IInv => AckedImpliesPushed
  BY DEF IInv
<1>3. QED BY <1>1, <1>2, IInvStep, PTL DEF Spec
=============================================================================
