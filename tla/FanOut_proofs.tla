--------------------------- MODULE FanOut_proofs ---------------------------
(***************************************************************************)
(* Proofs about the fan-out stage (FanOut), for every capacity of the      *)
(* queues and every number of events: the type invariant, which includes   *)
(* that no queue ever holds more than its capacity, and the drop           *)
(* accounting of fanOutAPIEvents.                                          *)
(***************************************************************************)
EXTENDS FanOut, SequenceTheorems, TLAPS

(* The non-blocking send of the fan-out keeps an output queue within its   *)
(* capacity, and the event it offers ends up either appended or counted:   *)
(* the queue length and the drop counter grow by one between them.         *)
LEMMA NonBlockingSend ==
  ASSUME NEW q \in Seq(Event), NEW ev \in Event, NEW n \in Nat,
         Len(q) <= OutCap
  PROVE  /\ TrySend(q, ev) \in Seq(Event)
         /\ Len(TrySend(q, ev)) <= OutCap
         /\ CountDrop(q, n) \in Nat
         /\ CountDrop(q, n) + Len(TrySend(q, ev)) = n + Len(q) + 1
<1>1. CASE Len(q) < OutCap
  BY <1>1, CapAssumption DEF TrySend, CountDrop
<1>2. CASE ~(Len(q) < OutCap)
  BY <1>2, CapAssumption DEF TrySend, CountDrop
<1>3. QED BY <1>1, <1>2

(* Every step of the pipeline preserves the type invariant. *)
LEMMA TypeInductive == TypeOK /\ [Next]_vars => TypeOK'
  <2> SUFFICES ASSUME TypeOK, [Next]_vars PROVE TypeOK'
    OBVIOUS
  <2>1. CASE Receive
    BY <2>1, CapAssumption DEF Receive, TypeOK, Event
  <2>2. CASE FanOutEvent
    <3> DEFINE ev == Head(apiEvents)
    <3>1. ev \in Event
      BY <2>2 DEF FanOutEvent, TypeOK
    <3>2. \A o \in Outputs :
            /\ TrySend(outEvents[o], ev) \in Seq(Event)
            /\ Len(TrySend(outEvents[o], ev)) <= OutCap
            /\ CountDrop(outEvents[o], dropped[o]) \in Nat
      BY <3>1, NonBlockingSend DEF TypeOK
    <3>3. Tail(apiEvents) \in Seq(Event) /\ Len(Tail(apiEvents)) <= ApiCap
      <4>1. apiEvents \in Seq(Event) /\ apiEvents # <<>>
        BY <2>2 DEF FanOutEvent, TypeOK
      <4>2. Tail(apiEvents) \in Seq(Event) /\ Len(Tail(apiEvents)) = Len(apiEvents) - 1
        BY <4>1, HeadTailProperties
      <4>3. QED BY <4>2, CapAssumption DEF TypeOK
    <3>4. QED BY <2>2, <3>2, <3>3 DEF FanOutEvent, TypeOK
  <2>3. CASE FanOutStop
    BY <2>3 DEF FanOutStop, TypeOK
  <2>4. ASSUME NEW o \in Outputs, Take(o) PROVE TypeOK'
    <3>0. outEvents[o] \in Seq(Event) /\ outEvents[o] # <<>>
      BY <2>4 DEF Take, TypeOK
    <3>1. /\ Head(outEvents[o]) \in Event
          /\ Tail(outEvents[o]) \in Seq(Event)
          /\ Len(Tail(outEvents[o])) = Len(outEvents[o]) - 1
      BY <3>0, HeadTailProperties
    <3>2. Append(exported[o], Head(outEvents[o])) \in Seq(Event)
      BY <3>1, AppendProperties DEF TypeOK
    <3>3. outEvents' \in [Outputs -> Seq(Event)]
          /\ \A p \in Outputs : Len(outEvents'[p]) <= OutCap
      BY <2>4, <3>1, CapAssumption DEF Take, TypeOK
    <3>4. exported' \in [Outputs -> Seq(Event)]
      BY <2>4, <3>2 DEF Take, TypeOK
    <3>5. QED BY <2>4, <3>3, <3>4 DEF Take, TypeOK
  <2>5. ASSUME NEW o \in Outputs, Leave(o) PROVE TypeOK'
    BY <2>5 DEF Leave, TypeOK, Tasks
  <2>6. CASE Cancel
    BY <2>6 DEF Cancel, TypeOK
  <2>7. CASE UNCHANGED vars
    BY <2>7 DEF vars, TypeOK
  <2>8. QED
    BY <2>1, <2>2, <2>3, <2>4, <2>5, <2>6, <2>7
    DEF Next, ExportGrpc, ExportHttp, StopGrpc, StopHttp, Outputs

(* The initial state of Manager.run is well typed. *)
LEMMA TypeCorrectInit == Init => TypeOK
<1> SUFFICES ASSUME Init PROVE TypeOK
  OBVIOUS
<1>2. running \in [Tasks -> BOOLEAN]
  <2>1. PICK httpEnabled \in BOOLEAN :
          running = [t \in Tasks |-> t # "http" \/ httpEnabled]
    BY DEF Init
  <2>2. QED BY <2>1
<1>3. <<>> \in Seq(Event)
  BY EmptySeq
<1>4. /\ outEvents \in [Outputs -> Seq(Event)]
      /\ exported \in [Outputs -> Seq(Event)]
      /\ \A o \in Outputs : Len(outEvents[o]) <= OutCap
  BY <1>3, CapAssumption DEF Init
<1>5. inCount = 0 /\ produced = 0
  BY DEF Init
<1>12. cancelled \in BOOLEAN
  BY Zenon DEF Init
<1>11. apiEvents = <<>>
  BY DEF Init
<1>10. dropped = [o \in Outputs |-> 0]
  BY DEF Init
<1>6. apiEvents \in Seq(Event) /\ Len(apiEvents) <= ApiCap
  BY <1>3, <1>11, CapAssumption
<1>7. dropped \in [Outputs -> Nat]
  BY <1>10
<1>8. inCount \in Nat /\ produced \in 0..MaxEvents
  BY <1>5, CapAssumption
<1>9. QED BY <1>2, <1>4, <1>6, <1>7, <1>8, <1>12 DEF TypeOK

(* Type correctness of the pipeline: every queue holds events of the run   *)
(* and stays within its capacity, whatever the receivers, the fan-out and  *)
(* the exporters do.                                                       *)
THEOREM TypeCorrect == Spec => []TypeOK
<1>1. Init => TypeOK
  BY TypeCorrectInit
<1>2. QED BY <1>1, TypeInductive, PTL DEF Spec

(* The inductive invariant behind the drop accounting: the type invariant  *)
(* and the accounting itself.  The accounting needs the type invariant     *)
(* because the fan-out step's effect on a counter depends on whether the   *)
(* queue was within its capacity.                                          *)
IInv == TypeOK /\ DropAccounting

(* Drop accounting for every capacity and every number of events: each     *)
(* event stats.inCount counts is, for each output, either in that output's *)
(* drop counter, in its queue, or taken by its exporter.                   *)
THEOREM DropAccountingHolds == Spec => []DropAccounting
<1>1. Init => IInv
  <2> SUFFICES ASSUME Init PROVE IInv
    OBVIOUS
  <2>1. TypeOK
    BY TypeCorrectInit
  <2>2. DropAccounting
    BY DEF Init, DropAccounting
  <2>3. QED BY <2>1, <2>2 DEF IInv
<1>2. IInv /\ [Next]_vars => IInv'
  <2> SUFFICES ASSUME IInv, [Next]_vars PROVE IInv'
    OBVIOUS
  <2>0. TypeOK'
    BY TypeInductive DEF IInv
  <2>1. CASE Receive
    BY <2>0, <2>1 DEF Receive, IInv, DropAccounting
  <2>2. CASE FanOutEvent
    <3> DEFINE ev == Head(apiEvents)
    <3>1. ev \in Event
      BY <2>2 DEF FanOutEvent, IInv, TypeOK
    <3>2. ASSUME NEW o \in Outputs
          PROVE  dropped'[o] + Len(outEvents'[o]) + Len(exported'[o]) = inCount'
      <4>1. CountDrop(outEvents[o], dropped[o]) + Len(TrySend(outEvents[o], ev))
              = dropped[o] + Len(outEvents[o]) + 1
        BY <3>1, NonBlockingSend DEF IInv, TypeOK
      <4>2. QED BY <2>2, <4>1 DEF FanOutEvent, IInv, TypeOK, DropAccounting
    <3>3. QED BY <2>0, <3>2 DEF IInv, DropAccounting
  <2>3. CASE FanOutStop
    BY <2>0, <2>3 DEF FanOutStop, IInv, DropAccounting
  <2>4. ASSUME NEW o \in Outputs, Take(o) PROVE IInv'
    <3>1. ASSUME NEW p \in Outputs
          PROVE  dropped'[p] + Len(outEvents'[p]) + Len(exported'[p]) = inCount'
      <4>0. /\ outEvents[o] \in Seq(Event) /\ outEvents[o] # <<>>
            /\ exported[o] \in Seq(Event)
        BY <2>4 DEF Take, IInv, TypeOK
      <4>1. /\ Len(Tail(outEvents[o])) = Len(outEvents[o]) - 1
            /\ Len(Append(exported[o], Head(outEvents[o]))) = Len(exported[o]) + 1
        BY <4>0, HeadTailProperties, AppendProperties
      <4>2. CASE p = o
        <5>1. /\ outEvents'[o] = Tail(outEvents[o])
              /\ exported'[o] = Append(exported[o], Head(outEvents[o]))
              /\ dropped' = dropped /\ inCount' = inCount
          BY <2>4 DEF Take, IInv, TypeOK
        <5>2. dropped[o] + Len(outEvents[o]) + Len(exported[o]) = inCount
          BY DEF IInv, DropAccounting
        <5>3. /\ Len(outEvents'[o]) = Len(outEvents[o]) - 1
              /\ Len(exported'[o]) = Len(exported[o]) + 1
              /\ dropped'[o] = dropped[o]
              /\ inCount' = inCount
          BY <4>1, <5>1
        <5>4. /\ dropped[o] \in Nat
              /\ Len(outEvents[o]) \in Nat
              /\ Len(exported[o]) \in Nat
              /\ Len(outEvents'[o]) \in Nat
              /\ Len(exported'[o]) \in Nat
              /\ inCount \in Nat
              /\ dropped'[o] \in Nat
              /\ inCount' \in Nat
          BY <4>0, <2>0, SMTT(30) DEF IInv, TypeOK
        <5>5. dropped'[o] + Len(outEvents'[o]) + Len(exported'[o]) = inCount'
          BY SMTT(60), <5>2, <5>3, <5>4
        <5>6. QED BY <4>2, <5>5
      <4>3. CASE p # o
        BY <2>4, <4>3 DEF Take, IInv, TypeOK, DropAccounting
      <4>4. QED BY <4>2, <4>3
    <3>2. QED BY <2>0, <3>1 DEF IInv, DropAccounting
  <2>5. ASSUME NEW o \in Outputs, Leave(o) PROVE IInv'
    BY <2>0, <2>5 DEF Leave, IInv, DropAccounting
  <2>6. CASE Cancel
    BY <2>0, <2>6 DEF Cancel, IInv, DropAccounting
  <2>7. CASE UNCHANGED vars
    BY <2>0, <2>7 DEF vars, IInv, DropAccounting
  <2>8. QED
    BY <2>1, <2>2, <2>3, <2>4, <2>5, <2>6, <2>7
    DEF Next, ExportGrpc, ExportHttp, StopGrpc, StopHttp, Outputs
<1>3. IInv => DropAccounting
  BY DEF IInv
<1>4. QED BY <1>1, <1>2, <1>3, PTL DEF Spec
=============================================================================
