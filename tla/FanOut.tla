------------------------------- MODULE FanOut -------------------------------
(***************************************************************************)
(* The event pipeline of SentryFlow between the receivers and the sinks:   *)
(* the ingestion queue m.ApiEvents, the fan-out goroutine fanOutAPIEvents, *)
(* the two output queues m.GrpcEvents and m.HttpEvents, and the run loops  *)
(* of the gRPC and HTTP exporters that drain them (core/sentryflow.go,     *)
(* exporter/httpexporter.go).                                              *)
(*                                                                         *)
(* A Go buffered channel is a sequence with a capacity: a send appends and *)
(* is enabled only while the sequence is shorter than the capacity, a      *)
(* receive takes the head.  The non-blocking sends of the fan-out are      *)
(* "select { case out <- ev: default: drop++ }": the event is appended     *)
(* when there is room and counted as dropped otherwise.                    *)
(***************************************************************************)
EXTENDS Naturals, Sequences

CONSTANTS
  ApiCap,     \* capacity of m.ApiEvents (10240 in the code)
  OutCap,     \* capacity of m.GrpcEvents and of m.HttpEvents (10240)
  MaxEvents   \* how many events the receivers push in one behaviour

ASSUME CapAssumption ==
  /\ ApiCap \in Nat \ {0}
  /\ OutCap \in Nat \ {0}
  /\ MaxEvents \in Nat

\* The two outputs the fan-out replicates to, in the order it sends.
Outputs == {"grpc", "http"}

\* The goroutines of this part: the fan-out and one run loop per exporter.
Tasks == {"fanout"} \cup Outputs

\* Event k is the k-th event a receiver pushed onto m.ApiEvents.
Event == 1..MaxEvents

VARIABLES
  apiEvents,  \* contents of m.ApiEvents
  outEvents,  \* outEvents[o]: contents of m.GrpcEvents / m.HttpEvents
  inCount,    \* stats.inCount
  dropped,    \* dropped[o]: stats.grpcDrop / stats.httpDrop
  produced,   \* how many events the receivers have pushed so far
  exported,   \* exported[o]: the events exporter o has taken (history)
  cancelled,  \* m.Ctx is done
  running     \* running[t]: goroutine t is still in its loop

vars == <<apiEvents, outEvents, inCount, dropped, produced, exported,
          cancelled, running>>

-----------------------------------------------------------------------------
(* Channels, stats and goroutines as Manager.run creates them.  The HTTP   *)
(* exporter goroutine exists only when cfg.Exporter.HTTP.Enabled; when it  *)
(* is disabled nothing ever drains m.HttpEvents.                           *)
Init ==
  /\ apiEvents = <<>>
  /\ outEvents = [o \in Outputs |-> <<>>]
  /\ inCount = 0
  /\ dropped = [o \in Outputs |-> 0]
  /\ produced = 0
  /\ exported = [o \in Outputs |-> <<>>]
  /\ cancelled = FALSE
  /\ \E httpEnabled \in BOOLEAN :
       running = [t \in Tasks |-> t # "http" \/ httpEnabled]

\* A receiver pushes its next event; the send blocks while the queue is full.
Receive ==
  /\ produced < MaxEvents
  /\ Len(apiEvents) < ApiCap
  /\ apiEvents' = Append(apiEvents, produced + 1)
  /\ produced' = produced + 1
  /\ UNCHANGED <<outEvents, inCount, dropped, exported, cancelled, running>>

\* Fault model: a send that ignores the capacity of the queue.
TrySendUnbounded(q, ev) == Append(q, ev)

\* The non-blocking send of ev on an output queue q: sent when there is room.
TrySend(q, ev) == IF Len(q) < OutCap THEN Append(q, ev) ELSE q

\* Fault model: the default branch forgets atomic.AddUint64 on the counter.
CountDropForgotten(q, n) == n

\* The drop counter n of an output whose queue is q after a non-blocking send.
CountDrop(q, n) == IF Len(q) < OutCap THEN n ELSE n + 1

\* Fault model: blocking sends "grpcOut <- ev; httpOut <- ev" instead of the
\* selects with a default branch: the fan-out waits until every output has
\* room.
FanOutEventBlocking ==
  /\ running["fanout"]
  /\ apiEvents # <<>>
  /\ \A o \in Outputs : Len(outEvents[o]) < OutCap
  /\ LET ev == Head(apiEvents) IN
       /\ apiEvents' = Tail(apiEvents)
       /\ inCount' = inCount + 1
       /\ outEvents' = [o \in Outputs |-> Append(outEvents[o], ev)]
  /\ UNCHANGED <<dropped, produced, exported, cancelled, running>>

\* fanOutAPIEvents receives one event, counts it and offers it to every
\* output without blocking.
FanOutEvent ==
  /\ running["fanout"]
  /\ apiEvents # <<>>
  /\ LET ev == Head(apiEvents) IN
       /\ apiEvents' = Tail(apiEvents)
       /\ inCount' = inCount + 1
       /\ outEvents' = [o \in Outputs |-> TrySend(outEvents[o], ev)]
       /\ dropped' = [o \in Outputs |-> CountDrop(outEvents[o], dropped[o])]
  /\ UNCHANGED <<produced, exported, cancelled, running>>

\* fanOutAPIEvents sees ctx.Done and returns; what is still queued is lost.
FanOutStop ==
  /\ running["fanout"]
  /\ cancelled
  /\ running' = [running EXCEPT !["fanout"] = FALSE]
  /\ UNCHANGED <<apiEvents, outEvents, inCount, dropped, produced, exported,
                 cancelled>>

\* Fault model: the exporter reads the head of its queue without taking it.
TakeKeepsHead(o) ==
  /\ running[o]
  /\ outEvents[o] # <<>>
  /\ exported' = [exported EXCEPT ![o] = Append(@, Head(outEvents[o]))]
  /\ UNCHANGED <<apiEvents, outEvents, inCount, dropped, produced, cancelled, running>>

\* Exporter o takes the head of its queue and hands it on.
Take(o) ==
  /\ running[o]
  /\ outEvents[o] # <<>>
  /\ exported' = [exported EXCEPT ![o] = Append(@, Head(outEvents[o]))]
  /\ outEvents' = [outEvents EXCEPT ![o] = Tail(@)]
  /\ UNCHANGED <<apiEvents, inCount, dropped, produced, cancelled, running>>

\* Exporter o sees ctx.Done and leaves its loop.
Leave(o) ==
  /\ running[o]
  /\ cancelled
  /\ running' = [running EXCEPT ![o] = FALSE]
  /\ UNCHANGED <<apiEvents, outEvents, inCount, dropped, produced, exported,
                 cancelled>>

\* The gRPC exporter broadcasts the event to its subscribers.
ExportGrpc == Take("grpc")

\* The HTTP exporter's run loop receives the event and dispatches it.
ExportHttp == Take("http")

\* The gRPC exporter stops on cancellation.
StopGrpc == Leave("grpc")

\* Fault model: a loop "for ev := range e.events { if ctx.Err() != nil
\* { return } ... }" notices the cancellation only with the next event.
StopHttpAfterReceive ==
  /\ running["http"]
  /\ cancelled
  /\ outEvents["http"] # <<>>
  /\ outEvents' = [outEvents EXCEPT !["http"] = Tail(@)]
  /\ running' = [running EXCEPT !["http"] = FALSE]
  /\ UNCHANGED <<apiEvents, inCount, dropped, produced, exported, cancelled>>

\* The HTTP exporter's run loop returns on ctx.Done.
StopHttp == Leave("http")

\* The signal handler goroutine receives SIGINT/SIGTERM and cancels m.Ctx.
Cancel ==
  /\ ~cancelled
  /\ cancelled' = TRUE
  /\ UNCHANGED <<apiEvents, outEvents, inCount, dropped, produced, exported,
                 running>>

Next ==
  \/ Receive
  \/ FanOutEvent
  \/ FanOutStop
  \/ ExportGrpc
  \/ ExportHttp
  \/ StopGrpc
  \/ StopHttp
  \/ Cancel

(***************************************************************************)
(* Fairness.  The fan-out goroutine and the exporters' reaction to         *)
(* ctx.Done are weakly fair: the Go scheduler runs every runnable          *)
(* goroutine and a select with a permanently ready case picks it with      *)
(* probability one.  Nothing is assumed about how fast the exporters       *)
(* drain their queues (a webhook may be arbitrarily slow, a gRPC client    *)
(* may never read), nor about the receivers or the signal.                 *)
(***************************************************************************)
Fairness ==
  /\ WF_vars(FanOutEvent)
  /\ WF_vars(FanOutStop)
  /\ WF_vars(StopGrpc)
  /\ WF_vars(StopHttp)

Spec == Init /\ [][Next]_vars /\ Fairness

-----------------------------------------------------------------------------
(* Every variable has its type; every queue stays within its capacity.     *)
TypeOK ==
  /\ apiEvents \in Seq(Event)
  /\ Len(apiEvents) <= ApiCap
  /\ outEvents \in [Outputs -> Seq(Event)]
  /\ \A o \in Outputs : Len(outEvents[o]) <= OutCap
  /\ inCount \in Nat
  /\ dropped \in [Outputs -> Nat]
  /\ produced \in 0..MaxEvents
  /\ exported \in [Outputs -> Seq(Event)]
  /\ cancelled \in BOOLEAN
  /\ running \in [Tasks -> BOOLEAN]

(* Drop accounting (fanOutAPIEvents): for each output, every event the     *)
(* fan-out counted in stats.inCount is exactly once either counted in that *)
(* output's drop counter, still in its queue, or taken by its exporter,    *)
(* whatever the other output did with it.                                  *)
DropAccounting ==
  \A o \in Outputs :
    dropped[o] + Len(outEvents[o]) + Len(exported[o]) = inCount

(* The fan-out never stalls on a slow consumer (fanOutAPIEvents'           *)
(* non-blocking sends): every event that reaches m.ApiEvents is eventually *)
(* taken by the fan-out unless the fan-out has stopped on cancellation,    *)
(* even when an exporter never drains its queue.                           *)
IngestionNeverStalls ==
  \A e \in Event :
    (produced >= e) ~> (inCount >= e \/ ~running["fanout"])

(* Shutdown reaches every goroutine of the pipeline: once m.Ctx is         *)
(* cancelled, the fan-out and both exporter loops eventually return, which *)
(* Manager.run's m.Wg.Wait() needs before it closes the channels.          *)
ShutdownStopsPipeline ==
  cancelled ~> (\A t \in Tasks : ~running[t])
-----------------------------------------------------------------------------
\* The pipeline seen through the abstract multicast: the events the
\* receivers produced, and what each exporter has taken.
Abstract == INSTANCE Multicast WITH delivered <- exported

(* The pipeline implements the lossy, order-preserving multicast of spec   *)
(* 4.2 and 4.3: each exporter takes every event at most once, in the order *)
(* the receivers pushed them, and only events that were pushed, however    *)
(* the fan-out's non-blocking sends drop and the goroutines interleave.    *)
MulticastRefined == Abstract!Spec
=============================================================================
