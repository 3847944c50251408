----------------------------- MODULE GcpReceiver -----------------------------
(***************************************************************************)
(* The Pub/Sub receiver (receiver/other/gcp/gcp.go): Start, the callback   *)
(* sub.Receive runs for each message (processMessage, then msg.Ack), and   *)
(* around it what it talks to: the subscription, which leases messages to  *)
(* callbacks and delivers a message again when its lease runs out, the     *)
(* ingestion queue m.ApiEvents with the fan-out that drains it, and the    *)
(* cancellation of the receiver's context.                                 *)
(*                                                                         *)
(* Messages are numbered in publication order; the subscription hands out  *)
(* the oldest message it holds.  sub.Receive runs up to                    *)
(* MaxOutstandingMessages callbacks at once: the slots.                    *)
(***************************************************************************)
EXTENDS Naturals, Sequences, FiniteSets

CONSTANTS
  NumMsgs,          \* messages published on the subscription
  Bad,              \* the messages whose data json.Unmarshal rejects
  Outstanding,      \* ReceiveSettings.MaxOutstandingMessages (100 in the code)
  ApiCap,           \* capacity of m.ApiEvents
  MaxRedeliveries   \* how many lease expiries a behaviour may contain

Msgs == 1..NumMsgs
Slots == 1..Outstanding

ASSUME GcpAssumption ==
  /\ NumMsgs \in Nat /\ Bad \subseteq Msgs
  /\ Outstanding \in Nat \ {0} /\ ApiCap \in Nat \ {0}
  /\ MaxRedeliveries \in Nat

\* Where a callback is: not running, in processMessage before or at the
\* push onto m.ApiEvents, or about to call msg.Ack.
PCs == {"idle", "parse", "push", "ack"}

VARIABLES
  started,      \* Start passed its checks and sits in sub.Receive
  returned,     \* Start has returned
  pending,      \* messages the subscription holds for delivery
  cb,           \* cb[s]: the message and place of the callback in slot s
  apiEvents,    \* m.ApiEvents
  pushed,       \* every event pushed onto m.ApiEvents, in order
  acked,        \* messages the receiver has acknowledged
  redelivered,  \* lease expiries so far
  cancelled,    \* the receiver's context is done
  fanout        \* the fan-out goroutine is still in its loop

vars == <<started, returned, pending, cb, apiEvents, pushed, acked,
          redelivered, cancelled, fanout>>

Idle == [m |-> 0, pc |-> "idle"]

\* Start: a missing GCP section, project or subscription, or a failing
\* pubsub.NewClient, returns at once; otherwise Start blocks in sub.Receive.
Init ==
  /\ started \in BOOLEAN
  /\ returned = ~started
  /\ pending = Msgs
  /\ cb = [s \in Slots |-> Idle]
  /\ apiEvents = <<>>
  /\ pushed = <<>>
  /\ acked = {}
  /\ redelivered = 0
  /\ cancelled = FALSE
  /\ fanout = TRUE

\* sub.Receive hands the oldest message it holds to a free callback slot;
\* it stops handing out messages once ctx is done.
Deliver(s) ==
  /\ started /\ ~cancelled
  /\ cb[s].pc = "idle"
  /\ \E msg \in pending :
       /\ \A y \in pending : msg <= y
       /\ pending' = pending \ {msg}
       /\ cb' = [cb EXCEPT ![s] = [m |-> msg, pc |-> "parse"]]
  /\ UNCHANGED <<started, returned, apiEvents, pushed, acked, redelivered,
                 cancelled, fanout>>

\* Fault model: the unmarshal error check inverted (err == nil returns).
ParseInvertedCheck(s) ==
  /\ cb[s].pc = "parse"
  /\ cb' = [cb EXCEPT ![s].pc = IF cb[s].m \in Bad THEN "push" ELSE "ack"]
  /\ UNCHANGED <<started, returned, pending, apiEvents, pushed, acked,
                 redelivered, cancelled, fanout>>

\* processMessage up to the push: an entry json.Unmarshal rejects is logged
\* and processMessage returns, so the callback goes on to msg.Ack.
Parse(s) ==
  /\ cb[s].pc = "parse"
  /\ cb' = [cb EXCEPT ![s].pc = IF cb[s].m \in Bad THEN "ack" ELSE "push"]
  /\ UNCHANGED <<started, returned, pending, apiEvents, pushed, acked,
                 redelivered, cancelled, fanout>>

\* Fault model: a send that does not wait for room in m.ApiEvents.
PushUnbounded(s) ==
  /\ cb[s].pc = "push"
  /\ apiEvents' = Append(apiEvents, cb[s].m)
  /\ pushed' = Append(pushed, cb[s].m)
  /\ cb' = [cb EXCEPT ![s].pc = "ack"]
  /\ UNCHANGED <<started, returned, pending, acked, redelivered, cancelled, fanout>>

\* apiEvents <- apiEvent: blocks until m.ApiEvents has room, whether or
\* not ctx is done.
Push(s) ==
  /\ cb[s].pc = "push"
  /\ Len(apiEvents) < ApiCap
  /\ apiEvents' = Append(apiEvents, cb[s].m)
  /\ pushed' = Append(pushed, cb[s].m)
  /\ cb' = [cb EXCEPT ![s].pc = "ack"]
  /\ UNCHANGED <<started, returned, pending, acked, redelivered, cancelled, fanout>>

\* Fault model: the callback returns without msg.Ack().
AckForgotten(s) ==
  /\ cb[s].pc = "ack"
  /\ cb' = [cb EXCEPT ![s] = Idle]
  /\ UNCHANGED <<started, returned, pending, apiEvents, pushed, acked,
                 redelivered, cancelled, fanout>>

\* msg.Ack() after processMessage returns, then the callback ends.
Ack(s) ==
  /\ cb[s].pc = "ack"
  /\ acked' = acked \cup {cb[s].m}
  /\ cb' = [cb EXCEPT ![s] = Idle]
  /\ UNCHANGED <<started, returned, pending, apiEvents, pushed, redelivered,
                 cancelled, fanout>>

\* The lease of a message held by a callback runs out before it is acked
\* (the client extends it only up to MaxExtension): the subscription will
\* deliver it again, while the callback still runs.
LeaseExpires(s) ==
  /\ cb[s].pc # "idle"
  /\ cb[s].m \notin acked
  /\ redelivered < MaxRedeliveries
  /\ pending' = pending \cup {cb[s].m}
  /\ redelivered' = redelivered + 1
  /\ UNCHANGED <<started, returned, cb, apiEvents, pushed, acked, cancelled, fanout>>

\* The fan-out takes an event (its case ev := <-in).
FanOutTake ==
  /\ fanout
  /\ apiEvents # <<>>
  /\ apiEvents' = Tail(apiEvents)
  /\ UNCHANGED <<started, returned, pending, cb, pushed, acked, redelivered,
                 cancelled, fanout>>

\* The fan-out sees ctx.Done and returns.
FanOutStop ==
  /\ fanout /\ cancelled
  /\ fanout' = FALSE
  /\ UNCHANGED <<started, returned, pending, cb, apiEvents, pushed, acked,
                 redelivered, cancelled>>

\* Shutdown or reload cancels the context.
Cancel ==
  /\ ~cancelled
  /\ cancelled' = TRUE
  /\ UNCHANGED <<started, returned, pending, cb, apiEvents, pushed, acked,
                 redelivered, fanout>>

\* sub.Receive returns once ctx is done and every callback has returned;
\* then Start logs and returns.
Return ==
  /\ started /\ ~returned /\ cancelled
  /\ \A s \in Slots : cb[s].pc = "idle"
  /\ returned' = TRUE
  /\ UNCHANGED <<started, pending, cb, apiEvents, pushed, acked, redelivered,
                 cancelled, fanout>>

Next ==
  \/ \E s \in Slots : Deliver(s) \/ Parse(s) \/ Push(s) \/ Ack(s) \/ LeaseExpires(s)
  \/ FanOutTake \/ FanOutStop \/ Cancel \/ Return

\* The subscription keeps delivering, callbacks and the fan-out are
\* goroutines the runtime schedules, and Receive returns when it can.
\* Lease expiry and cancellation are the environment's and need not happen.
Fairness ==
  /\ \A s \in Slots : WF_vars(Deliver(s)) /\ WF_vars(Parse(s))
                      /\ WF_vars(Push(s)) /\ WF_vars(Ack(s))
  /\ WF_vars(FanOutTake) /\ WF_vars(FanOutStop) /\ WF_vars(Return)

Spec == Init /\ [][Next]_vars /\ Fairness

-----------------------------------------------------------------------------
(* Every variable has its type, and m.ApiEvents never holds more than its  *)
(* capacity.                                                               *)
TypeOK ==
  /\ started \in BOOLEAN /\ returned \in BOOLEAN
  /\ pending \subseteq Msgs
  /\ cb \in [Slots -> [m : Msgs \cup {0}, pc : PCs]]
  /\ apiEvents \in Seq(Msgs) /\ Len(apiEvents) <= ApiCap
  /\ pushed \in Seq(Msgs)
  /\ acked \subseteq Msgs
  /\ redelivered \in 0..MaxRedeliveries
  /\ cancelled \in BOOLEAN /\ fanout \in BOOLEAN

\* The messages whose event has reached m.ApiEvents.
PushedSet == {pushed[i] : i \in 1..Len(pushed)}

(* The callback acknowledges a message only after processMessage has      *)
(* handled it: an acked message was either unparseable or its event was   *)
(* pushed onto m.ApiEvents, so an ack never loses an event, whatever the  *)
(* interleaving of callbacks and lease expiries.                           *)
AckedImpliesPushed == \A msg \in acked : msg \in Bad \/ msg \in PushedSet

(* While the receiver runs, every published message is eventually acked:  *)
(* the blocking push waits for the fan-out, never for ever.               *)
AllMessagesAcked == <>(cancelled \/ ~started \/ Msgs \subseteq acked)

(* Cancellation (spec 5): once the receiver's context is done, Start       *)
(* eventually returns.                                                     *)
ShutdownReturns == cancelled ~> returned
=============================================================================
