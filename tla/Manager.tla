------------------------------ MODULE Manager ------------------------------
(***************************************************************************)
(* The orchestrator of SentryFlow (core/sentryflow.go): Manager.run's      *)
(* start-up, its main loop that either reloads the receivers on a config   *)
(* change or drains on a termination signal, the viper config watcher that *)
(* sends on the unbuffered m.configChan, the signal handlers, and the      *)
(* receiver goroutines that receiver.Init starts, one set per generation   *)
(* of m.receiversCtx.  The istio-gateway receiver is the mesh-extension    *)
(* reconciler: it creates the fixed-name resource when it starts and       *)
(* deletes it when its context is cancelled.                               *)
(*                                                                         *)
(* The fan-out, the exporters and the servers are each one flag here; the  *)
(* FanOut module models what they do with events.                          *)
(***************************************************************************)
EXTENDS Naturals, Sequences

CONSTANTS
  Configs,     \* the receiver lists a config file can hold, in Init's order
  MaxChanges   \* how many times the config file changes in one behaviour

\* The receiver names of util (util.ServiceMeshIstioGateway, ...).
Gateway  == "istio-gateway"
Sidecar  == "istio-sidecar"
NginxInc == "nginx-inc-ingress-controller"
Kong     == "kong-gateway"
LogOnly  == {"nginx-webserver", "azure-apim", "aws-api-gateway"}

\* Receivers that receiver.Init runs as a goroutine under the WaitGroup.
Spawned == {Gateway, Sidecar, NginxInc}

Names == Spawned \cup LogOnly \cup {Kong}

ASSUME ConfigsAssumption ==
  /\ Configs \subseteq Seq(Names)
  /\ Configs # {}
  /\ MaxChanges \in Nat

\* One generation of m.receiversCtx for the start and for each reload.
Gens == 1..(MaxChanges + 1)

\* A receiver goroutine is named by its generation and its config position.
Slots == 1..2

\* States of a receiver goroutine.
RStates == {"absent", "start", "up", "stopped"}

\* States of Manager.run; the last four end the process.
MainStates == {"init", "running", "draining", "done", "panicked", "failed", "killed"}
Dead == {"done", "panicked", "failed", "killed"}

VARIABLES
  main,          \* where Manager.run is
  gen,           \* the current generation (m.receiversCtx); 0 before Init
  cfgOf,         \* cfgOf[g]: the receiver list generation g was started with
  rstate,        \* rstate[g][i]: receiver goroutine i of generation g
  genCancelled,  \* genCancelled[g]: the receiversCtx of generation g is done
  rootCancelled, \* m.Ctx is done
  plugin,        \* the mesh-extension resource exists in the cluster
  workers,       \* the fan-out and exporter goroutines are still running
  servers,       \* the filter HTTP server and the gRPC server
  watcher,       \* the OnConfigChange callback: "idle" or "sending"
  pending,       \* the config the callback is sending on m.configChan
  changes        \* how many times the config file changed

vars == <<main, gen, cfgOf, rstate, genCancelled, rootCancelled, plugin,
          workers, servers, watcher, pending, changes>>

-----------------------------------------------------------------------------
(* Helpers translated from the code.                                       *)

\* areK8sReceivers: a service mesh, the nginx-inc ingress or Kong needs a client.
NeedsK8s(c) == \E i \in 1..Len(c) : c[i] \in {Gateway, Sidecar, NginxInc, Kong}

\* receiver.Init returns an error at the first name its switches do not know.
Supported(n) == n \in Spawned \cup LogOnly

\* The position of the first unsupported receiver, or Len(c) + 1.
FirstUnsupported(c) ==
  IF \E i \in 1..Len(c) : ~Supported(c[i])
  THEN CHOOSE i \in 1..Len(c) : ~Supported(c[i]) /\ \A j \in 1..(i - 1) : Supported(c[j])
  ELSE Len(c) + 1

\* The goroutines receiver.Init has started when it returns.
StartedBy(c) == {i \in 1..(FirstUnsupported(c) - 1) : c[i] \in Spawned}

InitFails(c) == FirstUnsupported(c) <= Len(c)

\* The receivers of generation g as receiver.Init leaves them.
Launch(c) == [i \in Slots |-> IF i \in StartedBy(c) THEN "start" ELSE "absent"]

Alive == main \notin Dead

\* Every goroutine of the WaitGroup has returned.
AllReceiversExited ==
  \A g \in Gens, i \in Slots : rstate[g][i] \in {"absent", "stopped"}

-----------------------------------------------------------------------------
Init ==
  /\ main = "init"
  /\ gen = 0
  /\ cfgOf = [g \in Gens |-> <<>>]
  /\ rstate = [g \in Gens |-> [i \in Slots |-> "absent"]]
  /\ genCancelled = [g \in Gens |-> FALSE]
  /\ rootCancelled = FALSE
  /\ plugin = FALSE
  /\ workers = FALSE
  /\ servers = "off"
  /\ watcher = "idle"
  /\ pending = <<>>
  /\ changes = 0

\* Manager.run from the channels to the main loop, with its early returns:
\* the k8s client, receiver.Init and the exporters may fail, and run returns.
StartUp ==
  /\ main = "init"
  /\ \E c \in Configs :
       \/ /\ NeedsK8s(c)
          /\ main' = "failed"
          /\ UNCHANGED <<gen, cfgOf, rstate, servers, workers>>
       \/ /\ gen' = 1
          /\ cfgOf' = [cfgOf EXCEPT ![1] = c]
          /\ rstate' = [rstate EXCEPT ![1] = Launch(c)]
          /\ servers' = "up"
          /\ IF InitFails(c)
               THEN main' = "failed" /\ UNCHANGED workers
               ELSE /\ workers' = TRUE
                    /\ main' \in {"running", "failed"}
  /\ UNCHANGED <<genCancelled, rootCancelled, plugin, watcher, pending, changes>>

\* Fault model: the callback lacks the return after config.New fails and
\* sends the nil config it got (a list no receiver name of util matches).
ConfigChangeSendsOnError ==
  /\ Alive
  /\ watcher = "idle"
  /\ changes < MaxChanges
  /\ changes' = changes + 1
  /\ watcher' = "sending"
  /\ pending' = <<"nil">>
  /\ UNCHANGED <<main, gen, cfgOf, rstate, genCancelled, rootCancelled,
                 plugin, workers, servers>>

\* The config file changes; viper runs the callback, which parses the file
\* and, when it is valid, blocks on the unbuffered m.configChan.
ConfigChange ==
  /\ Alive
  /\ watcher = "idle"
  /\ changes < MaxChanges
  /\ changes' = changes + 1
  /\ \/ UNCHANGED <<watcher, pending>>
     \/ \E c \in Configs : watcher' = "sending" /\ pending' = c
  /\ UNCHANGED <<main, gen, cfgOf, rstate, genCancelled, rootCancelled,
                 plugin, workers, servers>>

\* Fault model: the reload forgets m.receiversCancelFunc() of the old scope.
ReloadKeepOld ==
  /\ main = "running"
  /\ watcher = "sending"
  /\ watcher' = "idle"
  /\ pending' = <<>>
  /\ \/ /\ NeedsK8s(pending)
        /\ main' = "failed"
        /\ UNCHANGED <<gen, cfgOf, rstate>>
     \/ /\ gen' = gen + 1
        /\ cfgOf' = [cfgOf EXCEPT ![gen + 1] = pending]
        /\ rstate' = [rstate EXCEPT ![gen + 1] = Launch(pending)]
        /\ main' = IF InitFails(pending) THEN "failed" ELSE "running"
  /\ UNCHANGED <<genCancelled, rootCancelled, plugin, workers, servers, changes>>

\* The main loop receives the new config: it cancels the current receivers,
\* may need a new k8s client, and starts the new set under a fresh scope,
\* without waiting for the old receivers to return.
Reload ==
  /\ main = "running"
  /\ watcher = "sending"
  /\ watcher' = "idle"
  /\ pending' = <<>>
  /\ genCancelled' = [genCancelled EXCEPT ![gen] = TRUE]
  /\ \/ /\ NeedsK8s(pending)
        /\ main' = "failed"
        /\ UNCHANGED <<gen, cfgOf, rstate>>
     \/ /\ gen' = gen + 1
        /\ cfgOf' = [cfgOf EXCEPT ![gen + 1] = pending]
        /\ rstate' = [rstate EXCEPT ![gen + 1] = Launch(pending)]
        /\ main' = IF InitFails(pending) THEN "failed" ELSE "running"
  /\ UNCHANGED <<rootCancelled, plugin, workers, servers, changes>>

\* Fault model: the drain forgets m.receiversCancelFunc() and relies on
\* the signal alone to stop the receivers.
ShutdownNoCancel ==
  /\ main = "running"
  /\ rootCancelled
  /\ servers' = "stopping"
  /\ main' = "draining"
  /\ UNCHANGED <<gen, cfgOf, rstate, genCancelled, rootCancelled, plugin,
                 workers, watcher, pending, changes>>

\* The main loop sees m.Ctx.Done: it cancels the receivers and stops the
\* servers, then waits on m.Wg.
Shutdown ==
  /\ main = "running"
  /\ rootCancelled
  /\ genCancelled' = [genCancelled EXCEPT ![gen] = TRUE]
  /\ servers' = "stopping"
  /\ main' = "draining"
  /\ UNCHANGED <<gen, cfgOf, rstate, rootCancelled, plugin, workers,
                 watcher, pending, changes>>

\* Fault model: a WaitGroup per generation, so the drain waits only for the
\* receivers of the current one.
DrainedCurrentOnly ==
  /\ main = "draining"
  /\ ~workers
  /\ servers = "down"
  /\ \A i \in Slots : rstate[gen][i] \in {"absent", "stopped"}
  /\ main' \in IF watcher = "sending" THEN {"done", "panicked"} ELSE {"done"}
  /\ UNCHANGED <<gen, cfgOf, rstate, genCancelled, rootCancelled, plugin,
                 workers, servers, watcher, pending, changes>>

\* m.Wg.Wait() returns; the channels and m.configChan are closed and run
\* returns.  A callback blocked on m.configChan panics with "send on closed
\* channel", unless the process exits first.
Drained ==
  /\ main = "draining"
  /\ ~workers
  /\ servers = "down"
  /\ AllReceiversExited
  /\ main' \in IF watcher = "sending" THEN {"done", "panicked"} ELSE {"done"}
  /\ UNCHANGED <<gen, cfgOf, rstate, genCancelled, rootCancelled, plugin,
                 workers, servers, watcher, pending, changes>>

\* SIGINT or SIGTERM reaches every handler setupSignalHandler registered:
\* the one of m.Ctx and the one of each receivers scope created so far.
Signal ==
  /\ Alive
  /\ ~rootCancelled
  /\ rootCancelled' = TRUE
  /\ genCancelled' = [g \in Gens |-> genCancelled[g] \/ g <= gen]
  /\ UNCHANGED <<main, gen, cfgOf, rstate, plugin, workers, servers,
                 watcher, pending, changes>>

\* A second signal: os.Exit(1) without waiting.
ForceExit ==
  /\ Alive
  /\ rootCancelled
  /\ main' = "killed"
  /\ UNCHANGED <<gen, cfgOf, rstate, genCancelled, rootCancelled, plugin,
                 workers, servers, watcher, pending, changes>>

\* fanOutAPIEvents and the exporters' run loops return on m.Ctx.Done.
WorkersStop ==
  /\ Alive
  /\ workers
  /\ rootCancelled
  /\ workers' = FALSE
  /\ UNCHANGED <<main, gen, cfgOf, rstate, genCancelled, rootCancelled,
                 plugin, servers, watcher, pending, changes>>

\* stopServers makes both servers' goroutines return.
ServersStop ==
  /\ Alive
  /\ servers = "stopping"
  /\ servers' = "down"
  /\ UNCHANGED <<main, gen, cfgOf, rstate, genCancelled, rootCancelled,
                 plugin, workers, watcher, pending, changes>>

\* A receiver validates its target; a failure ends it (no retry).  The
\* reconciler then creates the resource ("already exists" is success).
ReceiverStart(g, i) ==
  /\ Alive
  /\ rstate[g][i] = "start"
  /\ \/ rstate' = [rstate EXCEPT ![g][i] = "stopped"] /\ UNCHANGED plugin
     \/ /\ rstate' = [rstate EXCEPT ![g][i] = "up"]
        /\ plugin' = (plugin \/ cfgOf[g][i] = Gateway)
  /\ UNCHANGED <<main, gen, cfgOf, genCancelled, rootCancelled, workers,
                 servers, watcher, pending, changes>>

\* A receiver sees its scope cancelled and returns; the reconciler deletes
\* the resource first ("not found" is reported, and it still returns).
ReceiverStop(g, i) ==
  /\ Alive
  /\ rstate[g][i] = "up"
  /\ genCancelled[g]
  /\ rstate' = [rstate EXCEPT ![g][i] = "stopped"]
  /\ plugin' = (plugin /\ cfgOf[g][i] # Gateway)
  /\ UNCHANGED <<main, gen, cfgOf, genCancelled, rootCancelled, workers,
                 servers, watcher, pending, changes>>

Next ==
  \/ StartUp
  \/ ConfigChange
  \/ Reload
  \/ Shutdown
  \/ Drained
  \/ Signal
  \/ ForceExit
  \/ WorkersStop
  \/ ServersStop
  \/ \E g \in Gens, i \in Slots : ReceiverStart(g, i) \/ ReceiverStop(g, i)

(***************************************************************************)
(* Fairness: every goroutine that can run eventually does, and the main    *)
(* loop's select takes a case that stays ready.  Nothing is assumed of the *)
(* environment: config changes and signals may never come.                 *)
(***************************************************************************)
Fairness ==
  /\ WF_vars(StartUp)
  /\ WF_vars(Reload)
  /\ WF_vars(Shutdown)
  /\ WF_vars(Drained)
  /\ WF_vars(WorkersStop)
  /\ WF_vars(ServersStop)
  /\ \A g \in Gens, i \in Slots : WF_vars(ReceiverStart(g, i)) /\ WF_vars(ReceiverStop(g, i))

Spec == Init /\ [][Next]_vars /\ Fairness

-----------------------------------------------------------------------------
(* Every variable has its type.                                            *)
TypeOK ==
  /\ main \in MainStates
  /\ gen \in 0..(MaxChanges + 1)
  /\ cfgOf \in [Gens -> Seq(Names)]
  /\ rstate \in [Gens -> [Slots -> RStates]]
  /\ genCancelled \in [Gens -> BOOLEAN]
  /\ rootCancelled \in BOOLEAN
  /\ plugin \in BOOLEAN
  /\ workers \in BOOLEAN
  /\ servers \in {"off", "up", "stopping", "down"}
  /\ watcher \in {"idle", "sending"}
  /\ pending \in Seq(Names)
  /\ changes \in 0..MaxChanges

(* A clean shutdown leaves no mesh-extension resource behind: when run     *)
(* returns after m.Wg.Wait(), every reconciler of every generation has     *)
(* deleted the resource it created, whatever order the reloads' creates    *)
(* and deletes ran in.                                                     *)
ResourceRemovedOnCleanShutdown ==
  main = "done" => ~plugin

(* A reload ends the receivers it replaces (spec 8.7): once a newer        *)
(* generation exists, every receiver goroutine of an older one eventually  *)
(* returns, even if no signal ever comes.                                  *)
OldReceiversStop ==
  \A g \in Gens :
    (gen > g) ~> (~Alive \/ \A i \in Slots : rstate[g][i] \in {"absent", "stopped"})

(* Graceful shutdown terminates: after SIGINT/SIGTERM, m.Wg.Wait() returns *)
(* and run ends, even when a reload was taken between the signal and the   *)
(* drain and its fresh receivers scope was never signalled.                *)
ShutdownCompletes ==
  rootCancelled ~> ~Alive

(* The config watcher never panics: no OnConfigChange callback is blocked  *)
(* on m.configChan when Manager.run closes it.                             *)
NoSendOnClosedChannel ==
  main # "panicked"

(* While a mesh receiver is serving (its reconciler is up and its scope is *)
(* not cancelled), the mesh-extension resource that feeds it exists.       *)
MeshResourcePresentWhileServing ==
  \A g \in Gens, i \in Slots :
    (rstate[g][i] = "up" /\ cfgOf[g][i] = Gateway /\ ~genCancelled[g]) => plugin
=============================================================================
