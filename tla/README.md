# TLA+ models of SentryFlow

This directory holds TLA+ models of the SentryFlow event pipeline, the TLC
configurations that check them on small instances, and TLAPS proofs of their
main safety properties for every value of the constants.

## The system

SentryFlow collects API-traffic telemetry and forwards it. The parts are:

* **Receivers** (`src/sentryflow/pkg/receiver/...`). They decode a source
  format into an `APIEvent` and push it onto the shared ingestion channel
  `m.ApiEvents` (capacity 10240). The push blocks while the channel is full.
  This is the one deliberate backpressure point. The receivers are:
  * the line-protocol receiver for F5 BIG-IP (`f5-big-ip.go`);
  * the GCP Pub/Sub pull receiver (`gcp.go`);
  * the Kong gateway validator (`kong.go`);
  * `receiver.Init`, which starts the receivers that the configuration
    names.
* **Fan-out** (`fanOutAPIEvents` in `core/sentryflow.go`). A single goroutine
  takes each event from `m.ApiEvents`, counts it in `stats.inCount`, and
  offers it to `m.GrpcEvents` and to `m.HttpEvents`. Each offer is a
  non-blocking `select` with a `default` branch. When a queue is full, its
  drop counter goes up.
* **Exporters**:
  * The HTTP webhook exporter (`exporter/http/httpexporter.go`) runs a loop
    that takes an event, or returns on `ctx.Done`. It dispatches one
    goroutine per webhook. `buildHTTPClient` builds a shared TLS client.
  * The gRPC streaming exporter is not under `src/`.
* **Orchestrator** (`Manager.run` in `core/sentryflow.go`).
  * At start it creates the channels and starts the goroutines.
  * On a configuration change it restarts only the receivers.
  * On a signal it cancels the root context, waits for every goroutine, and
    closes the channels.

## Modules

| module | models | source |
|---|---|---|
| `FanOut` | ingestion queue, fan-out, output queues, the exporters' run loops, cancellation | `core/sentryflow.go` 73-259, `exporter/http/httpexporter.go` 332-353, `f5-big-ip.go` 56-68 |
| `MC_FanOut` | TLC instance of `FanOut`: ApiCap = 2, OutCap = 2, MaxEvents = 5 | |
| `FanOut_proofs` | TLAPS proofs about `FanOut` | |
| `Multicast` | the abstract promise of the fan-out: every output receives a strictly increasing subsequence of the ingested events | spec 4.1-4.3 |
| `FanOut_refinement` | TLAPS proof that `FanOut` implements `Multicast` | |
| `Manager` | `Manager.run` (start-up, reload, drain), the config watcher and `m.configChan`, the signal handlers, the receivers `receiver.Init` starts per generation, and the mesh reconciler (modelled from the spec) | `core/sentryflow.go` 59-213, `konggateway/kong.go` 106-152 (`receiver.Init`) |
| `MC_Manager` | TLC instance of `Manager`: four receiver lists, two config changes | |
| `Manager_proofs` | TLAPS proofs about `Manager` | |
| `HttpClient` | `buildHTTPClient`: its loop folding the webhooks' TLS blocks into the one transport the exporter's client uses | `exporter/http/httpexporter.go` 303-320, 392-450; `config/config.go` 47-61 |
| `MC_HttpClient` | TLC instance of `HttpClient`: every list of up to two webhooks | |
| `HttpClient_proofs` | TLAPS proofs about `HttpClient` | |
| `F5Parser` | `parseF5LogLine` and `extractHeaders`: one log line to an event, or a panic | `f5-big-ip/f5-big-ip.go` 17-29, 56-216 |
| `MC_F5Parser` | TLC instance of `F5Parser`: 192 records in 8 variants, uint64 scaled to 2^30 | |
| `F5Parser_proofs` | TLAPS proofs about `F5Parser` | |
| `GcpReceiver` | `Start`, the concurrent `sub.Receive` callbacks (`processMessage`, then `msg.Ack`), lease expiry, the ingestion queue and its fan-out, cancellation | `gcp/gcp.go` 52-156 |
| `MC_GcpReceiver` | TLC instance of `GcpReceiver`: 3 messages (one unparseable), 2 callback slots, a 1-slot queue, 1 lease expiry | |
| `GcpReceiver_proofs` | TLAPS proofs about `GcpReceiver` | |
| `Config` | `config.New` and `Config.validate`: from a config file to the config, an error or a panic | `config/config.go` 18-190 |
| `MC_Config` | TLC instance of `Config`: every file with up to two receiver entries in all (80,032 files, 172,025 states) | |
| `Config_proofs` | TLAPS proofs about `Config` | |

### FanOut

A Go buffered channel is modelled as a sequence with a capacity. An event is
its rank in the order the receivers pushed it (`1..MaxEvents`). The payload
is left out, because no property depends on it.

**State**

| variable | Go state |
|---|---|
| `apiEvents`, `outEvents[o]` | the three channels |
| `inCount`, `dropped[o]` | `stats.inCount`, `stats.grpcDrop`, `stats.httpDrop` |
| `produced` | how many events the receivers have pushed |
| `exported[o]` | the history of what exporter `o` took |
| `cancelled` | `m.Ctx` is done |
| `running[t]` | goroutine `t` is still in its loop |

**Init.** The HTTP exporter goroutine exists only when
`cfg.Exporter.HTTP.Enabled` is true (`InitHTTPExporter` returns early
otherwise). So `Init` chooses both cases.

**Actions**

| action | what the code does |
|---|---|
| `Receive` | the blocking push of a receiver |
| `FanOutEvent` | the whole `case ev := <-in` branch: count, then two non-blocking sends |
| `FanOutStop` | the `ctx.Done` branch of the fan-out |
| `ExportGrpc`, `ExportHttp` | an exporter takes the head of its queue |
| `StopGrpc`, `StopHttp` | an exporter sees `ctx.Done` |
| `Cancel` | the signal handler goroutine cancels `m.Ctx` |

The fan-out's 10-second stats ticker only logs, so it is left out.

**Refinement.** `Multicast` states what the fan-out stage promises its
outputs, with no queues, capacities or counters. It has two variables:

* `produced`, how many events entered the pipeline;
* `delivered[o]`, the events output `o` has delivered.

It has two actions:

* `Produce` adds one event.
* `Deliver(o)` gives output `o` an event that was produced and is later
  than everything `o` has delivered.

Each output therefore gets a strictly increasing subsequence of the
events: it may skip events (the drops), but it never reorders, duplicates
or invents one. `FanOut` defines
`Abstract == INSTANCE Multicast WITH delivered <- exported`, and
`produced` maps to `produced`. Under this mapping:

* `Receive` is `Produce`.
* An exporter's `Take` is `Deliver`.
* The fan-out, the drops and the stops are stutters.

The run checks `MulticastRefined == Abstract!Spec` as a property.

### Manager

`Manager` models the life of the process. The fan-out, the exporters and
the two servers each appear only as "running" flags here. `FanOut` models
what they do with events.

**State**

* `main`: where `Manager.run` is. `"done"`, `"panicked"`, `"failed"` and
  `"killed"` end the process. When the process ends, every goroutine ends
  with it. So no action of any goroutine is enabled after that.
* `gen`, `cfgOf`, `rstate`, `genCancelled`: the generations of
  `m.receiversCtx`.
  * Generation 1 is created by the start-up, and each reload creates the
    next one.
  * `rstate[g][i]` is the goroutine that `receiver.Init` started for the
    i-th receiver of that generation's list.
  * Its states are `"absent"` (never started), `"start"` (validating),
    `"up"` and `"stopped"`.
* `rootCancelled`: `m.Ctx` is done.
* `plugin`: the fixed-name mesh-extension resource exists in the cluster.
* `watcher` and `pending`: the viper `OnConfigChange` callback and the
  config it is sending on the unbuffered `m.configChan`.
* `changes`: how many times the config file has changed. It is bounded by
  `MaxChanges`.

**How the actions follow the code**

* **`StartUp`** is `run` from line 73 to the main loop, with each of its
  early returns:
  * the k8s client fails (only when `areK8sReceivers` holds);
  * `receiver.Init` returns an error, after having started the goroutines
    before the first unknown name (`Launch`, `StartedBy`);
  * an exporter fails.
* **`Reload`** is the `configChan` case:
  * `receiversCancelFunc()` on the old scope;
  * maybe a failing k8s client;
  * a fresh scope and `receiver.Init`.

  It does not wait for the old receivers.
* **`Shutdown`** and **`Drained`** are the `Ctx.Done` case, split at
  `m.Wg.Wait()`, because other goroutines run while it waits.
  * `Drained` closes the channels.
  * A callback that is blocked on `m.configChan` at that moment either
    panics or is cut off by the process exiting.
* **`Signal`** is a SIGINT/SIGTERM. It reaches every handler that
  `setupSignalHandler` has registered: the one of `m.Ctx`, and one per
  receivers scope created so far.
* **`ForceExit`** is the second signal, which calls `os.Exit(1)`.
* **`ReceiverStart`** and **`ReceiverStop`** are the receiver goroutines.
  For the istio-gateway reconciler (modelled from spec 4.1):
  * validate (a failure ends it, with no retry);
  * create the resource ("already exists" is success);
  * wait for its scope to be cancelled;
  * delete the resource ("not found" is reported, and it still returns).

**Findings**

* **Startup:** `receiver.Init` has no case for `kong-gateway`, `f5-big-ip`
  or `gcp`, although `areK8sReceivers` counts `kong-gateway`. A list that
  names one of them makes start-up or a reload fail, and the process exits.
* **Panic on shutdown (`manager_panic`):** suppose the file changes after
  the signal, while `run` waits on `m.Wg`. The callback is not part of
  `m.Wg`, so it blocks on `m.configChan`. Then `close(m.configChan)`
  (`sentryflow.go:137`) makes it panic with "send on closed channel".
* **Reload race (`manager_reload`):** `Reload` starts the new generation
  before the old one has returned.
  * The old reconciler's delete can come after the new reconciler's
    create.
  * The new reconciler counted that create as success ("already exists").
  * So it serves with no resource, and nothing restores the resource
    until the next reload.
  * The lock that the spec names (spec 5) does not help. The old
    reconciler's delete happens after its scope is cancelled, which is
    after the new generation has been started.

### HttpClient

`buildHTTPClient` runs once, in `InitHTTPExporter`, and its client is
shared by every webhook. The module writes the loop over
`cfg.Exporter.HTTP.Webhooks` as a state machine. `pos` counts the webhooks
looked at, and `client` is the transport built so far. `Iterate` is one
iteration, `FoldWebhook` of the next webhook:

* a URL that does not start with `https://` after `strings.ToLower`, or a
  webhook without a TLS block, is skipped (the two `continue`s);
* the first block creates the `tls.Config`;
* a CA path replaces `RootCAs`, a cert/key pair replaces `Certificates`,
  `InsecureSkipVerify` is only ever switched on;
* a file that cannot be read returns the error, which ends the loop and
  makes `InitHTTPExporter` fail.

`Returned` holds once the loop has returned: on an error, or after the
last webhook. The properties are stated at that point.

Paths are names: `caA`, `caB`, `crt` can be read, `unreadable` cannot. The
result record (`Results`) is the error flag and the transport's TLS state:
whether `TLSClientConfig` is set, the skip flag, the root pool (`system`
for a nil `RootCAs`) and the client certificate.

`Init` chooses the webhook list from all 21,757 lists of at most two
webhooks: three schemes, with and without a TLS block, and every
combination of paths and flag. The run has 59,830 states. The states
where the loop has returned have no successor; `CHECK_DEADLOCK FALSE`
says that is not a deadlock. `BuildMatchesReference` compares the result
with `MatchesUpTo`, a declarative reading of the list.

**Finding (`http_client_policy`):** the spec (4.3 and 8.4), and the
comment at line 407, say an HTTPS webhook without a TLS block uses
default verification and that each target has its own TLS policy. With
one shared `tls.Config`, the CA of one webhook becomes the root pool of
every HTTPS webhook (so a public endpoint fails to verify), its
skip-verify flag turns off verification for all of them, and a later
webhook's CA replaces an earlier one's. TLC's counterexample is two HTTPS
webhooks, the first without a block and the second with a CA.

### F5Parser

A line is modelled as the sequence of its words, the result of
`strings.Split(_, " ")`. Each sentinel (`HSL_START`, `HSL_END`,
`__REQHS__`, ...) is a word of its own, and `strings.Index` is the position
of its first occurrence. `rest := strings.Join(parts[12:], " ")` undoes the
split, so the sections after the positional fields are the same words.
`ParseF5LogLine` keeps every check of the code in its order:

* a missing sentinel (line 75);
* an end sentinel before the start, where the slice at line 80 panics;
* fewer than 10 fields (line 82);
* then the reads of `parts[10]` and `parts[11]`.

`Decode` is the rest of the function:

* `Atoi`/`ParseInt` keep 0 on error;
* `int32` and `uint64` wrap;
* `extractHeaders` is `ExtractHeaders`/`HeaderMap`: split at `__HEAN__`,
  skip a section without `__HEAV__`, and a later key wins;
* the pseudo-headers are written over the extracted ones;
* the request payload lies between `__REQPS__` and `__REQPE__`, the
  response payload after the first `__REQPE__`;
* base64 is a table of the encodings the lines use, and several words
  never decode.

A log call is a panic. The package-level `logger` is never assigned,
because `Start` declares a local one, and the panic in `handleConn` ends
the process.

The lines come from `Records` in the format of spec 4.1. Only the times,
the headers and the bodies vary; the other positional fields are fixed,
distinct words, so a field read from the wrong place shows. Each record is
fed in eight variants:

* well-formed;
* without the start sentinel;
* without the end sentinel;
* with the sentinels swapped;
* cut to 9, 10 or 11 fields;
* with a response payload that is not base64.

TLC's integers are 32-bit, so the uint64 modulus is the constant `Mod64`,
which `MC_F5Parser` sets to 2^30. Every value a well-formed line yields is
far below it, and a response time before the request time still wraps to
a large unsigned latency.

`MalformedNeverDecoded` says that no line of the seven malformed variants
becomes an event. In the code this rests on every rejection ending the
call. For the response payload (line 139) nothing but the nil logger does
so: no `return` follows the log. With the logger assigned, a corrupt
payload would be logged and the line still turned into an event, with the
partly decoded body. The mutant `DecodeLoggedOnly` is that code, and TLC
finds the `badbody` line decoded. Fixing the nil logger alone would
therefore break the spec's "malformed lines are dropped".

**Findings**

* **`f5_malformed`:** the spec (4.1, 8.2) says a line without its
  sentinels is dropped with a logged reason. Instead the log call
  dereferences the nil logger, and the process dies. The same happens for
  too few fields (line 83) and for a response payload that is not base64
  (line 139).
* **Field count (also a violation of `MalformedLineDropped`):** the guard
  is `len(parts) < 10`, but the spec asks for 12 fields. A line of 10 or
  11 fields passes the guard and indexes past the end of `parts`, a panic
  of kind `"index"` in the model.

### GcpReceiver

`Start` is `Init`. Its early returns (a missing GCP section, project or
subscription, or a failing `pubsub.NewClient`) are the initial states
with `started = FALSE`. Otherwise it sits in `sub.Receive`. The
subscription hands the oldest message it holds to a free callback slot
(`Deliver`). There are `MaxOutstandingMessages` slots, scaled from 100 to
2. Each callback then runs these actions:

* **`Parse`:** `json.Unmarshal`. A rejected entry is logged and
  `processMessage` returns, so the callback goes straight to the ack, as
  spec 4.1 describes.
* **`Push`:** the bare `apiEvents <- apiEvent`, which waits for room and
  never for `ctx`.
* **`Ack`:** `msg.Ack()`.

The environment has two actions:

* **`LeaseExpires`:** the subscription delivers a message again while its
  callback still holds it, which is what happens once the client stops
  extending the lease.
* **`Cancel`:** a reload or a shutdown cancels the receiver's context.

`FanOutTake` and `FanOutStop` are the fan-out's two cases, as in `FanOut`.
`Return` is `sub.Receive` returning. It does so only once `ctx` is done and
every callback has returned. The event's fields (the hostname fallback,
the headers) are data and stand abstracted as the message's number.

**Findings**

* **`gcp_shutdown`:** after cancellation the fan-out returns. A callback
  that then meets a full `m.ApiEvents` blocks forever, and `sub.Receive`
  waits for it. So `Start` never returns, against spec 5 ("all tasks must
  observe it promptly and exit").
* **Order within a subscription (not checked by a run):** spec 5 says
  events of one subscription keep source order into the ingestion queue.
  With more than one outstanding callback, `Push` of two slots is enabled
  at once in either order, so the model, like the code, makes no such
  promise.

### Config

One call of `New` on a `file` is a state machine. `pc` says where the
call is, `idx` counts the entries a loop has passed, and `result` is
`Pending` until `New` returns. The actions follow the code:

1. **`Load`** is `New` up to `validate`'s loops.
   * A failing `viper.ReadInConfig` or `viper.Unmarshal` returns the error.
     Both are reduced to `readable = FALSE`.
   * `config.Filters.Server` is then dereferenced. When the file has no
     filters section, this dereferences a nil pointer and panics.
   * `PreCheck` is `validate`'s checks before the loops (envoy Uri,
     exporter, gRPC section and port, receivers section), in the code's
     order. The first failing one returns its error.
2. **`MeshStep`** is one iteration of the loop over the service meshes.
   `MeshCheck` is the loop body with its early returns. A failing check
   returns its error; otherwise `idx` moves on. **`MeshesDone`** starts the
   loop over the other receivers.
3. **`OtherStep`** is one iteration of that loop, with `OtherCheck` as its
   body.
4. **`Finish`**: `validate` returns nil, and `New` returns the config with
   the port `DefaultedPort` gives (a missing server section or a port of 0
   becomes 8081).

The defaulting of the port happens in the code before `validate` runs. No
check reads the port, so the model computes it at `Finish`. The run has no
deadlock check (`CHECK_DEADLOCK FALSE`) because a returned call is a final
state.

The abstraction is as follows:

* A pointer section is `Absent` or present with its contents.
* A string is empty or not.
* A receiver name is one of the two `util` constants that `validate`
  compares against, an empty name, or any other name.

`NewMatchesReference` states the conditions declaratively:

* New returns a config exactly when every receiver entry has what it
  needs.
* The filter port is the configured one, or 8081 when none is set.

It is checked in every state where `New` has returned without a panic.

**Finding**

* **`config_panic`:** a readable file without a `filters` section panics
  in step 2. `validate`'s first check, "no filter configuration provided",
  is never reached. At start-up this crashes `Run`. On a hot reload the
  panic happens inside viper's `OnConfigChange` callback, so one bad edit
  ends the process instead of being logged.

## Runs

| run | module / cfg | checks | shows |
|---|---|---|---|
| `fanout` | `MC_FanOut` / `MC_FanOut.cfg` | `TypeOK`, `DropAccounting`, `MulticastRefined`, `IngestionNeverStalls`, `ShutdownStopsPipeline` | per-output drop accounting; each output gets an ordered, duplicate-free subsequence of the events; the fan-out never waits on a stalled exporter; cancellation stops every pipeline goroutine |
| `manager` | `MC_Manager` / `MC_Manager.cfg` | `TypeOK`, `ResourceRemovedOnCleanShutdown`, `OldReceiversStop`, `ShutdownCompletes` | a clean exit leaves no mesh resource; a reload ends the receivers it replaces; a signal always ends `run` |
| `manager_panic` | `MC_Manager` / `MC_Manager_panic.cfg` | `NoSendOnClosedChannel` (violation) | the watcher panics when its send meets the close of `m.configChan` |
| `manager_reload` | `MC_Manager` / `MC_Manager_reload.cfg` | `MeshResourcePresentWhileServing` (violation) | the reload race removes the resource under a serving receiver |
| `http_client` | `MC_HttpClient` / `MC_HttpClient.cfg` | `TypeOK`, `BuildMatchesReference` | the fold computes the transport a declarative reading of the webhook list gives, and fails exactly when a secured webhook names an unreadable file |
| `f5_parser` | `MC_F5Parser` / `MC_F5Parser.cfg` | `MalformedNeverDecoded`, `RoundTrip` | every well-formed line decodes to exactly the event it encodes (spec 8.2), and no malformed line of any of the seven other variants becomes an event |
| `f5_malformed` | `MC_F5Parser` / `MC_F5Parser_malformed.cfg` | `MalformedLineDropped` (violation) | a malformed line crashes the receiver instead of being dropped |
| `gcp` | `MC_GcpReceiver` / `MC_GcpReceiver.cfg` | `TypeOK`, `AckedImpliesPushed`, `AllMessagesAcked` | an ack never overtakes its push, even with lease expiries; while running, every message is eventually acked |
| `gcp_shutdown` | `MC_GcpReceiver` / `MC_GcpReceiver_shutdown.cfg` | `ShutdownReturns` (violation) | a callback blocked on a full queue keeps `Start` from returning after cancellation |
| `config` | `MC_Config` / `MC_Config.cfg` | `TypeOK`, `NewMatchesReference` | where `New` returns without a panic, it accepts exactly the valid files and defaults the filter port |
| `config_panic` | `MC_Config` / `MC_Config_panic.cfg` | `NoPanicOnLoad` (violation) | a file without a filters section panics in `New` |
| `http_client_policy` | `MC_HttpClient` / `MC_HttpClient_policy.cfg` | `PerWebhookTLSPolicy` (violation) | one webhook's CA or skip-verify flag applies to every HTTPS webhook |

**Properties**

* `DropAccounting` says that for each output,
  `dropped + queued + exported = inCount`. So an event is lost for one
  output only when that output's counter records it.
* `IngestionNeverStalls` says that every pushed event is eventually taken by
  the fan-out, unless the fan-out stopped. This holds even when an exporter
  never runs.
* `ShutdownStopsPipeline` says that after cancellation every loop returns.
  This is what `m.Wg.Wait()` at `sentryflow.go:133` depends on.

**Manager properties**

* `ShutdownCompletes` is not obvious, because the main loop's `select` may
  take a pending config after the signal. That starts a scope that no
  handler has seen. Only the `receiversCancelFunc()` at line 131 ends that
  scope, and its mutant shows that.
* `ResourceRemovedOnCleanShutdown` depends on `m.Wg` spanning every
  generation. The mutant that waits only for the current generation shows
  that.

`MC_Manager` uses these four receiver lists:

* `<<istio-gateway>>`
* `<<istio-gateway, nginx-inc>>`
* `<<nginx-webserver>>`
* `<<istio-gateway, kong-gateway>>`, where `receiver.Init` fails after
  starting the gateway.

With two config changes (three generations), this covers:

* a reconciler replaced by a new reconciler;
* a reconciler dropped from the config;
* a reload to a list without goroutines;
* a partial start;
* signals before the start, between a reload and the drain, and during the
  drain.

The run reaches 75,017 distinct states.

**FanOut bounds.** The bounds are capacities of 2 and 5 events. Two slots per
queue and five events are enough for each of these to happen:

* a queue filling up;
* a drop on one output while the other output still accepts;
* the same event being queued for one output and dropped for the other;
* cancellation while events are queued at every stage.

The run reaches 9210 distinct states.

**Deadlock.** Deadlock checking is off. The terminal states are the end of
the bounded supply of events, or the process after shutdown. Neither is a
deadlock of the code.

**Mutants.** Each property is shown to be sensitive to the code by a
mutant that TLC must catch:

| mutant | caught by |
|---|---|
| a send that ignores the capacity | `TypeOK` |
| a `default` branch that forgets the counter | `DropAccounting` |
| an exporter that reads the head of its queue without taking it | `MulticastRefined` |
| blocking sends instead of `select`/`default` | `IngestionNeverStalls` |
| an exporter loop that notices cancellation only with the next event | `ShutdownStopsPipeline` |
| the config callback sends a nil config on a read error | `Manager` `TypeOK` |
| `run` waits only for the current generation's receivers | `ResourceRemovedOnCleanShutdown` |
| a reload that does not cancel the old generation | `OldReceiversStop` |
| the shutdown case without `receiversCancelFunc()` | `ShutdownCompletes` |
| the TLS loop without the `continue` for non-HTTPS URLs | `BuildMatchesReference` |
| the CA's `os.ReadFile` error unchecked (an empty root pool) | `HttpClient` `TypeOK` |
| a header value cut at `__HEAV__` instead of after it | `RoundTrip` |
| the logger assigned, so the response payload's decode error is only logged (no `return` follows it) | `F5Parser` `MalformedNeverDecoded` |
| a push that does not wait for room in `m.ApiEvents` | `GcpReceiver` `TypeOK` |
| the unmarshal error check inverted | `AckedImpliesPushed` |
| a callback that forgets `msg.Ack()` | `AllMessagesAcked` |
| `validate` without the istio sidecar check | `NewMatchesReference` |
| `New` keeps a configured port of 0 | `Config` `TypeOK` |

## Fairness

**Manager.** Weak fairness is assumed on every goroutine's step and on
each case of the main loop's `select`, because a case that stays ready is
eventually taken. Config changes, signals and the second signal get no
fairness, since they come from outside.

**FanOut.**

Weak fairness is assumed on these actions:

* `FanOutEvent` and `FanOutStop`. The Go scheduler runs a runnable
  goroutine, and a `select` that has a ready case keeps choosing uniformly at
  random. So a case that stays ready is taken with probability 1.
* `StopGrpc` and `StopHttp`. They are the same kind of `select` case.

No fairness is assumed on these:

* The exporters' `Take`. A webhook or a gRPC client may be arbitrarily slow.
  Leaving `Take` unfair is what gives `IngestionNeverStalls` its meaning.
* `Receive`. Traffic is external.
* `Cancel`. A signal may never come.

**GcpReceiver.** Weak fairness is assumed on these actions:

* each slot's `Deliver`, because the subscription keeps handing out the
  messages it holds;
* each callback's `Parse`, `Push` and `Ack`, because they are goroutine
  steps;
* `FanOutTake` and `FanOutStop`. The fan-out never blocks, which is
  `IngestionNeverStalls` of `FanOut`.
* `Return`.

`LeaseExpires` and `Cancel` come from the environment and get no
fairness. `AllMessagesAcked` therefore means that the blocking push
waits only for the fan-out.

## Proofs

`FanOut_proofs` proves the following, for every `ApiCap`, `OutCap` and
`MaxEvents` that satisfy `CapAssumption`. The assumption is that both
capacities are positive naturals and `MaxEvents` is a natural.

* **`TypeCorrect`: `Spec => []TypeOK`.** This includes that no queue ever
  holds more than its capacity. `TypeOK` is inductive by itself.
  * `NonBlockingSend` is a lemma about `TrySend` and `CountDrop`: the
    queue stays within its capacity, and queue length plus counter grows by
    exactly one.
  * The step proof has one case per action.
* **`DropAccountingHolds`: `Spec => []DropAccounting`.** The inductive
  invariant is `IInv == TypeOK /\ DropAccounting`. `DropAccounting` alone
  is not inductive, because the effect of `FanOutEvent` on a counter depends
  on the queue being within its capacity. In each case of the step proof:
  * the fan-out adds one to `inCount` and, through the lemma, one to
    `dropped + queued` of each output;
  * `Take` moves one element from the queue to the history;
  * every other action changes none of the summands.

`GcpReceiver_proofs` proves the following, for every number of messages,
set of unparseable messages, number of callback slots, queue capacity and
bound on lease expiries that satisfy `GcpAssumption`:

* **`TypeCorrect`: `Spec => []TypeOK`.** `TypeOK` is not inductive by
  itself. `Ack` adds the callback's message to `acked`, and `Push`
  appends it to `m.ApiEvents`, so the proof needs `HeldMsgs`: a running
  callback holds a message of the subscription. The inductive invariant
  is `TInv == TypeOK /\ HeldMsgs`, with one step case per action.
* **`AckAfterPush`: `Spec => []AckedImpliesPushed`.** The strengthening
  `AckReady` says that a callback about to ack a parseable message has
  already pushed its event. The inductive invariant is
  `IInv == TInv /\ AckReady /\ AckedImpliesPushed`. Two lemmas carry the
  set reasoning:
  * `RangeAppend`: appending to a sequence adds exactly that element to
    its range;
  * `PushedGrows`: so `Push` only adds to `PushedSet`.

  `Parse` moves a callback to the ack only for an unparseable message,
  `Push` records the event before the ack, and `Ack` relies on `AckReady`.
  TLC checked `IInv` as an invariant of a run first, on 10,784 states with
  two lease expiries.

`FanOut_refinement` proves **`Refinement`: `Spec => MulticastRefined`**,
for every value of the constants that satisfies `CapAssumption`. The proof
follows the standard refinement argument:

* `Init` maps to `Abstract!Init`.
* Under an invariant `RInv`, every step maps to a `Multicast` step or to a
  stutter.

`RInv` is `TypeOK` together with two more facts:

* `IngestionQueued`: `m.ApiEvents` holds exactly the events
  `inCount + 1 .. produced`, in order.
* `OutputOrdered(o)`: for each output, the queue and the history are both
  strictly increasing and at most `inCount`, and the last event exported
  is below the head of the queue.

The second fact is what makes `Take` a legal `Deliver`. It needs the first,
because the fan-out appends `inCount + 1`, the head of `m.ApiEvents`, to
a queue whose elements are all at most `inCount`. The lemmas `AppendOrdered`,
`TailOrdered`, `WithinGrows` and `EndsWithin` carry the sequence
reasoning. The proof has one step lemma per action: `RInvReceive`,
`RInvFanOutEvent` and `RInvTake`.

`Manager_proofs` proves the following, for every set of receiver lists and
every number of config changes that satisfy `ConfigsAssumption`:

* **`TypeCorrect`: `Spec => []TypeOK`.** `TypeOK` is not inductive by
  itself. A reload starts generation `gen + 1`, which must be a generation
  the model allocated, so the proof needs two more facts. `GenBound` says
  that a reload consumes a config change: the generation never exceeds the
  changes plus one, and a callback blocked on `m.configChan` holds a change
  not yet turned into a generation. `RunningGen` says that the main loop
  runs with a generation. `InitGen` says that there is no generation before
  start-up. The inductive invariant is
  `TInv == TypeOK /\ GenBound /\ RunningGen /\ InitGen`.
* **`ResourceRemoved`: `Spec => []ResourceRemovedOnCleanShutdown`.** The
  inductive invariant `IInv` adds three facts to `TInv`:
  * `PluginHeld`: the resource exists only while some istio-gateway
    reconciler that created it is up.
  * `FreshGens`: every generation after the current one is still
    untouched, so a reload's `Launch` never overwrites a reconciler that
    is up.
  * `DoneDrained`: `run` is done only after every receiver has exited.

  With these, `done` means that no reconciler is up, and so that the
  resource is gone. The lemma `ExceptSlot` says that setting one
  receiver's state leaves the others unchanged. TLC checked `IInv` as an
  invariant first, on 371,133 states with two gateways in one list.

`HttpClient_proofs` proves the following for webhook lists of every
length (every `MaxWebhooks` in `Nat`):

* **`TypeCorrect`: `Spec => []TypeOK`.** The lemma `FoldType` says that
  one iteration keeps the result well formed. A CA or a client pair
  reaches the transport only once its file has been read.
* **`BuildCorrect`: `Spec => []BuildMatchesReference`.** The inductive
  invariant is `IInv == TypeOK /\ MatchesUpTo(whs, client, pos)`: after
  `pos` iterations, the client is the one the first `pos` webhooks
  describe. This invariant is the loop's induction, carried by the `[]`
  of the behaviour. Over a list-recursive function, the same proof would
  need an induction theorem that the provers cannot instantiate.
  * The step proof has three cases for the next webhook: skipped, failing,
    or setting fields.
  * In the last case, the "last block that sets a CA" is either the new
    webhook or unchanged.
  * When the loop returns early on an error, the bad webhook found among
    the first `pos` is also among all of them.

  TLC checked `IInv` as an invariant first, on the run's 59,830 states.

`Config_proofs` proves the following for config files with any number of
receiver entries (every `MaxEntries` in `Nat`):

* **`TypeCorrect`: `Spec => []TypeOK`.** A returned config has a filter
  port that is not 0, and an error names one of `validate`'s reasons.
* **`AcceptsExactlyValid`: `Spec => []NewMatchesReference`.** The
  inductive invariant `IInv` adds to `TypeOK` what a call in each loop has
  established:
  * in the mesh loop, the file passed `Load` (`Loaded`) and the first
    `idx` mesh entries pass `MeshCheck` (`MeshesOK`);
  * in the loop over the other receivers, in addition, every mesh entry
    passes, and so do the first `idx` other entries (`OthersOK`);
  * `result` is `Pending` exactly until the call returns.

  The lemmas `LoadedIff`, `MeshCheckIff` and `OtherCheckIff` say that each
  chain of early returns passes exactly when its part of `ValidFile`
  holds. `ValidIff` puts them together: `ValidFile` is `Loaded` with every
  entry of both loops passing. With it, an error returned in a loop means
  the file is not valid, and `Finish` means it is. `PortIff` gives the
  defaulted port. TLC checked `IInv` as an invariant first, on the run's
  172,025 states.

`F5Parser_proofs` proves the following, for every `Mod64` that satisfies
`Mod64Assumption` (a natural of at least 2^30, enough for every time and
latency the records produce):

* **`MalformedNeverDecodedHolds`: `Spec => []MalformedNeverDecoded`.**
* **`RoundTripHolds`: `Spec => []RoundTrip`.**

`Next` only stutters: each line is parsed once, in `Init`. So both
invariants are inductive, and the whole argument is the lemma
`InitInvariants`, which says that every initial state satisfies them. It
rests on these lemmas:

* **`LineOutcomes`** gives, for every record of `Records`, the outcome of
  each of the eight variants:
  * well-formed: the record's event;
  * no start or no end sentinel: `Panic("sentinel-log")`;
  * sentinels swapped: `Panic("slice")`;
  * 9 fields: `Panic("fields-log")`;
  * 10 or 11 fields: `Panic("index")`;
  * a payload that is not base64: `Panic("decode-log")`.

  A panic is never an event (`PanicKind`), which gives
  `MalformedNeverDecoded`.

  Its sentinel cases rest on `IndexAt`, `IndexNone`, `SentinelMissing` and
  `SentinelsSwapped`. The field-count cases rest on `LinePayload`.
* **`DecodeLine`** states the general result. Take any set of words `W`
  with no sentinel among them, any record over `W`, and any response
  payload. `ParseF5LogLine` of the record's line is then either the event
  `EventOf` or `Panic("decode-log")`, depending on whether the payload is
  base64. Its parts:
  * `CutFirst` and `ExtractAt` say that `strings.Index` and
    `extractHeaders` cut at the first tag.
  * `SectionsParts` takes apart the two header sections and both
    payloads.
  * `EntriesSections` and `HeaderMapEntries` show that `extractHeaders`'
    loop over `__HEAN__ k __HEAV__ v` sections builds `HeaderFn`, the map
    of the entries, when the keys are distinct.
* **`RequestHeaders` and `ResponseHeaders`** say that writing the
  pseudo-headers over that map gives the map of the pseudo-headers
  followed by the entries.
* **`EventExpected`** says that the event is `Expected(r)` when the
  response is not before the request. The uint64 and int32 conversions
  keep the record's values there (`Widths`).

Two limits of the provers shape these proofs:

* The SMT backend fails on any obligation that contains the empty string.
  The steps about `Records`, `Panic` and base64 are therefore Zenon's.
* tlapm overflowed its stack while formatting the latency steps (with
  the numeral 1000000) for Zenon. Those steps are therefore SMT's.

TLC alone checks the following:

* **Liveness.** `IngestionNeverStalls`, `ShutdownStopsPipeline`,
  `OldReceiversStop`, `ShutdownCompletes` and `AllMessagesAcked` need
  fairness and ENABLED, and the prover does not handle those.
* **The F5 parser on arbitrary text.** `F5Parser_proofs` proves what
  `ParseF5LogLine` returns for the lines an iRule writes, over any header
  lists and any non-sentinel words (`DecodeLine`). It does not prove this
  for every sequence of words. Lines with repeated header keys, sections
  without `__HEAV__`, or sentinels inside a field are decoded only in the
  bounded runs. The violation run `f5_malformed` is also TLC's.

## Not modelled (yet)

* **`stopServers`, `startHttpServer`, `startGrpcServer` and the receivers
  other than the reconciler.** They are not under `src/`. They appear only
  as goroutines that return when stopped or cancelled.
* **The Kong receiver.** `receiver/other/konggateway/kong.go` (line 79) reads
  `cfg.Filters.KongGateway`, a field that the `filters` struct of
  `pkg/config/config.go` does not have. The package therefore does not
  build against this config. `receiver.Init` never starts a Kong receiver
  either. `Manager` keeps Kong only as a name that needs a k8s client and
  makes `receiver.Init` fail.
* **HTTP dispatch goroutines.** `dispatch` starts one fire-and-forget
  goroutine per webhook and event whose outcome is only logged; no state of
  the program depends on it.
* **The F5 receiver's `Start`.** `net.Listen("TCP", ...)` names a network
  Go does not know (network names are lower-case), so it returns at once,
  and `receiver.Init` never starts this receiver anyway.
* **Viper's parsing of YAML into the structs.** `Config` starts from the
  decoded sections. A list entry decoded as a nil pointer is not among the
  inputs.

Known simplifications of the modelled parts. Each of them makes a model
coarser than the code, and a property checked on it says correspondingly
less:

* **`GcpReceiver`.** One `Cancel` action stands for both a reload and a
  shutdown. `AllMessagesAcked` (every message is eventually acked while
  running) is therefore shown for a shutdown only. An error returned by
  `Receive` is not modelled.
* **`Manager`.** `ReceiverStart` may fire after the context is cancelled.
  The delete in `ReceiverStop` never fails. `ConfigChange` leaves out the
  panic path of `config.New`. `StartUp` treats the receiver list as flat
  and takes the service meshes first.
* **`F5Parser`.** A line is a sequence of words, not of characters, so a
  sentinel glued to other text is not among the inputs.
* **`HttpClient`.** The TLS `MinVersion` is left out; no property is about
  it.
* **`Config`.** See the viper item above.

## Plan

1. (done) `Manager`.
2. (done) `HttpClient`: the TLS fold of `buildHTTPClient`, with the
   violation run for one webhook's policy leaking to the others.
3. (done) `F5Parser`: the parser over word sequences, the round trip, and
   the violation runs for the nil logger and for lines of 10 or 11 fields;
   `MalformedNeverDecoded` and `RoundTrip` proved by `F5Parser_proofs`.
4. (done) `GcpReceiver`: concurrent callbacks, ack after processing, lease
   expiry, order into `m.ApiEvents`; both safety invariants proved.
5. (done) `Multicast`, the abstract specification that `FanOut` refines,
   checked by TLC and proved by `FanOut_refinement`.
6. (done) `Manager_proofs`: `TypeCorrect` and `ResourceRemoved`.
7. (done) `Config`: `New` and `validate`, with the violation run for the
   missing filters section; both invariants proved by `Config_proofs`.
8. The gRPC exporter's per-subscriber buffers (spec 4.3), should its code
   come under `src/`.
