-------------------------------- MODULE Config --------------------------------
(***************************************************************************)
(* config.New and Config.validate (pkg/config/config.go): read the file,   *)
(* unmarshal it, default the filter server port, then validate the         *)
(* sections in order, returning on the first check that fails.  The        *)
(* result is the config, an error naming the failed check, or a panic.     *)
(*                                                                         *)
(* A section has present = FALSE when the file leaves it out.  Strings are *)
(* reduced to empty or not; receiver names to the two util constants       *)
(* validate tests                                                          *)
(* (util.ServiceMeshIstioSidecar, util.NginxIncorporationIngressController)*)
(* and one other name.                                                     *)
(***************************************************************************)
EXTENDS Naturals, Sequences

CONSTANT MaxEntries   \* the longest receiver lists the run enumerates

ASSUME MaxEntriesAssumption == MaxEntries \in Nat

SentryFlowDefaultFilterServerPort == 8081

\* "istio-sidecar" stands for util.ServiceMeshIstioSidecar, "nginx-inc" for
\* util.NginxIncorporationIngressController.
MeshNames == {"", "istio-sidecar", "other"}
OtherNames == {"", "nginx-inc", "other"}
Namespaces == {"", "ns"}

\* The three names of nginxIngressConfig, by which of them are non-empty.
NginxFields == {"deploymentName", "configMapName", "njsConfigMapName"}

\* A pointer field of the config: nil, or present with its contents.
Absent == [present |-> FALSE]

\* nginxIngressConfig, by the set of its non-empty names.
NginxConfigs == {Absent} \cup [present : {TRUE}, names : SUBSET NginxFields]

\* server: its port, 0 when the file gives none.
ServerSections == [present : {TRUE}, port : {0, 9090}]

Servers == {Absent} \cup ServerSections

\* filters: envoy is nil, has an empty Uri, or a Uri.
Filters ==
  {Absent} \cup
    [present : {TRUE}, envoy : {"nil", "noUri", "ok"}, nginx : NginxConfigs,
     server : Servers]

\* ExporterConfig: nil, no grpc section, a grpc port of 0, or a port.
Exporters == {"nil", "noGrpc", "port0", "ok"}

\* Lists of at most MaxEntries entries of names from N.
EntryLists(N) == UNION {[1..n -> [name : N, ns : Namespaces]] : n \in 0..MaxEntries}

\* receivers: at most MaxEntries entries in its two lists together.
Receivers ==
  {Absent} \cup
    {r \in [present : {TRUE}, meshes : EntryLists(MeshNames),
            others : EntryLists(OtherNames)] :
       Len(r.meshes) + Len(r.others) <= MaxEntries}

\* A config file: whether viper can read and unmarshal it, and its sections.
Files ==
  [readable : BOOLEAN,
   filters : Filters,
   exporter : Exporters,
   receivers : Receivers]

\* The checks of validate before its loops, in the order the code makes
\* them; reached only once c.Filters is known not to be nil.
PreCheck(c) ==
  IF c.filters.envoy = "noUri" THEN "envoyUri"
  ELSE IF c.exporter = "nil" THEN "noExporter"
  ELSE IF c.exporter = "noGrpc" THEN "noGrpc"
  ELSE IF c.exporter = "port0" THEN "grpcPort"
  ELSE IF ~c.receivers.present THEN "noReceivers"
  ELSE "none"

\* Fault model: the istio sidecar check of the mesh loop is left out.
MeshCheckNoSidecar(m, f) ==
  IF m.name = "" THEN "meshName"
  ELSE IF m.ns = "" THEN "meshNamespace"
  ELSE "none"

\* The body of the loop over c.Receivers.ServiceMeshes, for one entry.
MeshCheck(m, f) ==
  IF m.name = "" THEN "meshName"
  ELSE IF m.ns = "" THEN "meshNamespace"
  ELSE IF m.name = "istio-sidecar" /\ f.envoy = "nil" THEN "sidecarEnvoy"
  ELSE "none"

\* The body of the loop over c.Receivers.Others, for one entry: only the
\* nginx-inc controller has checks beyond its name, and its fields are read
\* only once c.Filters.NginxIngress is known not to be nil.
OtherCheck(o, f) ==
  IF o.name = "" THEN "otherName"
  ELSE IF o.name # "nginx-inc" THEN "none"
  ELSE IF o.ns = "" THEN "nginxNamespace"
  ELSE IF ~f.nginx.present THEN "nginxConfig"
  ELSE IF "deploymentName" \notin f.nginx.names THEN "nginxDeployment"
  ELSE IF "configMapName" \notin f.nginx.names THEN "nginxConfigMap"
  ELSE IF "njsConfigMapName" \notin f.nginx.names THEN "nginxNjs"
  ELSE "none"

\* Fault model: New defaults a missing server section but keeps a port of 0.
DefaultedPortKeepZero(f) ==
  IF ~f.server.present THEN SentryFlowDefaultFilterServerPort
  ELSE f.server.port

\* The filter server port after New's defaulting: a missing server section
\* or a port of 0 becomes SentryFlowDefaultFilterServerPort.
DefaultedPort(f) ==
  IF ~f.server.present \/ f.server.port = 0 THEN SentryFlowDefaultFilterServerPort
  ELSE f.server.port

Error(r) == [kind |-> "error", reason |-> r]

\* New has not returned yet.
Pending == [kind |-> "pending"]

-----------------------------------------------------------------------------
(* One call of config.New on a file, one step per iteration of validate's *)
(* loops.  pc is where the call is: "new" before the file is read,         *)
(* "meshes" and "others" in the two loops with idx entries done, "done"    *)
(* once New has returned result.                                           *)
VARIABLES file, pc, idx, result

vars == <<file, pc, idx, result>>

Init ==
  /\ file \in Files
  /\ pc = "new"
  /\ idx = 0
  /\ result = Pending

Return(r) == result' = r /\ pc' = "done"

\* New up to validate's loops: a failing viper.ReadInConfig or
\* viper.Unmarshal returns the error; config.Filters.Server is then
\* dereferenced, which panics when the file has no filters section; then
\* validate's checks before its loops.
Load ==
  /\ pc = "new"
  /\ UNCHANGED <<file, idx>>
  /\ \/ ~file.readable /\ Return(Error("read"))
     \/ file.readable /\ ~file.filters.present /\ Return([kind |-> "panic"])
     \/ /\ file.readable /\ file.filters.present /\ PreCheck(file) # "none"
        /\ Return(Error(PreCheck(file)))
     \/ /\ file.readable /\ file.filters.present /\ PreCheck(file) = "none"
        /\ pc' = "meshes" /\ UNCHANGED result

\* One iteration of the loop over the service meshes: an error returns it.
MeshStep ==
  /\ pc = "meshes"
  /\ idx < Len(file.receivers.meshes)
  /\ UNCHANGED file
  /\ LET r == MeshCheck(file.receivers.meshes[idx + 1], file.filters)
     IN  \/ r # "none" /\ Return(Error(r)) /\ UNCHANGED idx
         \/ r = "none" /\ idx' = idx + 1 /\ UNCHANGED <<pc, result>>

\* The mesh loop ends and the loop over the other receivers starts.
MeshesDone ==
  /\ pc = "meshes"
  /\ idx = Len(file.receivers.meshes)
  /\ pc' = "others" /\ idx' = 0
  /\ UNCHANGED <<file, result>>

\* One iteration of the loop over the other receivers.
OtherStep ==
  /\ pc = "others"
  /\ idx < Len(file.receivers.others)
  /\ UNCHANGED file
  /\ LET r == OtherCheck(file.receivers.others[idx + 1], file.filters)
     IN  \/ r # "none" /\ Return(Error(r)) /\ UNCHANGED idx
         \/ r = "none" /\ idx' = idx + 1 /\ UNCHANGED <<pc, result>>

\* validate returns nil and New returns the config with its defaulted port
\* (json.Marshal of the config, for the debug log, cannot fail on these
\* types).
Finish ==
  /\ pc = "others"
  /\ idx = Len(file.receivers.others)
  /\ Return([kind |-> "ok", port |-> DefaultedPort(file.filters)])
  /\ UNCHANGED <<file, idx>>

Next == Load \/ MeshStep \/ MeshesDone \/ OtherStep \/ Finish

Spec == Init /\ [][Next]_vars

-----------------------------------------------------------------------------
Reasons ==
  {"read", "noFilters", "envoyUri", "noExporter", "noGrpc", "grpcPort",
   "noReceivers", "meshName", "meshNamespace", "sidecarEnvoy", "otherName",
   "nginxNamespace", "nginxConfig", "nginxDeployment", "nginxConfigMap",
   "nginxNjs"}

(* New returns a config with a usable (non-zero) filter server port, an    *)
(* error with a reason, or panics; until it returns, result is Pending.  *)
TypeOK ==
  /\ file \in Files
  /\ pc \in {"new", "meshes", "others", "done"}
  /\ idx \in 0..MaxEntries
  /\ result \in {Pending}
                \cup [kind : {"ok"}, port : {SentryFlowDefaultFilterServerPort, 9090}]
                \cup [kind : {"error"}, reason : Reasons] \cup [kind : {"panic"}]

\* What the receivers of a valid config require, stated over all entries.
EntryValid(l, P(_)) == \A i \in 1..Len(l) : P(l[i])

ValidFile(c) ==
  /\ c.readable
  /\ c.filters.present /\ c.filters.envoy # "noUri"
  /\ c.exporter = "ok"
  /\ c.receivers.present
  /\ EntryValid(c.receivers.meshes,
       LAMBDA m : m.name # "" /\ m.ns # ""
                  /\ (m.name = "istio-sidecar" => c.filters.envoy # "nil"))
  /\ EntryValid(c.receivers.others,
       LAMBDA o : o.name # ""
                  /\ (o.name = "nginx-inc" =>
                        o.ns # "" /\ c.filters.nginx.present
                        /\ c.filters.nginx.names = NginxFields))

(* New accepts exactly the files every receiver of which can start: it     *)
(* returns a config precisely when the file is readable, has an envoy Uri  *)
(* if it has an envoy section, a gRPC port, and every mesh and other       *)
(* receiver is named and has what its receiver needs; the config carries   *)
(* the configured filter port, or 8081 when none is set.  (Checked once   *)
(* New has returned without a panic.)                                      *)
NewMatchesReference ==
  result.kind \in {"ok", "error"} =>
    /\ result.kind = "ok" <=> ValidFile(file)
    /\ result.kind = "ok" =>
         result.port = IF file.filters.server.present /\ file.filters.server.port # 0
                       THEN file.filters.server.port
                       ELSE SentryFlowDefaultFilterServerPort

(* Every configuration error is reported (validate's first check, "no      *)
(* filter configuration provided"): New returns an error for a file        *)
(* without a filters section, and never panics, so a bad edit seen by the  *)
(* config watcher is logged and ignored rather than ending the process.    *)
NoPanicOnLoad == result.kind # "panic"
=============================================================================
