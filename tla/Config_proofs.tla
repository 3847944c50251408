---------------------------- MODULE Config_proofs ----------------------------
(***************************************************************************)
(* Proofs about config.New for config files of every size: the result is  *)
(* well formed, and New accepts exactly the valid files, with the         *)
(* defaulted filter port.  The induction of validate's loops is the       *)
(* invariance of MeshesOK and OthersOK: the entries the loop has passed   *)
(* have all their checks hold.                                            *)
(***************************************************************************)
EXTENDS Config, SequenceTheorems, TLAPS

\* The file got past New's reading and validate's checks before its loops.
Loaded(c) == c.readable /\ c.filters.present /\ PreCheck(c) = "none"

\* The first n service mesh entries, and other entries, pass their checks.
MeshesOK(c, n) ==
  \A i \in 1..n : MeshCheck(c.receivers.meshes[i], c.filters) = "none"
OthersOK(c, n) ==
  \A i \in 1..n : OtherCheck(c.receivers.others[i], c.filters) = "none"

\* The inductive invariant of New's run.
IInv ==
  /\ TypeOK
  /\ (pc # "done") = (result = Pending)
  /\ pc = "new" => idx = 0
  /\ pc = "meshes" =>
       /\ Loaded(file)
       /\ idx <= Len(file.receivers.meshes)
       /\ MeshesOK(file, idx)
  /\ pc = "others" =>
       /\ Loaded(file)
       /\ idx <= Len(file.receivers.others)
       /\ MeshesOK(file, Len(file.receivers.meshes))
       /\ OthersOK(file, idx)
  /\ NewMatchesReference

(* A receiver list of EntryLists is a sequence of entries. *)
LEMMA EntryListsSeq ==
  ASSUME NEW N
  PROVE  EntryLists(N) \subseteq Seq([name : N, ns : Namespaces])
<1> SUFFICES ASSUME NEW n \in 0..MaxEntries, NEW l \in [1..n -> [name : N, ns : Namespaces]]
             PROVE  l \in Seq([name : N, ns : Namespaces])
  BY DEF EntryLists
<1>1. n \in Nat
  BY MaxEntriesAssumption
<1>2. QED BY <1>1, SeqDef, ZenonT(40)

(* The sections of a file that has a receivers section. *)
LEMMA FileFacts ==
  ASSUME NEW c \in Files
  PROVE  /\ c.filters \in Filters
         /\ c.filters.present => c.filters.server \in Servers
         /\ c.filters.present => c.filters.nginx \in NginxConfigs
         /\ c.receivers.present =>
              /\ c.receivers.meshes \in Seq([name : MeshNames, ns : Namespaces])
              /\ c.receivers.others \in Seq([name : OtherNames, ns : Namespaces])
              /\ Len(c.receivers.meshes) + Len(c.receivers.others) <= MaxEntries
<1>1. c.filters \in Filters /\ c.receivers \in Receivers
  BY DEF Files
<1>2. ASSUME c.filters.present
      PROVE  c.filters.server \in Servers /\ c.filters.nginx \in NginxConfigs
  <2>1. c.filters # Absent
    BY <1>2 DEF Absent
  <2>2. c.filters \in [present : {TRUE}, envoy : {"nil", "noUri", "ok"},
                       nginx : NginxConfigs, server : Servers]
    BY <1>1, <2>1 DEF Filters
  <2>3. QED BY <2>2
<1>3. ASSUME c.receivers.present
      PROVE  /\ c.receivers.meshes \in EntryLists(MeshNames)
             /\ c.receivers.others \in EntryLists(OtherNames)
             /\ Len(c.receivers.meshes) + Len(c.receivers.others) <= MaxEntries
  <2>1. c.receivers # Absent
    BY <1>3 DEF Absent
  <2>2. c.receivers \in {r \in [present : {TRUE}, meshes : EntryLists(MeshNames),
                                others : EntryLists(OtherNames)] :
                           Len(r.meshes) + Len(r.others) <= MaxEntries}
    BY <1>1, <2>1 DEF Receivers
  <2>3. QED BY <2>2
<1>4. QED BY <1>1, <1>2, <1>3, EntryListsSeq

(* The reasons a check returns. *)
CheckResults == Reasons \cup {"none"}

(* New gets past its reading and validate's first checks exactly when the  *)
(* file is readable and has a filters section with an envoy Uri where it   *)
(* has an envoy section, a gRPC port and a receivers section; a failing    *)
(* check names one of the reasons.                                         *)
LEMMA LoadedIff ==
  ASSUME NEW c \in Files
  PROVE  /\ c.filters.present => PreCheck(c) \in CheckResults
         /\ Loaded(c) <=> /\ c.readable /\ c.filters.present
                          /\ c.filters.envoy # "noUri" /\ c.exporter = "ok"
                          /\ c.receivers.present
<1>1. c.exporter \in Exporters
  BY DEF Files
<1>2. QED BY <1>1 DEF Loaded, PreCheck, CheckResults, Reasons, Exporters

(* An entry of the mesh loop passes exactly when it is named, has a        *)
(* namespace and, for the istio sidecar, an envoy filter section.          *)
LEMMA MeshCheckIff ==
  ASSUME NEW m, NEW f
  PROVE  /\ MeshCheck(m, f) \in CheckResults
         /\ MeshCheck(m, f) = "none" <=>
              m.name # "" /\ m.ns # "" /\ (m.name = "istio-sidecar" => f.envoy # "nil")
  BY DEF MeshCheck, CheckResults, Reasons

(* An entry of the other-receiver loop passes exactly when it is named     *)
(* and, for the nginx-inc controller, has a namespace and an nginx ingress *)
(* section with all three names.                                           *)
LEMMA OtherCheckIff ==
  ASSUME NEW o, NEW f, f.nginx \in NginxConfigs
  PROVE  /\ OtherCheck(o, f) \in CheckResults
         /\ OtherCheck(o, f) = "none" <=>
              /\ o.name # ""
              /\ o.name = "nginx-inc" =>
                   o.ns # "" /\ f.nginx.present /\ f.nginx.names = NginxFields
<1>1. OtherCheck(o, f) \in CheckResults
  BY DEF OtherCheck, CheckResults, Reasons
<1> SUFFICES OtherCheck(o, f) = "none" <=>
               /\ o.name # ""
               /\ o.name = "nginx-inc" =>
                    o.ns # "" /\ f.nginx.present /\ f.nginx.names = NginxFields
  BY <1>1
<1>2. CASE ~f.nginx.present
  BY <1>2 DEF OtherCheck
<1>3. CASE f.nginx.present
  <2>1. f.nginx # Absent
    BY <1>3 DEF Absent
  <2>2. f.nginx.names \subseteq NginxFields
    BY <2>1 DEF NginxConfigs
  <2>3. f.nginx.names = NginxFields <=>
          /\ "deploymentName" \in f.nginx.names
          /\ "configMapName" \in f.nginx.names
          /\ "njsConfigMapName" \in f.nginx.names
    BY <2>2 DEF NginxFields
  <2>4. QED BY <1>3, <2>3 DEF OtherCheck
<1>4. QED BY <1>2, <1>3

(* ValidFile is what New's checks, the ones before the loops and those of *)
(* every iteration of both loops, accept.                                  *)
LEMMA ValidIff ==
  ASSUME NEW c \in Files
  PROVE  ValidFile(c) <=> /\ Loaded(c)
                          /\ MeshesOK(c, Len(c.receivers.meshes))
                          /\ OthersOK(c, Len(c.receivers.others))
<1>1. CASE ~Loaded(c)
  BY <1>1, LoadedIff DEF ValidFile
<1>2. CASE Loaded(c)
  <2>1. c.filters.present /\ c.receivers.present
    BY <1>2, LoadedIff
  <2>2. c.filters.nginx \in NginxConfigs
    BY <2>1, FileFacts
  <2>3. EntryValid(c.receivers.meshes,
          LAMBDA m : m.name # "" /\ m.ns # ""
                     /\ (m.name = "istio-sidecar" => c.filters.envoy # "nil"))
          <=> MeshesOK(c, Len(c.receivers.meshes))
    BY MeshCheckIff DEF EntryValid, MeshesOK
  <2>4. EntryValid(c.receivers.others,
          LAMBDA o : o.name # ""
                     /\ (o.name = "nginx-inc" =>
                           o.ns # "" /\ c.filters.nginx.present
                           /\ c.filters.nginx.names = NginxFields))
          <=> OthersOK(c, Len(c.receivers.others))
    BY <2>2, OtherCheckIff DEF EntryValid, OthersOK
  <2>5. QED BY <1>2, <2>3, <2>4, LoadedIff DEF ValidFile
<1>3. QED BY <1>1, <1>2

(* A server section that is present has one of the ports the files use. *)
LEMMA ServerPort ==
  ASSUME NEW srv \in Servers, srv.present
  PROVE  srv.port \in {0, 9090}
<1>1. srv = Absent \/ srv \in ServerSections
  BY DEF Servers
<1>2. srv # Absent
  BY DEF Absent
<1>3. srv \in ServerSections
  BY <1>1, <1>2
<1>4. QED BY <1>3 DEF ServerSections

(* New's defaulting gives the configured port, or 8081 when none is set;   *)
(* either way a port that is not 0.                                        *)
LEMMA PortIff ==
  ASSUME NEW f, f.server \in Servers
  PROVE  /\ DefaultedPort(f) \in {SentryFlowDefaultFilterServerPort, 9090}
         /\ DefaultedPort(f) = IF f.server.present /\ f.server.port # 0
                               THEN f.server.port
                               ELSE SentryFlowDefaultFilterServerPort
<1>1. CASE f.server.present
  <2>1. f.server.port \in {0, 9090}
    BY <1>1, ServerPort
  <2>2. QED BY <1>1, <2>1 DEF DefaultedPort, SentryFlowDefaultFilterServerPort
<1>2. CASE ~f.server.present
  BY <1>2 DEF DefaultedPort, SentryFlowDefaultFilterServerPort
<1>3. QED BY <1>1, <1>2

(* A call of New starts pending, before the file is read. *)
LEMMA IInvInit == Init => IInv
<1> SUFFICES ASSUME Init PROVE IInv
  OBVIOUS
<1>1. TypeOK
  BY MaxEntriesAssumption DEF Init, TypeOK, Pending
<1>2. QED BY <1>1 DEF Init, IInv, Pending, NewMatchesReference

(* A step on which New returns an error for a file that is not valid, or *)
(* panics, keeps the invariant.                                            *)
LEMMA StopStep ==
  ASSUME IInv, file' = file, idx' = idx, pc' = "done",
         \/ \E r \in Reasons : result' = Error(r) /\ ~ValidFile(file)
         \/ result' = [kind |-> "panic"]
  PROVE  IInv'
<1>1. CASE \E r \in Reasons : result' = Error(r) /\ ~ValidFile(file)
  <2>1. PICK r \in Reasons : result' = Error(r) /\ ~ValidFile(file)
    BY <1>1
  <2>2. result'.kind = "error" /\ result' # Pending
    BY <2>1 DEF Error, Pending
  <2>3. ~ValidFile(file')
    BY <2>1
  <2>4. TypeOK'
    BY <2>1 DEF IInv, TypeOK, Error
  <2>5. result'.kind = "ok" <=> ValidFile(file')
    BY <2>2, <2>3
  <2>6. result'.kind # "ok"
    BY <2>2
  <2>7. NewMatchesReference'
    BY <2>5, <2>6 DEF NewMatchesReference
  <2>8. QED BY <2>2, <2>4, <2>7 DEF IInv
<1>2. CASE result' = [kind |-> "panic"]
  <2>1. TypeOK'
    BY <1>2 DEF IInv, TypeOK
  <2>2. NewMatchesReference'
    BY <1>2 DEF NewMatchesReference
  <2>3. QED BY <1>2, <2>1, <2>2 DEF IInv, Pending
<1>3. QED BY <1>1, <1>2

(* Every step of New keeps the invariant. *)
LEMMA IInvStep == IInv /\ [Next]_vars => IInv'
<1> SUFFICES ASSUME IInv, [Next]_vars PROVE IInv'
  OBVIOUS
<1>T. TypeOK
  BY DEF IInv
<1>F. file \in Files
  BY <1>T DEF TypeOK
<1>1. CASE UNCHANGED vars
  BY <1>1 DEF vars, IInv, TypeOK, NewMatchesReference
<1>2. CASE Load
  <2>1. CASE ~file.readable
    <3>1. ~ValidFile(file)
      BY <2>1 DEF ValidFile
    <3>2. QED BY <1>2, <2>1, <3>1, StopStep DEF Load, Return, Reasons
  <2>2. CASE file.readable /\ ~file.filters.present
    BY <1>2, <2>2, StopStep DEF Load, Return
  <2>3. CASE file.readable /\ file.filters.present /\ PreCheck(file) # "none"
    <3>1. ~ValidFile(file) /\ PreCheck(file) \in Reasons
      BY <1>F, <2>3, ValidIff, LoadedIff DEF Loaded, CheckResults
    <3>2. QED BY <1>2, <2>3, <3>1, StopStep DEF Load, Return
  <2>4. CASE file.readable /\ file.filters.present /\ PreCheck(file) = "none"
    <3>1. pc' = "meshes" /\ UNCHANGED <<file, idx, result>> /\ pc = "new"
      BY <1>2, <2>4 DEF Load
    <3>2. Len(file.receivers.meshes) \in Nat /\ file.receivers.present
      BY <1>F, <2>4, FileFacts, LoadedIff, LenProperties DEF Loaded
    <3>3. idx = 0 /\ result = Pending
      BY <3>1 DEF IInv
    <3>4. QED BY <1>T, <2>4, <3>1, <3>2, <3>3
              DEF IInv, TypeOK, Loaded, MeshesOK, NewMatchesReference, Pending
  <2>5. QED BY <2>1, <2>2, <2>3, <2>4
<1>3. CASE MeshStep
  <2> DEFINE ms == file.receivers.meshes
             m == ms[idx + 1]
  <2> USE DEF ms, m
  <2>1. /\ pc = "meshes" /\ Loaded(file) /\ MeshesOK(file, idx)
        /\ idx \in Nat /\ idx < Len(ms) /\ result = Pending
    BY <1>3, <1>T DEF MeshStep, IInv, TypeOK
  <2>2. /\ file.receivers.present
        /\ ms \in Seq([name : MeshNames, ns : Namespaces])
        /\ Len(ms) \in Nat /\ Len(ms) <= MaxEntries
    <3>1. file.filters.present /\ file.receivers.present
      BY <1>F, <2>1, LoadedIff
    <3>2. /\ file.receivers.meshes \in Seq([name : MeshNames, ns : Namespaces])
          /\ file.receivers.others \in Seq([name : OtherNames, ns : Namespaces])
          /\ Len(file.receivers.meshes) + Len(file.receivers.others) <= MaxEntries
          /\ file.filters.nginx \in NginxConfigs
      BY <1>F, <3>1, FileFacts
    <3>3. Len(file.receivers.meshes) \in Nat /\ Len(file.receivers.others) \in Nat
      BY <3>2, LenProperties
    <3>4. \A a, b \in Nat : a + b <= MaxEntries => a <= MaxEntries /\ b <= MaxEntries
      BY MaxEntriesAssumption
    <3>5. QED BY <3>1, <3>2, <3>3, <3>4, Zenon DEF ms
  <2>3. CASE MeshCheck(m, file.filters) # "none"
    <3>1. ~MeshesOK(file, Len(ms))
      BY <2>1, <2>3 DEF MeshesOK
    <3>2. ~ValidFile(file) /\ MeshCheck(m, file.filters) \in Reasons
      BY <1>F, <2>3, <3>1, ValidIff, MeshCheckIff DEF CheckResults
    <3>3. QED BY <1>3, <2>3, <3>2, StopStep DEF MeshStep, Return
  <2>4. CASE MeshCheck(m, file.filters) = "none"
    <3>1. idx' = idx + 1 /\ UNCHANGED <<file, pc, result>>
      BY <1>3, <2>4 DEF MeshStep
    <3>2. MeshesOK(file, idx + 1)
      BY <2>1, <2>4 DEF MeshesOK
    <3>3. idx + 1 \in 0..MaxEntries /\ idx + 1 <= Len(ms)
      BY <2>1, <2>2, MaxEntriesAssumption
    <3>4. QED BY <1>T, <2>1, <3>1, <3>2, <3>3
              DEF IInv, TypeOK, NewMatchesReference, Pending
  <2>5. QED BY <2>3, <2>4
<1>4. CASE MeshesDone
  <2>1. /\ pc' = "others" /\ idx' = 0 /\ UNCHANGED <<file, result>>
        /\ Loaded(file) /\ MeshesOK(file, Len(file.receivers.meshes))
        /\ result = Pending
    BY <1>4 DEF MeshesDone, IInv
  <2>2. Len(file.receivers.others) \in Nat
    BY <1>F, <2>1, FileFacts, LoadedIff, LenProperties DEF Loaded
  <2>3. OthersOK(file, 0)
    BY DEF OthersOK
  <2>4. TypeOK'
    BY <1>T, <2>1, MaxEntriesAssumption DEF TypeOK
  <2>5. NewMatchesReference'
    BY <2>1 DEF NewMatchesReference, Pending
  <2>6. QED BY <2>1, <2>2, <2>3, <2>4, <2>5 DEF IInv, Pending
<1>5. CASE OtherStep
  <2> DEFINE ms == file.receivers.meshes
             os == file.receivers.others
             o == os[idx + 1]
  <2> USE DEF ms, os, o
  <2>1. /\ pc = "others" /\ Loaded(file) /\ MeshesOK(file, Len(ms))
        /\ OthersOK(file, idx)
        /\ idx \in Nat /\ idx < Len(os) /\ result = Pending
    BY <1>5, <1>T DEF OtherStep, IInv, TypeOK
  <2>2. /\ file.receivers.present
        /\ os \in Seq([name : OtherNames, ns : Namespaces])
        /\ Len(os) \in Nat /\ Len(os) <= MaxEntries
        /\ file.filters.nginx \in NginxConfigs
    <3>1. file.filters.present /\ file.receivers.present
      BY <1>F, <2>1, LoadedIff
    <3>2. /\ file.receivers.meshes \in Seq([name : MeshNames, ns : Namespaces])
          /\ file.receivers.others \in Seq([name : OtherNames, ns : Namespaces])
          /\ Len(file.receivers.meshes) + Len(file.receivers.others) <= MaxEntries
          /\ file.filters.nginx \in NginxConfigs
      BY <1>F, <3>1, FileFacts
    <3>3. Len(file.receivers.meshes) \in Nat /\ Len(file.receivers.others) \in Nat
      BY <3>2, LenProperties
    <3>4. \A a, b \in Nat : a + b <= MaxEntries => a <= MaxEntries /\ b <= MaxEntries
      BY MaxEntriesAssumption
    <3>5. QED BY <3>1, <3>2, <3>3, <3>4, Zenon DEF ms, os
  <2>3. CASE OtherCheck(o, file.filters) # "none"
    <3>1. ~OthersOK(file, Len(os))
      BY <2>1, <2>3 DEF OthersOK
    <3>2. ~ValidFile(file) /\ OtherCheck(o, file.filters) \in Reasons
      BY <1>F, <2>2, <2>3, <3>1, ValidIff, OtherCheckIff DEF CheckResults
    <3>3. QED BY <1>5, <2>3, <3>2, StopStep DEF OtherStep, Return
  <2>4. CASE OtherCheck(o, file.filters) = "none"
    <3>1. idx' = idx + 1 /\ UNCHANGED <<file, pc, result>>
      BY <1>5, <2>4 DEF OtherStep
    <3>2. OthersOK(file, idx + 1)
      BY <2>1, <2>4 DEF OthersOK
    <3>3. idx + 1 \in 0..MaxEntries /\ idx + 1 <= Len(os)
      BY <2>1, <2>2, MaxEntriesAssumption
    <3>4. QED BY <1>T, <2>1, <3>1, <3>2, <3>3
              DEF IInv, TypeOK, NewMatchesReference, Pending
  <2>5. QED BY <2>3, <2>4
<1>6. CASE Finish
  <2>1. /\ Loaded(file) /\ MeshesOK(file, Len(file.receivers.meshes))
        /\ OthersOK(file, Len(file.receivers.others))
    BY <1>6 DEF Finish, IInv
  <2>2. ValidFile(file)
    BY <1>F, <2>1, ValidIff
  <2>3. file.filters.server \in Servers
    BY <1>F, <2>1, FileFacts, LoadedIff
  <2>4. /\ DefaultedPort(file.filters) \in {SentryFlowDefaultFilterServerPort, 9090}
        /\ DefaultedPort(file.filters) =
             IF file.filters.server.present /\ file.filters.server.port # 0
             THEN file.filters.server.port
             ELSE SentryFlowDefaultFilterServerPort
    BY <2>3, PortIff
  <2>5. /\ result' = [kind |-> "ok", port |-> DefaultedPort(file.filters)]
        /\ pc' = "done" /\ UNCHANGED <<file, idx>>
    BY <1>6 DEF Finish, Return
  <2>6. TypeOK'
    BY <1>T, <2>4, <2>5 DEF TypeOK
  <2>7. NewMatchesReference'
    BY <2>2, <2>4, <2>5 DEF NewMatchesReference
  <2>8. QED BY <2>5, <2>6, <2>7 DEF IInv, Pending
<1>7. QED BY <1>1, <1>2, <1>3, <1>4, <1>5, <1>6 DEF Next

(* Type correctness of config.New, for files with any number of receiver  *)
(* entries: it returns a config whose filter port is not 0, an error with *)
(* one of validate's reasons, or panics.                                   *)
THEOREM TypeCorrect == Spec => []TypeOK
<1>1. IInv => TypeOK
  BY DEF IInv
<1>2. QED BY <1>1, IInvInit, IInvStep, PTL DEF Spec

(* config.New accepts exactly the valid files, with the configured filter *)
(* port or 8081: validate's early returns and its two loops check every    *)
(* condition of ValidFile, and nothing else.                               *)
THEOREM AcceptsExactlyValid == Spec => []NewMatchesReference
<1>1. IInv => NewMatchesReference
  BY DEF IInv
<1>2. QED BY <1>1, IInvInit, IInvStep, PTL DEF Spec
====
