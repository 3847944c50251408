----------------------------- MODULE HttpClient -----------------------------
(***************************************************************************)
(* buildHTTPClient of the HTTP webhook exporter (exporter/httpexporter.go):*)
(* one http.Client shared by every webhook, whose transport carries the    *)
(* single tls.Config folded from the TLS blocks of all HTTPS webhooks.     *)
(*                                                                         *)
(* A webhook is its URL scheme and its optional TLS block.  File paths are *)
(* names: a CA or a client certificate path either names a readable file   *)
(* ("caA", "caB", "crt") or one os.ReadFile / tls.LoadX509KeyPair fails on *)
(* ("unreadable").                                                         *)
(***************************************************************************)
EXTENDS Naturals, Sequences

CONSTANT MaxWebhooks   \* the longest webhook list the run enumerates

ASSUME MaxWebhooksAssumption == MaxWebhooks \in Nat

\* URL scheme prefixes, as written in the config, and strings.ToLower of them.
Schemes == {"http://", "https://", "HTTPS://"}
Lower(s) == IF s = "HTTPS://" THEN "https://" ELSE s

CAPaths   == {"", "caA", "caB", "unreadable"}
CertPaths == {"", "crt", "unreadable"}
KeyPaths  == {"", "key"}

\* config.WebhookTLSConfig.
TLSBlocks == [skip : BOOLEAN, ca : CAPaths, cert : CertPaths, key : KeyPaths]

\* config.WebhookConfig, with TLS == nil as hasTLS = FALSE.
NoBlock == [skip |-> FALSE, ca |-> "", cert |-> "", key |-> ""]
Webhooks ==
  [scheme : Schemes, hasTLS : {FALSE}, tls : {NoBlock}]
    \cup [scheme : Schemes, hasTLS : {TRUE}, tls : TLSBlocks]

\* What buildHTTPClient returns: an error, or the client's transport.  With
\* present = FALSE the transport has no TLSClientConfig (Go's defaults);
\* "system" is a nil RootCAs (the host's roots), "none" no client certificate.
Results ==
  [err : BOOLEAN, present : BOOLEAN, skip : BOOLEAN,
   roots : {"system", "caA", "caB"}, cert : {"none", "crt"}]

Empty == [err |-> FALSE, present |-> FALSE, skip |-> FALSE,
          roots |-> "system", cert |-> "none"]

Failed == [err |-> TRUE, present |-> FALSE, skip |-> FALSE,
           roots |-> "system", cert |-> "none"]

IsHTTPS(w) == Lower(w.scheme) = "https://"

\* Fault model: the loop lacks the "continue" on URLs that are not HTTPS.
FoldWebhookAnyScheme(acc, w) ==
  IF ~w.hasTLS THEN acc
  ELSE LET t == w.tls IN
       IF t.ca = "unreadable" \/ (t.cert = "unreadable" /\ t.key # "") THEN Failed
       ELSE [acc EXCEPT !.present = TRUE,
                        !.roots = IF t.ca # "" THEN t.ca ELSE @,
                        !.cert  = IF t.cert # "" /\ t.key # "" THEN t.cert ELSE @,
                        !.skip  = @ \/ t.skip]

\* Fault model: the error of os.ReadFile on the CA is not checked, so the
\* pool is built from nothing and RootCAs trusts no CA at all.
FoldWebhookIgnoreReadError(acc, w) ==
  IF ~IsHTTPS(w) \/ ~w.hasTLS THEN acc
  ELSE LET t == w.tls IN
       IF t.cert = "unreadable" /\ t.key # "" THEN Failed
       ELSE [acc EXCEPT !.present = TRUE,
                        !.roots = IF t.ca # "" THEN t.ca ELSE @,
                        !.cert  = IF t.cert # "" /\ t.key # "" THEN t.cert ELSE @,
                        !.skip  = @ \/ t.skip]

\* One iteration of the loop over cfg.Exporter.HTTP.Webhooks: skip URLs that
\* are not HTTPS and webhooks without a TLS block; create the tls.Config on
\* the first block; a CA replaces RootCAs, a cert/key pair replaces
\* Certificates, InsecureSkipVerify is only ever switched on.  A file that
\* cannot be read makes buildHTTPClient return the error.
FoldWebhook(acc, w) ==
  IF ~IsHTTPS(w) \/ ~w.hasTLS THEN acc
  ELSE LET t == w.tls IN
       IF t.ca = "unreadable" \/ (t.cert = "unreadable" /\ t.key # "") THEN Failed
       ELSE [acc EXCEPT !.present = TRUE,
                        !.roots = IF t.ca # "" THEN t.ca ELSE @,
                        !.cert  = IF t.cert # "" /\ t.key # "" THEN t.cert ELSE @,
                        !.skip  = @ \/ t.skip]

-----------------------------------------------------------------------------
(* buildHTTPClient as the loop it is: one step per webhook of the list.    *)
VARIABLES
  whs,     \* cfg.Exporter.HTTP.Webhooks
  pos,     \* how many webhooks the loop has looked at
  client   \* the transport built so far, or the error returned

vars == <<whs, pos, client>>

WebhookLists == UNION {[1..n -> Webhooks] : n \in 0..MaxWebhooks}

\* The transport before the loop: Go's defaults, no tls.Config yet.
Init ==
  /\ whs \in WebhookLists
  /\ pos = 0
  /\ client = Empty

\* One iteration of the range loop; an error returns from buildHTTPClient.
Iterate ==
  /\ ~client.err
  /\ pos < Len(whs)
  /\ client' = FoldWebhook(client, whs[pos + 1])
  /\ pos' = pos + 1
  /\ UNCHANGED whs

\* The client is built once, at exporter start.
Next == Iterate

Spec == Init /\ [][Next]_vars

\* buildHTTPClient has returned: the error, or the client after the loop.
Returned == client.err \/ pos = Len(whs)

-----------------------------------------------------------------------------
(* The result is an error or a transport configuration.                    *)
TypeOK ==
  /\ whs \in WebhookLists
  /\ pos \in 0..Len(whs)
  /\ client \in Results

\* What the first n webhooks of list l ask of the transport.
Secured(l, n) == {i \in 1..n : IsHTTPS(l[i]) /\ l[i].hasTLS}
Bad(t) == t.ca = "unreadable" \/ (t.cert = "unreadable" /\ t.key # "")
HasPair(t) == t.cert # "" /\ t.key # ""

\* The last of those secured webhooks that sets a CA, or a client pair.
LastCA(l, n) ==
  {i \in Secured(l, n) : l[i].tls.ca # ""
                         /\ \A j \in Secured(l, n) : j > i => l[j].tls.ca = ""}
LastPair(l, n) ==
  {i \in Secured(l, n) : HasPair(l[i].tls)
                         /\ \A j \in Secured(l, n) : j > i => ~HasPair(l[j].tls)}

\* Transport c is the one the first n webhooks of l describe, read
\* declaratively.
MatchesUpTo(l, c, n) ==
  IF \E i \in Secured(l, n) : Bad(l[i].tls)
  THEN c.err
  ELSE /\ ~c.err
       /\ c.present = (Secured(l, n) # {})
       /\ c.skip = (\E i \in Secured(l, n) : l[i].tls.skip)
       /\ c.roots = IF LastCA(l, n) = {} THEN "system"
                    ELSE l[CHOOSE i \in LastCA(l, n) : TRUE].tls.ca
       /\ c.cert = IF LastPair(l, n) = {} THEN "none"
                   ELSE l[CHOOSE i \in LastPair(l, n) : TRUE].tls.cert

(* buildHTTPClient computes the transport the webhook list describes:      *)
(* once it returns, it has failed exactly when a secured webhook names a   *)
(* file that cannot be read; otherwise it has a tls.Config exactly when    *)
(* some HTTPS webhook has a TLS block, skips verification exactly when one *)
(* of those asks, and uses the CA and the client pair of the last block    *)
(* that sets them.                                                         *)
BuildMatchesReference == Returned => MatchesUpTo(whs, client, Len(whs))

\* How the shared client verifies the server of HTTPS webhook w.
Verification(c) ==
  [skip |-> c.present /\ c.skip, roots |-> IF c.present THEN c.roots ELSE "system"]

\* How the spec says webhook w is verified: by default without a TLS block,
\* by its own block otherwise.
OwnPolicy(w) ==
  IF ~w.hasTLS THEN [skip |-> FALSE, roots |-> "system"]
  ELSE [skip |-> w.tls.skip, roots |-> IF w.tls.ca = "" THEN "system" ELSE w.tls.ca]

(* Each HTTPS webhook gets the TLS policy it was configured with (spec 4.3 *)
(* and 8.4): an HTTPS webhook with no TLS block is verified by default,    *)
(* and one with a block by that block's CA and skip-verify flag.           *)
PerWebhookTLSPolicy ==
  Returned /\ ~client.err =>
    \A i \in 1..Len(whs) : IsHTTPS(whs[i]) => Verification(client) = OwnPolicy(whs[i])
=============================================================================
