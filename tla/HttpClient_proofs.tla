------------------------- MODULE HttpClient_proofs --------------------------
(***************************************************************************)
(* Proofs about buildHTTPClient for every webhook list, of every length:   *)
(* the result is well formed, and the loop computes the transport the      *)
(* declarative reading of the list gives.  The loop's induction is the     *)
(* invariance of MatchesUpTo(pos): after pos iterations the client is the  *)
(* one the first pos webhooks describe.                                    *)
(***************************************************************************)
EXTENDS HttpClient, SequenceTheorems, TLAPS

\* The inductive invariant of the loop.
IInv == TypeOK /\ MatchesUpTo(whs, client, pos)

(* A list of WebhookLists is a sequence of webhooks. *)
LEMMA ListsAreSeqs == \A l \in WebhookLists : l \in Seq(Webhooks) /\ Len(l) \in Nat
<1> SUFFICES ASSUME NEW n \in 0..MaxWebhooks, NEW l \in [1..n -> Webhooks]
             PROVE  l \in Seq(Webhooks) /\ Len(l) \in Nat
  BY DEF WebhookLists
<1>1. n \in Nat
  BY MaxWebhooksAssumption
<1>2. l \in Seq(Webhooks)
  BY <1>1, SeqDef
<1>3. QED BY <1>2, LenProperties

(* One iteration keeps the transport well formed: a CA or a client pair    *)
(* reaches it only once its file has been read.                            *)
LEMMA FoldType ==
  ASSUME NEW acc \in Results, NEW w \in Webhooks
  PROVE  FoldWebhook(acc, w) \in Results
<1>1. Failed \in Results
  BY DEF Failed, Results
<1>2. CASE ~IsHTTPS(w) \/ ~w.hasTLS
  BY <1>2 DEF FoldWebhook
<1>3. CASE IsHTTPS(w) /\ w.hasTLS
  <2> DEFINE t == w.tls
  <2> USE DEF t
  <2>1. t \in TLSBlocks
    BY <1>3 DEF Webhooks
  <2>2. CASE t.ca = "unreadable" \/ (t.cert = "unreadable" /\ t.key # "")
    BY <1>1, <1>3, <2>2 DEF FoldWebhook
  <2>3. CASE ~(t.ca = "unreadable" \/ (t.cert = "unreadable" /\ t.key # ""))
    <3>1. FoldWebhook(acc, w) =
            [acc EXCEPT !.present = TRUE,
                        !.roots = IF t.ca # "" THEN t.ca ELSE @,
                        !.cert  = IF t.cert # "" /\ t.key # "" THEN t.cert ELSE @,
                        !.skip  = @ \/ t.skip]
      BY <1>3, <2>3 DEF FoldWebhook
    <3>2. (IF t.ca # "" THEN t.ca ELSE acc.roots) \in {"system", "caA", "caB"}
      BY <2>1, <2>3 DEF TLSBlocks, CAPaths, Results
    <3>3. (IF t.cert # "" /\ t.key # "" THEN t.cert ELSE acc.cert) \in {"none", "crt"}
      BY <2>1, <2>3 DEF TLSBlocks, CertPaths, KeyPaths, Results
    <3>4. QED BY <2>1, <3>1, <3>2, <3>3 DEF Results, TLSBlocks
  <2>4. QED BY <2>2, <2>3
<1>4. QED BY <1>2, <1>3

(* The initial state satisfies the loop invariant: no webhook looked at,   *)
(* Go's default transport.                                                 *)
LEMMA IInvInit == Init => IInv
<1> SUFFICES ASSUME Init PROVE IInv
  OBVIOUS
<1>1. Secured(whs, 0) = {}
  BY DEF Secured
<1>2. LastCA(whs, 0) = {} /\ LastPair(whs, 0) = {}
  BY <1>1 DEF LastCA, LastPair
<1>3. TypeOK
  BY ListsAreSeqs DEF Init, TypeOK, Empty, Results
<1>4. QED BY <1>1, <1>2, <1>3 DEF Init, IInv, MatchesUpTo, Empty

(* One iteration keeps the loop invariant: the webhook at pos + 1 is       *)
(* either skipped, fails, or updates the fields its block sets.            *)
LEMMA IInvStep == IInv /\ [Next]_vars => IInv'
<1> SUFFICES ASSUME IInv, [Next]_vars PROVE IInv'
  OBVIOUS
<1>1. CASE UNCHANGED vars
  BY <1>1 DEF vars, IInv, TypeOK
<1>2. CASE Iterate
  <2> DEFINE n == pos
             w == whs[n + 1]
             t == w.tls
             l == whs
  <2> USE DEF n, w, t, l
  <2>1. /\ whs \in Seq(Webhooks) /\ Len(whs) \in Nat
        /\ n \in 0..(Len(whs) - 1) /\ n + 1 \in 1..Len(whs)
        /\ w \in Webhooks /\ client \in Results /\ ~client.err
    BY <1>2, ListsAreSeqs DEF IInv, TypeOK, Iterate
  <2>2. /\ whs' = whs /\ pos' = n + 1 /\ client' = FoldWebhook(client, w)
    BY <1>2 DEF Iterate
  <2>3. TypeOK'
    <3>1. client' \in Results
      BY <2>1, <2>2, FoldType
    <3>2. whs' \in WebhookLists /\ pos' \in 0..Len(whs')
      BY <2>1, <2>2 DEF IInv, TypeOK
    <3>3. QED BY <3>1, <3>2 DEF TypeOK
  <2>4. SUFFICES MatchesUpTo(l, client', n + 1)
    BY <2>2, <2>3 DEF IInv
  <2>5. MatchesUpTo(l, client, n) /\ ~\E i \in Secured(l, n) : Bad(l[i].tls)
    BY <2>1 DEF IInv, MatchesUpTo
  <2>6. CASE ~(IsHTTPS(w) /\ w.hasTLS)
    <3>1. Secured(l, n + 1) = Secured(l, n)
      BY <2>1, <2>6 DEF Secured
    <3>2. LastCA(l, n + 1) = LastCA(l, n) /\ LastPair(l, n + 1) = LastPair(l, n)
      BY <3>1 DEF LastCA, LastPair
    <3>3. client' = client
      BY <2>2, <2>6 DEF FoldWebhook
    <3>4. QED BY <2>5, <3>1, <3>2, <3>3 DEF MatchesUpTo
  <2>7. CASE IsHTTPS(w) /\ w.hasTLS
    <3>1. Secured(l, n + 1) = Secured(l, n) \cup {n + 1}
      BY <2>1, <2>7 DEF Secured
    <3>2. t \in TLSBlocks
      BY <2>1, <2>7 DEF Webhooks
    <3>3. CASE Bad(t)
      <4>1. client' = Failed
        BY <2>2, <2>7, <3>3 DEF FoldWebhook, Bad
      <4>2. \E i \in Secured(l, n + 1) : Bad(l[i].tls)
        BY <3>1, <3>3
      <4>3. QED BY <4>1, <4>2 DEF MatchesUpTo, Failed
    <3>4. CASE ~Bad(t)
      <4>1. client' = [client EXCEPT !.present = TRUE,
                                      !.roots = IF t.ca # "" THEN t.ca ELSE @,
                                      !.cert  = IF t.cert # "" /\ t.key # "" THEN t.cert ELSE @,
                                      !.skip  = @ \/ t.skip]
        BY <2>2, <2>7, <3>4 DEF FoldWebhook, Bad
      <4>2. ~\E i \in Secured(l, n + 1) : Bad(l[i].tls)
        BY <2>5, <3>1, <3>4
      <4>3. client.skip = (\E i \in Secured(l, n) : l[i].tls.skip)
        BY <2>5 DEF MatchesUpTo
      <4>4. client'.skip = (\E i \in Secured(l, n + 1) : l[i].tls.skip)
        BY <2>1, <4>1, <4>3, <3>1 DEF Results
      <4>5. client'.roots = IF LastCA(l, n + 1) = {} THEN "system"
                            ELSE l[CHOOSE i \in LastCA(l, n + 1) : TRUE].tls.ca
        <5>1. CASE t.ca # ""
          <6>1. LastCA(l, n + 1) = {n + 1}
            <7>1. n + 1 \in LastCA(l, n + 1)
              <8>1. n + 1 \in Secured(l, n + 1) /\ l[n + 1].tls.ca # ""
                BY <3>1, <5>1
              <8>2. \A j \in Secured(l, n + 1) : ~(j > n + 1)
                BY <2>1 DEF Secured
              <8>3. QED BY <8>1, <8>2 DEF LastCA
            <7>2. ASSUME NEW i \in LastCA(l, n + 1) PROVE i = n + 1
              <8>1. i \in Secured(l, n + 1) /\ \A j \in Secured(l, n + 1) : j > i => l[j].tls.ca = ""
                BY <7>2 DEF LastCA
              <8>2. i \in 1..(n + 1)
                BY <8>1 DEF Secured
              <8>3. ~(n + 1 > i)
                BY <8>1, <3>1, <5>1
              <8>4. QED BY <2>1, <8>2, <8>3
            <7>3. QED BY <7>1, <7>2
          <6>2. QED BY <2>1, <4>1, <5>1, <6>1 DEF Results
        <5>2. CASE t.ca = ""
          <6>1. LastCA(l, n + 1) = LastCA(l, n)
            BY <2>1, <3>1, <5>2 DEF LastCA, Secured
          <6>2. client.roots = IF LastCA(l, n) = {} THEN "system"
                               ELSE l[CHOOSE i \in LastCA(l, n) : TRUE].tls.ca
            BY <2>5 DEF MatchesUpTo
          <6>3. QED BY <2>1, <4>1, <5>2, <6>1, <6>2 DEF Results
        <5>3. QED BY <5>1, <5>2
      <4>6. client'.cert = IF LastPair(l, n + 1) = {} THEN "none"
                           ELSE l[CHOOSE i \in LastPair(l, n + 1) : TRUE].tls.cert
        <5>1. CASE HasPair(t)
          <6>1. LastPair(l, n + 1) = {n + 1}
            BY <2>1, <3>1, <5>1 DEF LastPair, Secured
          <6>2. QED BY <2>1, <4>1, <5>1, <6>1 DEF Results, HasPair
        <5>2. CASE ~HasPair(t)
          <6>1. LastPair(l, n + 1) = LastPair(l, n)
            BY <2>1, <3>1, <5>2 DEF LastPair, Secured
          <6>2. client.cert = IF LastPair(l, n) = {} THEN "none"
                              ELSE l[CHOOSE i \in LastPair(l, n) : TRUE].tls.cert
            BY <2>5 DEF MatchesUpTo
          <6>3. QED BY <2>1, <4>1, <5>2, <6>1, <6>2 DEF Results, HasPair
        <5>3. QED BY <5>1, <5>2
      <4>7. ~client'.err /\ client'.present = (Secured(l, n + 1) # {})
        BY <2>1, <3>1, <4>1 DEF Results
      <4>8. QED BY <4>2, <4>4, <4>5, <4>6, <4>7 DEF MatchesUpTo
    <3>5. QED BY <3>3, <3>4
  <2>8. QED BY <2>6, <2>7
<1>3. QED BY <1>1, <1>2 DEF Next

(* buildHTTPClient returns a well-formed result for every webhook list.    *)
THEOREM TypeCorrect == Spec => []TypeOK
<1>1. IInv => TypeOK
  BY DEF IInv
<1>2. QED BY <1>1, IInvInit, IInvStep, PTL DEF Spec

(* For every webhook list, of any length, the client buildHTTPClient       *)
(* returns is the one the list describes: the error exactly when a secured *)
(* webhook names an unreadable file, otherwise the transport with the CA   *)
(* and client pair of the last block that sets them.                       *)
THEOREM BuildCorrect == Spec => []BuildMatchesReference
<1>1. IInv => BuildMatchesReference
  <2> SUFFICES ASSUME IInv, Returned PROVE MatchesUpTo(whs, client, Len(whs))
    BY DEF BuildMatchesReference
  <2>1. CASE pos = Len(whs)
    BY <2>1 DEF IInv
  <2>2. CASE client.err
    <3>1. PICK i \in Secured(whs, pos) : Bad(whs[i].tls)
      BY <2>2 DEF IInv, MatchesUpTo
    <3>2. pos <= Len(whs) /\ Len(whs) \in Nat
      BY ListsAreSeqs DEF IInv, TypeOK
    <3>3. i \in Secured(whs, Len(whs))
      BY <3>1, <3>2 DEF Secured, IInv, TypeOK
    <3>4. QED BY <2>2, <3>1, <3>3 DEF MatchesUpTo
  <2>3. QED BY <2>1, <2>2 DEF Returned
<1>2. QED BY <1>1, IInvInit, IInvStep, PTL DEF Spec
=============================================================================
