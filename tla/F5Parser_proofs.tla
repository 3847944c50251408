--------------------------- MODULE F5Parser_proofs ---------------------------
(***************************************************************************)
(* Proofs about parseF5LogLine and extractHeaders (F5Parser): what every   *)
(* line the iRule format produces decodes to, for any header lists and any *)
(* words in them that are not sentinels, and the invariants            *)
(* MalformedNeverDecoded and RoundTrip of the parser's run.               *)
(***************************************************************************)
EXTENDS F5Parser, SequenceTheorems, TLAPS

\* The sentinels of the line format.
Tags == {HSL_START, HSL_END, REQHS, REQHE, HEAN, HEAV, RESPHS, RESPHE, REQPS, REQPE}

\* t does not occur in s.
Free(s, t) == \A i \in 1..Len(s) : s[i] # t

\* Records of the iRule format whose time fields and header words are any
\* words of W.
GenRecords(W) == [req : W, resp : W, reqH : Seq(W \X W), respH : Seq(W \X W),
                  reqBody : {"", "b", "v"}, respBody : {"", "b", "v"}]

\* The words of the fixed fields other than the two times.
FieldWords == {"http", "/p", "GET", "q", "10.0.0.1", "80", "10.0.0.2", "8080",
               "HTTP/1.1", "200"}

\* The event parseF5LogLine builds from the line of record r with response
\* payload rp, before the header maps are simplified.
EventOf(r, rp) ==
  [ts |-> Uint64(Atoi(r.req)),
   srcIP |-> "10.0.0.1", srcPort |-> Int32(Atoi("80")),
   dstIP |-> "10.0.0.2", dstPort |-> Int32(Atoi("8080")),
   protocol |-> "HTTP/1.1",
   reqHeaders |-> Assign(Assign(Assign(Assign(HeaderMap(Entries(r.reqH)),
                    <<":scheme">>, <<"http">>), <<":path">>, <<"/p">>),
                    <<":method">>, <<"GET">>), <<":query">>, <<"q">>),
   respHeaders |-> Assign(HeaderMap(Entries(r.respH)), <<":status">>, <<"200">>),
   reqBody |-> B64Decode(Encoded(r.reqBody)),
   respBody |-> B64Decode(rp),
   latency |-> Latency(Atoi(r.req), Atoi(r.resp))]

\* What the two extractHeaders calls and the payload searches of
\* parseF5LogLine find in sections made of request headers A, response
\* headers B, request payload E and response payload pl.
SplitFacts(A, B, E, pl) ==
  LET R2 == <<REQPS>> \o E \o <<REQPE>> \o pl
      R1 == <<RESPHS>> \o B \o <<RESPHE>> \o R2
  IN  /\ <<REQHS>> \o A \o <<REQHE, RESPHS>> \o B \o <<RESPHE, REQPS>> \o E
           \o <<REQPE>> \o pl = <<REQHS>> \o A \o <<REQHE>> \o R1
      /\ ExtractHeaders(<<REQHS>> \o A \o <<REQHE>> \o R1, REQHS, REQHE)
           = [hdrs |-> HeaderMap(A), rest |-> R1]
      /\ ExtractHeaders(R1, RESPHS, RESPHE) = [hdrs |-> HeaderMap(B), rest |-> R2]
      /\ ReqBody(R2) = B64Decode(E)
      /\ RespB64(R2) = pl

\* No two entries of a header list have the same key.
DistinctKeys(hs) == \A i, j \in 1..Len(hs) : hs[i][1] = hs[j][1] => i = j

\* The words of the records the run enumerates, and of the bad payload.
W0 == {"1", "2", "3", "k1", "k2", "v1", "v2", "Yg==", "dg==", "!!"}

\* The pseudo-headers parseF5LogLine sets on the request and the response.
PseudoReq == <<<<":scheme", "http">>, <<":path", "/p">>, <<":method", "GET">>, <<":query", "q">>>>
PseudoResp == <<<<":status", "200">>>>

\* The words a line of a record over header words W is made of, sentinels
\* HSL_START and HSL_END aside.
TextWords(W) == W \cup FieldWords \cup B64Words
                \cup {REQHS, REQHE, HEAN, HEAV, RESPHS, RESPHE, REQPS, REQPE}

-----------------------------------------------------------------------------
(* strings.Index finds the first occurrence: if t is at k and not before,  *)
(* Index(s, t) is k.                                                       *)
LEMMA IndexAt ==
  ASSUME NEW s, NEW t, NEW k \in 1..Len(s), s[k] = t,
         \A j \in 1..(k - 1) : s[j] # t
  PROVE  Index(s, t) = k
<1>1. \E i \in 1..Len(s) : s[i] = t
  OBVIOUS
<1>2. \A i \in 1..Len(s) : (s[i] = t /\ \A j \in 1..(i - 1) : s[j] # t) => i = k
  BY SMT
<1>. QED  BY <1>1, <1>2 DEF Index

(* strings.Index of a tag the text does not contain is -1 (0 here).        *)
LEMMA IndexNone ==
  ASSUME NEW s, NEW t, Free(s, t)
  PROVE  Index(s, t) = 0
BY DEF Index, Free

(* Cutting a text at the first occurrence of t: the text is a, t, b with   *)
(* t not in a; Index finds the t after a, and the slices before and after  *)
(* it are a and b.                                                         *)
LEMMA CutFirst ==
  ASSUME NEW S, NEW a \in Seq(S), NEW b \in Seq(S), NEW t \in S, Free(a, t)
  PROVE  LET w == a \o <<t>> \o b
         IN  /\ Index(w, t) = Len(a) + 1
             /\ SubSeq(w, 1, Len(a)) = a
             /\ SubSeq(w, Len(a) + 2, Len(w)) = b
<1> DEFINE w == a \o <<t>> \o b
<1>1. w \in Seq(S) /\ Len(w) = Len(a) + 1 + Len(b)
  OBVIOUS
<1>2. Index(w, t) = Len(a) + 1
  <2>1. w[Len(a) + 1] = t /\ \A j \in 1..Len(a) : w[j] # t
    BY DEF Free
  <2>2. Len(a) + 1 \in 1..Len(w) /\ \A j \in 1..(Len(a) + 1 - 1) : w[j] # t
    BY <1>1, <2>1
  <2>3. \A kk \in 1..Len(w) : (w[kk] = t /\ \A j \in 1..(kk - 1) : w[j] # t) => Index(w, t) = kk
    BY IndexAt
  <2>. QED  BY <2>1, <2>2, <2>3
<1>3. SubSeq(w, 1, Len(a)) = a
  OBVIOUS
<1>4. SubSeq(w, Len(a) + 2, Len(w)) = b
  OBVIOUS
<1>. QED  BY <1>2, <1>3, <1>4
(* extractHeaders on a text that opens with its start tag and holds the    *)
(* end tag after the header part h: the headers are those h encodes and   *)
(* the rest is what follows the end tag.                                   *)
LEMMA ExtractAt ==
  ASSUME NEW S, NEW h \in Seq(S), NEW post \in Seq(S), NEW st \in S, NEW en \in S,
         Free(h, en)
  PROVE  ExtractHeaders(<<st>> \o h \o <<en>> \o post, st, en)
           = [hdrs |-> HeaderMap(h), rest |-> post]
<1> DEFINE w == <<st>> \o h \o <<en>> \o post
           tmp == h \o <<en>> \o post
<1>1. Index(w, st) = 1
  <2>1. 1 \in 1..Len(w) /\ w[1] = st /\ \A j \in 1..(1 - 1) : w[j] # st
    OBVIOUS
  <2>. QED  BY <2>1, IndexAt, Zenon
<1>2. SubSeq(w, Index(w, st) + 1, Len(w)) = tmp
  <2>1. SubSeq(w, 1 + 1, Len(w)) = tmp
    OBVIOUS
  <2>. QED  BY <1>1, <2>1, Zenon
<1>3. /\ Index(tmp, en) = Len(h) + 1
      /\ SubSeq(tmp, 1, Len(h)) = h
      /\ SubSeq(tmp, Len(h) + 2, Len(tmp)) = post
  BY CutFirst
<1>4. /\ Index(w, st) # 0 /\ Index(tmp, en) # 0
      /\ SubSeq(tmp, 1, Index(tmp, en) - 1) = h
      /\ SubSeq(tmp, Index(tmp, en) + 1, Len(tmp)) = post
  BY <1>1, <1>3, SMTT(60)
<1> HIDE DEF w, tmp
<1>5. ExtractHeaders(w, st, en) = [hdrs |-> HeaderMap(h), rest |-> post]
  BY <1>2, <1>4, Zenon DEF ExtractHeaders
<1>. QED  BY <1>5 DEF w

(* The first three words of a text of at least three, as a sequence; a    *)
(* text of exactly three is that sequence.                                 *)
LEMMA FirstThree ==
  ASSUME NEW S, NEW t \in Seq(S), Len(t) >= 3
  PROVE  /\ SubSeq(t, 1, 3) = <<t[1], t[2], t[3]>>
         /\ Len(t) = 3 => t = <<t[1], t[2], t[3]>>
<1>1. t[1] \in S /\ t[2] \in S /\ t[3] \in S
  OBVIOUS
<1>2. SubSeq(t, 1, 3) \in Seq(S) /\ Len(SubSeq(t, 1, 3)) = 3
      /\ \A i \in 1..3 : SubSeq(t, 1, 3)[i] = t[i]
  BY SubSeqProperties
<1>3. <<t[1], t[2], t[3]>> \in Seq(S) /\ Len(<<t[1], t[2], t[3]>>) = 3
  BY <1>1
<1>4. SubSeq(t, 1, 3) = <<t[1], t[2], t[3]>>
  <2>1. Len(SubSeq(t, 1, 3)) = Len(<<t[1], t[2], t[3]>>)
        /\ \A i \in 1..Len(SubSeq(t, 1, 3)) : SubSeq(t, 1, 3)[i] = <<t[1], t[2], t[3]>>[i]
    BY <1>2, <1>3
  <2>. QED  BY <1>2, <1>3, <2>1, SeqEqual, Zenon
<1>5. Len(t) = 3 => t = <<t[1], t[2], t[3]>>
  <2>1. Len(t) = 3 => /\ Len(t) = Len(<<t[1], t[2], t[3]>>)
                      /\ \A i \in 1..Len(t) : t[i] = <<t[1], t[2], t[3]>>[i]
    BY <1>3
  <2>. QED  BY <1>3, <2>1, SeqEqual, Zenon
<1>. QED  BY <1>4, <1>5

(* One word of a text, as a sequence.                                     *)
LEMMA OneWord ==
  ASSUME NEW S, NEW t \in Seq(S), NEW k \in 1..Len(t)
  PROVE  SubSeq(t, k, k) = <<t[k]>>
<1>1. SubSeq(t, k, k) \in Seq(S) /\ Len(SubSeq(t, k, k)) = 1 /\ SubSeq(t, k, k)[1] = t[k]
  BY SubSeqProperties
<1>2. <<t[k]>> \in Seq(S) /\ Len(<<t[k]>>) = 1
  OBVIOUS
<1>3. Len(SubSeq(t, k, k)) = Len(<<t[k]>>)
      /\ \A i \in 1..Len(SubSeq(t, k, k)) : SubSeq(t, k, k)[i] = <<t[k]>>[i]
  BY <1>1, <1>2
<1>. QED  BY <1>1, <1>2, <1>3, SeqEqual, Zenon

(* The sections of a header part start one word after each __HEAN__, so   *)
(* __HEAN__ at 4i-3 starts a section at 4i-2.                              *)
LEMMA ShiftStarts ==
  ASSUME NEW n \in Nat
  PROVE  {i + 1 : i \in {4 * i - 3 : i \in 1..n}} = {4 * i - 2 : i \in 1..n}
<1>1. \A x \in {i + 1 : i \in {4 * i - 3 : i \in 1..n}} : x \in {4 * i - 2 : i \in 1..n}
  <2> SUFFICES ASSUME NEW m \in 1..n PROVE 4 * m - 3 + 1 \in {4 * i - 2 : i \in 1..n}
    OBVIOUS
  <2>. QED  BY SMT
<1>2. \A x \in {4 * i - 2 : i \in 1..n} : x \in {i + 1 : i \in {4 * i - 3 : i \in 1..n}}
  <2> SUFFICES ASSUME NEW m \in 1..n PROVE 4 * m - 2 \in {i + 1 : i \in {4 * i - 3 : i \in 1..n}}
    OBVIOUS
  <2>1. 4 * m - 3 \in {4 * i - 3 : i \in 1..n} /\ 4 * m - 2 = (4 * m - 3) + 1
    OBVIOUS
  <2>. QED  BY <2>1
<1>. QED  BY <1>1, <1>2

(* The words of the header part an iRule writes for a list of entries:     *)
(* entry i is __HEAN__ key __HEAV__ value at positions 4i-3 .. 4i.         *)
LEMMA EntriesShape ==
  ASSUME NEW W, NEW hs \in Seq(W \X W)
  PROVE  /\ Entries(hs) \in Seq(W \cup {HEAN, HEAV})
         /\ Len(Entries(hs)) = 4 * Len(hs)
         /\ \A i \in 1..Len(hs) : /\ Entries(hs)[4 * i - 3] = HEAN
                                  /\ Entries(hs)[4 * i - 2] = hs[i][1]
                                  /\ Entries(hs)[4 * i - 1] = HEAV
                                  /\ Entries(hs)[4 * i] = hs[i][2]
<1> DEFINE s == Entries(hs)
           n == Len(hs)
<1>1. \A j \in 1..(4 * n) : (j - 1) \div 4 + 1 \in 1..n /\ ((j - 1) % 4) + 1 \in 1..4
  BY SMT
<1>2. s \in Seq(W \cup {HEAN, HEAV}) /\ Len(s) = 4 * n
  <2>1. \A j \in 1..(4 * n) : s[j] \in W \cup {HEAN, HEAV}
    BY <1>1 DEF Entries
  <2>. QED  BY <2>1, SMT DEF Entries
<1>3. \A i \in 1..n : /\ (4 * i - 3 - 1) \div 4 + 1 = i /\ ((4 * i - 3 - 1) % 4) + 1 = 1
                      /\ (4 * i - 2 - 1) \div 4 + 1 = i /\ ((4 * i - 2 - 1) % 4) + 1 = 2
                      /\ (4 * i - 1 - 1) \div 4 + 1 = i /\ ((4 * i - 1 - 1) % 4) + 1 = 3
                      /\ (4 * i - 1) \div 4 + 1 = i /\ ((4 * i - 1) % 4) + 1 = 4
  BY SMT
<1>4. \A i \in 1..n : /\ s[4 * i - 3] = HEAN /\ s[4 * i - 2] = hs[i][1]
                      /\ s[4 * i - 1] = HEAV /\ s[4 * i] = hs[i][2]
  BY <1>3 DEF Entries
<1>. QED  BY <1>2, <1>4

(* Every position of that header part lies in the four words of an entry. *)
LEMMA EntriesCover ==
  ASSUME NEW n \in Nat, NEW j \in 1..(4 * n)
  PROVE  \E i \in 1..n : j \in (4 * i - 3)..(4 * i)
<1>1. (j - 1) \div 4 + 1 \in 1..n /\ j \in (4 * ((j - 1) \div 4 + 1) - 3)..(4 * ((j - 1) \div 4 + 1))
  BY SMT
<1>. QED  BY <1>1

(* strings.Split of that header part at __HEAN__: an empty first section,  *)
(* then one section key __HEAV__ value per entry, starting after its       *)
(* __HEAN__.                                                               *)
LEMMA EntriesSections ==
  ASSUME NEW W, HEAN \notin W, NEW hs \in Seq(W \X W)
  PROVE  /\ SectionStarts(Entries(hs)) = {1} \cup {4 * i - 2 : i \in 1..Len(hs)}
         /\ SectionAt(Entries(hs), 1) = << >>
         /\ \A i \in 1..Len(hs) :
              SectionAt(Entries(hs), 4 * i - 2) = <<hs[i][1], HEAV, hs[i][2]>>
<1> DEFINE s == Entries(hs)
           n == Len(hs)
<1>1. /\ s \in Seq(W \cup {HEAN, HEAV})
      /\ Len(s) = 4 * n
      /\ \A i \in 1..n : /\ s[4 * i - 3] = HEAN
                         /\ s[4 * i - 2] = hs[i][1]
                         /\ s[4 * i - 1] = HEAV
                         /\ s[4 * i] = hs[i][2]
  BY EntriesShape, Zenon
<1>2. \A i \in 1..n : hs[i][1] \in W /\ hs[i][2] \in W
  OBVIOUS
<1> HIDE DEF s
<1>3. {j \in 1..Len(s) : s[j] = HEAN} = {4 * i - 3 : i \in 1..n}
  <2>1. ASSUME NEW j \in 1..Len(s), s[j] = HEAN PROVE \E i \in 1..n : j = 4 * i - 3
    <3>0. n \in Nat /\ j \in 1..(4 * n)
      BY <1>1
    <3>1. PICK i \in 1..n : j \in (4 * i - 3)..(4 * i)
      BY <3>0, EntriesCover, Zenon
    <3>2. j = 4 * i - 3 \/ j = 4 * i - 2 \/ j = 4 * i - 1 \/ j = 4 * i
      BY <3>1, SMT
    <3>3. s[4 * i - 2] = hs[i][1] /\ s[4 * i - 1] = HEAV /\ s[4 * i] = hs[i][2]
      BY <1>1, <3>1
    <3>4. hs[i][1] # HEAN /\ HEAV # HEAN /\ hs[i][2] # HEAN
      BY <1>2, <3>1 DEF HEAV, HEAN
    <3>. QED  BY <2>1, <3>2, <3>3, <3>4
  <2>2. \A i \in 1..n : 4 * i - 3 \in 1..Len(s)
    BY <1>1, SMT
  <2>3. \A i \in 1..n : s[4 * i - 3] = HEAN
    BY <1>1
  <2>. QED  BY <2>1, <2>2, <2>3, Zenon
<1>4. SectionStarts(s) = {1} \cup {4 * i - 2 : i \in 1..n}
  <2>1. {i + 1 : i \in {4 * i - 3 : i \in 1..n}} = {4 * i - 2 : i \in 1..n}
    <3>1. n \in Nat
      OBVIOUS
    <3>. QED  BY <3>1, ShiftStarts, Zenon
  <2>2. SectionStarts(s) = {1} \cup {i + 1 : i \in {j \in 1..Len(s) : s[j] = HEAN}}
    BY DEF SectionStarts
  <2>. QED  BY <1>3, <2>1, <2>2, Zenon
<1>5. SectionAt(s, 1) = << >>
  <2>1. SubSeq(s, 1, Len(s)) = s
    BY <1>1
  <2>2. CASE n = 0
    <3>1. s = << >>
      BY <1>1, <2>2
    <3>2. Free(<< >>, HEAN)
      BY DEF Free
    <3>3. Index(<< >>, HEAN) = 0
      BY <3>2, IndexNone, Zenon
    <3>4. SubSeq(s, 1, Len(s)) = << >> /\ Index(SubSeq(s, 1, Len(s)), HEAN) = 0
      BY <2>1, <3>1, <3>3
    <3>. QED  BY <3>4, Zenon DEF SectionAt
  <2>3. CASE n # 0
    <3>1. 1 \in 1..Len(s) /\ s[1] = HEAN /\ \A j \in 1..(1 - 1) : s[j] # HEAN
      <4>1. 1 \in 1..n /\ 4 * 1 - 3 = 1
        BY <2>3
      <4>. QED  BY <1>1, <4>1
    <3>2. Index(s, HEAN) = 1
      BY <3>1, IndexAt, Zenon
    <3>3. SubSeq(s, 1, 1 - 1) = << >>
      BY <1>1
    <3>4. Index(SubSeq(s, 1, Len(s)), HEAN) = 1
      BY <2>1, <3>2
    <3>5. SubSeq(SubSeq(s, 1, Len(s)), 1, Index(SubSeq(s, 1, Len(s)), HEAN) - 1) = << >>
          /\ Index(SubSeq(s, 1, Len(s)), HEAN) # 0
      BY <2>1, <3>3, <3>4
    <3>. QED  BY <3>5, Zenon DEF SectionAt
  <2>. QED  BY <2>2, <2>3
<1>6. ASSUME NEW i \in 1..n PROVE SectionAt(s, 4 * i - 2) = <<hs[i][1], HEAV, hs[i][2]>>
  <2> DEFINE tail == SubSeq(s, 4 * i - 2, Len(s))
  <2>1. /\ tail \in Seq(W \cup {HEAN, HEAV})
        /\ Len(tail) = 4 * (n - i) + 3
        /\ \A j \in 1..Len(tail) : tail[j] = s[4 * i - 3 + j]
    BY <1>1, SMT
  <2>2. tail[1] = hs[i][1] /\ tail[2] = HEAV /\ tail[3] = hs[i][2]
    <3>1. 1 \in 1..Len(tail) /\ 2 \in 1..Len(tail) /\ 3 \in 1..Len(tail)
      BY <2>1, SMTT(30)
    <3>2. 4 * i - 3 + 1 = 4 * i - 2 /\ 4 * i - 3 + 2 = 4 * i - 1 /\ 4 * i - 3 + 3 = 4 * i
      OBVIOUS
    <3>. QED  BY <1>1, <2>1, <3>1, <3>2
  <2>3. tail[1] # HEAN /\ tail[2] # HEAN /\ tail[3] # HEAN
    BY <1>2, <2>2 DEF HEAN, HEAV
  <2> HIDE DEF tail
  <2>4. CASE i < n
    <3>1. 4 \in 1..Len(tail) /\ tail[4] = HEAN /\ \A j \in 1..(4 - 1) : tail[j] # HEAN
      <4>1. i + 1 \in 1..n /\ 4 * i - 3 + 4 = 4 * (i + 1) - 3 /\ 4 \in 1..Len(tail)
        BY <2>1, <2>4
      <4>2. tail[4] = s[4 * (i + 1) - 3]
        BY <2>1, <4>1
      <4>3. \A j \in 1..(4 - 1) : j \in {1, 2, 3}
        OBVIOUS
      <4>. QED  BY <1>1, <2>3, <4>1, <4>2, <4>3
    <3>2. Index(tail, HEAN) = 4
      BY <3>1, IndexAt, ZenonT(40)
    <3>3. SubSeq(tail, 1, 3) = <<hs[i][1], HEAV, hs[i][2]>>
      <4>1. Len(tail) >= 3
        BY <3>1
      <4>. QED  BY <2>1, <2>2, <4>1, FirstThree
    <3>4. Index(tail, HEAN) # 0 /\ SubSeq(tail, 1, Index(tail, HEAN) - 1) = <<hs[i][1], HEAV, hs[i][2]>>
      BY <3>2, <3>3
    <3>. QED  BY <3>4, Zenon DEF SectionAt, tail
  <2>5. CASE i = n
    <3>1. Len(tail) = 3
      BY <2>1, <2>5
    <3>2. Free(tail, HEAN)
      BY <2>3, <3>1 DEF Free
    <3>3. Index(tail, HEAN) = 0
      BY <3>2, IndexNone, Zenon
    <3>4. tail = <<hs[i][1], HEAV, hs[i][2]>>
      <4>1. tail \in Seq(W \cup {HEAN, HEAV}) /\ Len(tail) >= 3
        BY <2>1, <3>1
      <4>2. tail = <<tail[1], tail[2], tail[3]>>
        BY <3>1, <4>1, FirstThree, Zenon
      <4>. QED  BY <2>2, <4>2
    <3>. QED  BY <3>3, <3>4, Zenon DEF SectionAt, tail
  <2>. QED  BY <2>4, <2>5
<1>. QED  BY <1>4, <1>5, <1>6 DEF s

(* The loop of extractHeaders over that header part builds the map of the  *)
(* entries: every key, with its value, and nothing else.                   *)
LEMMA HeaderMapEntries ==
  ASSUME NEW W, HEAN \notin W, HEAV \notin W, NEW hs \in Seq(W \X W), DistinctKeys(hs)
  PROVE  HeaderMap(Entries(hs)) = HeaderFn(hs)
<1> DEFINE s == Entries(hs)
           n == Len(hs)
           sec(i) == <<hs[i][1], HEAV, hs[i][2]>>
           keyed == {p \in SectionStarts(s) : Index(SectionAt(s, p), HEAV) # 0}
           key(p) == HeaderKey(SectionAt(s, p))
           last(k) == CHOOSE p \in keyed : key(p) = k /\ \A q \in keyed : key(q) = k => q <= p
<1>1. /\ SectionStarts(s) = {1} \cup {4 * i - 2 : i \in 1..n}
      /\ SectionAt(s, 1) = << >>
      /\ \A i \in 1..n : SectionAt(s, 4 * i - 2) = sec(i)
  BY EntriesSections, Zenon
<1>2. ASSUME NEW i \in 1..n
      PROVE  /\ Index(sec(i), HEAV) = 2
             /\ HeaderKey(sec(i)) = <<hs[i][1]>>
             /\ HeaderVal(sec(i)) = <<hs[i][2]>>
  <2>1. sec(i) \in Seq(W \cup {HEAV}) /\ Len(sec(i)) = 3
        /\ sec(i)[1] = hs[i][1] /\ sec(i)[2] = HEAV /\ sec(i)[3] = hs[i][2]
    OBVIOUS
  <2> HIDE DEF sec
  <2>2. Index(sec(i), HEAV) = 2
    <3>1. 2 \in 1..Len(sec(i)) /\ sec(i)[2] = HEAV /\ \A j \in 1..(2 - 1) : sec(i)[j] # HEAV
      BY <2>1
    <3>. QED  BY <3>1, IndexAt, Zenon
  <2>3. SubSeq(sec(i), 1, 1) = <<hs[i][1]>> /\ SubSeq(sec(i), 3, 3) = <<hs[i][2]>>
    <3>1. 1 \in 1..Len(sec(i)) /\ 3 \in 1..Len(sec(i))
      BY <2>1
    <3>2. SubSeq(sec(i), 1, 1) = <<sec(i)[1]>>
      BY <2>1, <3>1, OneWord, Zenon
    <3>3. SubSeq(sec(i), 3, 3) = <<sec(i)[3]>>
      BY <2>1, <3>1, OneWord, Zenon
    <3>. QED  BY <2>1, <3>2, <3>3
  <2>4. HeaderKey(sec(i)) = SubSeq(sec(i), 1, 2 - 1)
        /\ HeaderVal(sec(i)) = SubSeq(sec(i), 2 + 1, 3)
    BY <2>1, <2>2 DEF HeaderKey, HeaderVal
  <2>. QED  BY <2>2, <2>3, <2>4
<1>3. Index(<< >>, HEAV) = 0
  <2>1. Free(<< >>, HEAV)
    BY DEF Free
  <2>. QED  BY <2>1, IndexNone, Zenon
<1> HIDE DEF s, sec
<1>4. keyed = {4 * i - 2 : i \in 1..n}
  <2>1. ASSUME NEW p \in keyed PROVE p \in {4 * i - 2 : i \in 1..n}
    <3>1. p \in {1} \cup {4 * i - 2 : i \in 1..n} /\ Index(SectionAt(s, p), HEAV) # 0
      BY <1>1
    <3>2. p # 1
      BY <1>1, <1>3, <3>1
    <3>. QED  BY <3>1, <3>2
  <2>2. ASSUME NEW i \in 1..n PROVE 4 * i - 2 \in keyed
    <3>1. 4 * i - 2 \in SectionStarts(s) /\ SectionAt(s, 4 * i - 2) = sec(i)
      BY <1>1
    <3>. QED  BY <1>2, <3>1
  <2>. QED  BY <2>1, <2>2
<1>5. \A i \in 1..n : key(4 * i - 2) = <<hs[i][1]>>
  BY <1>1, <1>2
<1> HIDE DEF keyed, key
<1>6. {key(p) : p \in keyed} = {<<hs[i][1]>> : i \in 1..n}
  BY <1>4, <1>5
<1>7. ASSUME NEW i \in 1..n
      PROVE  last(<<hs[i][1]>>) = 4 * i - 2
  <2>1. \A j \in 1..n : key(4 * j - 2) = <<hs[i][1]>> => j = i
    BY <1>5 DEF DistinctKeys
  <2>2. \A p \in keyed : key(p) = <<hs[i][1]>> => p = 4 * i - 2
    BY <1>4, <2>1
  <2>3. 4 * i - 2 \in keyed /\ key(4 * i - 2) = <<hs[i][1]>>
    BY <1>4, <1>5
  <2>4. \A q \in keyed : key(q) = <<hs[i][1]>> => q <= 4 * i - 2
    BY <2>2, SMT
  <2>. QED  BY <2>2, <2>3, <2>4, Zenon
<1>8. HeaderMap(s) = [k \in {key(p) : p \in keyed} |-> HeaderVal(SectionAt(s, last(k)))]
  BY DEF HeaderMap, keyed, key
<1>9. HeaderFn(hs) = [k \in {<<hs[i][1]>> : i \in 1..n} |->
                       <<hs[CHOOSE i \in 1..n : <<hs[i][1]>> = k][2]>>]
  BY DEF HeaderFn
<1>11. \A i \in 1..n : HeaderVal(SectionAt(s, last(<<hs[i][1]>>))) = <<hs[i][2]>>
  BY <1>1, <1>2, <1>7
<1>12. \A i \in 1..n : (CHOOSE j \in 1..n : <<hs[j][1]>> = <<hs[i][1]>>) = i
  <2> SUFFICES ASSUME NEW i \in 1..n PROVE (CHOOSE j \in 1..n : <<hs[j][1]>> = <<hs[i][1]>>) = i
    OBVIOUS
  <2>1. \A j \in 1..n : <<hs[j][1]>> = <<hs[i][1]>> => j = i
    BY DEF DistinctKeys
  <2>. QED  BY <2>1
<1> HIDE DEF last
<1>13. \A k \in {<<hs[i][1]>> : i \in 1..n} :
         HeaderVal(SectionAt(s, last(k))) = <<hs[CHOOSE i \in 1..n : <<hs[i][1]>> = k][2]>>
  BY <1>11, <1>12
<1>14. HeaderMap(s) = HeaderFn(hs)
  BY <1>6, <1>8, <1>9, <1>13, SMTT(60)
<1>. QED  BY <1>14 DEF s

(* parseF5LogLine on a line t0 HSL_START P HSL_END whose payload P holds   *)
(* neither sentinel: the payload is P, and the field-count checks decide   *)
(* between the two rejections and decoding.                                *)
LEMMA LinePayload ==
  ASSUME NEW S, NEW P \in Seq(S), Len(P) # 0, Free(P, HSL_START), Free(P, HSL_END)
  PROVE  ParseF5LogLine(<<"t0", HSL_START>> \o P \o <<HSL_END>>)
           = IF Len(P) < 10 THEN Panic("fields-log")
             ELSE IF Len(P) < 12 THEN Panic("index")
             ELSE Decode(P)
<1> DEFINE line == <<"t0", HSL_START>> \o P \o <<HSL_END>>
           n == Len(P)
           e == n + 3
<1>1. /\ line \in Seq(S \cup {"t0", HSL_START, HSL_END})
      /\ Len(line) = n + 3
      /\ line[1] = "t0" /\ line[2] = HSL_START /\ line[n + 3] = HSL_END
      /\ \A j \in 3..(n + 2) : line[j] = P[j - 2]
  BY SMT
<1>2. 2 \in 1..Len(line) /\ line[2] = HSL_START /\ \A j \in 1..(2 - 1) : line[j] # HSL_START
  BY <1>1, SMT DEF HSL_START
<1>3. e \in 1..Len(line) /\ line[e] = HSL_END
      /\ \A j \in 1..(e - 1) : line[j] # HSL_END
  <2>1. \A j \in 3..(n + 2) : P[j - 2] # HSL_END
    BY SMT DEF Free
  <2>2. \A j \in 1..(n + 3 - 1) : j \in {1, 2} \/ j \in 3..(n + 2)
    BY SMT
  <2>3. "t0" # HSL_END /\ HSL_START # HSL_END
    BY DEF HSL_START, HSL_END
  <2>. QED  BY <1>1, <2>1, <2>2, <2>3
<1>4. SubSeq(line, 2 + 1, e - 1) = P
  <2>1. SubSeq(line, 3, n + 2) \in Seq(S \cup {"t0", HSL_START, HSL_END})
        /\ Len(SubSeq(line, 3, n + 2)) = n
        /\ \A i \in 1..n : SubSeq(line, 3, n + 2)[i] = P[i]
    BY <1>1, SMT
  <2>2. P \in Seq(S \cup {"t0", HSL_START, HSL_END})
    OBVIOUS
  <2>3. SubSeq(line, 3, n + 2) = P
    BY <2>1, <2>2, SeqEqual, Zenon
  <2>. QED  BY <2>3
<1>5. P # << >> /\ ~(e < 2) /\ e # 0 /\ 2 # 0
  OBVIOUS
<1> HIDE DEF line, e
<1>6. Index(line, HSL_START) = 2
  BY <1>2, IndexAt, Zenon
<1>7. Index(line, HSL_END) = e
  BY <1>3, IndexAt, Zenon
<1>8. ParseF5LogLine(line) = IF Len(P) < 10 THEN Panic("fields-log")
                             ELSE IF Len(P) < 12 THEN Panic("index")
                             ELSE Decode(P)
  BY <1>4, <1>5, <1>6, <1>7, Zenon DEF ParseF5LogLine
<1>. QED  BY <1>8 DEF line

(* The sections after the fixed fields, as an iRule writes them: request   *)
(* headers A, response headers B, request payload E and the response       *)
(* payload.  The two extractHeaders calls take A and B apart in turn, and  *)
(* the payload searches find E and everything after __REQPE__.             *)
LEMMA SectionsParts ==
  ASSUME NEW S, NEW A \in Seq(S), NEW B \in Seq(S), NEW E \in Seq(S), NEW pl \in Seq(S),
         Free(A, REQHE), Free(B, RESPHE), Free(E, REQPE)
  PROVE  SplitFacts(A, B, E, pl)
<1> DEFINE R2 == <<REQPS>> \o E \o <<REQPE>> \o pl
           R1 == <<RESPHS>> \o B \o <<RESPHE>> \o R2
<1> DEFINE L == <<REQHS>> \o A \o <<REQHE, RESPHS>> \o B \o <<RESPHE, REQPS>> \o E
                  \o <<REQPE>> \o pl
           R == <<REQHS>> \o A \o <<REQHE>> \o R1
           T == S \cup Tags
<1>1. A \in Seq(T) /\ B \in Seq(T) /\ E \in Seq(T) /\ pl \in Seq(T)
      /\ REQHS \in T /\ REQHE \in T /\ RESPHS \in T /\ RESPHE \in T
      /\ REQPS \in T /\ REQPE \in T
  BY DEF Tags
<1>2. R2 \in Seq(T) /\ R1 \in Seq(T) /\ L \in Seq(T) /\ R \in Seq(T)
  BY <1>1
<1>3. L = R
  <2>1. Len(L) = Len(R)
    BY <1>1, SMT
  <2>2. \A i \in 1..Len(L) : L[i] = R[i]
    BY <1>1, SMTT(60)
  <2>. QED  BY <1>2, <2>1, <2>2, SeqEqual, Zenon
<1> HIDE DEF R1, R2, L, R, T
<1>4. ExtractHeaders(<<REQHS>> \o A \o <<REQHE>> \o R1, REQHS, REQHE)
        = [hdrs |-> HeaderMap(A), rest |-> R1]
  <2>1. A \in Seq(T) /\ R1 \in Seq(T) /\ REQHS \in T /\ REQHE \in T /\ Free(A, REQHE)
    BY <1>1, <1>2
  <2>. QED  BY <2>1, ExtractAt, ZenonT(40)
<1>5. ExtractHeaders(<<RESPHS>> \o B \o <<RESPHE>> \o R2, RESPHS, RESPHE)
        = [hdrs |-> HeaderMap(B), rest |-> R2]
  <2>1. B \in Seq(T) /\ R2 \in Seq(T) /\ RESPHS \in T /\ RESPHE \in T /\ Free(B, RESPHE)
    BY <1>1, <1>2
  <2>. QED  BY <2>1, ExtractAt, ZenonT(40)
<1>6. ReqBody(R2) = B64Decode(E)
  <2> DEFINE tmp == E \o <<REQPE>> \o pl
  <2>1. 1 \in 1..Len(R2) /\ R2[1] = REQPS /\ \A j \in 1..(1 - 1) : R2[j] # REQPS
    BY <1>1, SMT DEF R2
  <2>2. Index(R2, REQPS) = 1
    BY <2>1, IndexAt, Zenon
  <2>3. SubSeq(R2, 1 + 1, Len(R2)) = tmp
    BY <1>1, SMTT(30) DEF R2
  <2>4. /\ Index(tmp, REQPE) = Len(E) + 1
        /\ SubSeq(tmp, 1, Len(E)) = E
        /\ SubSeq(tmp, Len(E) + 2, Len(tmp)) = pl
    <3>1. E \in Seq(T) /\ pl \in Seq(T) /\ REQPE \in T /\ Free(E, REQPE)
      BY <1>1
    <3>. QED  BY <3>1, CutFirst
  <2>5. 1 # 0 /\ Len(E) + 1 # 0 /\ Len(E) + 1 - 1 = Len(E)
    OBVIOUS
  <2> HIDE DEF tmp
  <2>6. SubSeq(R2, Index(R2, REQPS) + 1, Len(R2)) = tmp
    BY <2>2, <2>3
  <2>7. Index(tmp, REQPE) # 0 /\ SubSeq(tmp, 1, Index(tmp, REQPE) - 1) = E
    BY <2>4, <2>5
  <2>. QED  BY <2>2, <2>5, <2>6, <2>7, Zenon DEF ReqBody
<1>7. RespB64(R2) = pl
  <2> DEFINE e == Len(E) + 2
  <2>1. /\ e \in 1..Len(R2) /\ R2[e] = REQPE
        /\ \A j \in 1..(e - 1) : R2[j] # REQPE
    <3>1. \A j \in 2..(Len(E) + 1) : R2[j] = E[j - 1] /\ E[j - 1] # REQPE
      BY <1>1, SMT DEF R2, Free
    <3>2. R2[1] = REQPS /\ REQPS # REQPE /\ R2[Len(E) + 2] = REQPE /\ Len(R2) = Len(E) + 2 + Len(pl)
      BY <1>1, SMT DEF R2, REQPS, REQPE
    <3>3. \A j \in 1..(e - 1) : j = 1 \/ j \in 2..(Len(E) + 1)
      BY <1>1
    <3>4. e \in 1..Len(R2)
      BY <1>1, <3>2
    <3>. QED  BY <3>1, <3>2, <3>3, <3>4, SMTT(30)
  <2>2. SubSeq(R2, e + 1, Len(R2)) = pl
    <3>1. SubSeq(R2, e + 1, Len(R2)) \in Seq(T) /\ Len(SubSeq(R2, e + 1, Len(R2))) = Len(pl)
          /\ \A i \in 1..Len(pl) : SubSeq(R2, e + 1, Len(R2))[i] = pl[i]
      BY <1>1, SMT DEF R2
    <3>. QED  BY <1>1, <3>1, SeqEqual, Zenon
  <2>3. e # 0
    OBVIOUS
  <2> HIDE DEF e
  <2>4. Index(R2, REQPE) = e
    BY <2>1, IndexAt, Zenon
  <2>. QED  BY <2>2, <2>3, <2>4, Zenon DEF RespB64
<1>. QED  BY <1>3, <1>4, <1>5, <1>6, <1>7 DEF SplitFacts, L, R, R1, R2

(* The empty and the one-word texts, as sequences.                        *)
LEMMA ShortSeqs ==
  ASSUME NEW S, NEW w \in S
  PROVE  /\ << >> \in Seq(S) /\ Len(<< >>) = 0 /\ 1..Len(<< >>) = {} /\ 0 # 1
         /\ <<w>> \in Seq(S) /\ Len(<<w>>) = 1 /\ <<w>>[1] = w /\ 1..Len(<<w>>) = {1}
OBVIOUS

(* The request payload an iRule writes for a body decodes back to it.      *)
LEMMA EncodedBody ==
  ASSUME NEW b \in {"", "b", "v"}
  PROVE  /\ Encoded(b) \in Seq(B64Words)
         /\ Free(Encoded(b), REQPE) /\ Free(Encoded(b), HSL_START) /\ Free(Encoded(b), HSL_END)
         /\ B64Valid(Encoded(b))
         /\ B64Decode(Encoded(b)) = b
<1>1. ASSUME NEW w \in B64Words, B64Table(w) = b, b # ""
      PROVE  /\ Encoded(b) \in Seq(B64Words)
             /\ Free(Encoded(b), REQPE) /\ Free(Encoded(b), HSL_START) /\ Free(Encoded(b), HSL_END)
             /\ B64Valid(Encoded(b))
             /\ B64Decode(Encoded(b)) = b
  <2>1. \A e \in B64Words : B64Table(e) = b => e = w
    <3>1. B64Table("") = "" /\ B64Table("Yg==") = "b" /\ B64Table("dg==") = "v"
      BY Zenon DEF B64Table
    <3>. QED  BY <1>1, <3>1, Zenon DEF B64Words
  <2>2. Encoded(b) = <<w>>
    BY <1>1, <2>1, Zenon DEF Encoded
  <2>3. w \notin {REQPE, HSL_START, HSL_END}
    BY Zenon DEF B64Words, REQPE, HSL_START, HSL_END
  <2>4. <<w>> \in Seq(B64Words) /\ Len(<<w>>) = 1 /\ <<w>>[1] = w /\ 1..Len(<<w>>) = {1}
    BY ShortSeqs, Zenon
  <2>. QED  BY <1>1, <2>2, <2>3, <2>4, Zenon DEF Free, B64Valid, B64Decode
<1>2. CASE b = ""
  <2>1. Encoded(b) = << >>
    BY <1>2, Zenon DEF Encoded
  <2>2. << >> \in Seq(B64Words) /\ Len(<< >>) = 0 /\ 1..Len(<< >>) = {} /\ 0 # 1
    <3>1. "" \in B64Words
      BY Zenon DEF B64Words
    <3>. QED  BY <3>1, ShortSeqs, Zenon
  <2>. QED  BY <1>2, <2>1, <2>2, Zenon DEF Free, B64Valid, B64Decode
<1>3. CASE b = "b"
  <2>1. "Yg==" \in B64Words /\ B64Table("Yg==") = b /\ b # ""
    BY <1>3, Zenon DEF B64Words, B64Table
  <2>. QED  BY <2>1, <1>1, Zenon
<1>4. CASE b = "v"
  <2>1. "dg==" \in B64Words /\ B64Table("dg==") = b /\ b # ""
    BY <1>4, Zenon DEF B64Words, B64Table
  <2>. QED  BY <2>1, <1>1, Zenon
<1>. QED  BY <1>2, <1>3, <1>4, Zenon

(* A word outside the alphabet of a text does not occur in it.            *)
LEMMA FreeSeq ==
  ASSUME NEW S, NEW s \in Seq(S), NEW x, x \notin S
  PROVE  Free(s, x)
BY DEF Free

(* parts[12:] of the fields followed by the sections is the sections.    *)
LEMMA DropPrefix ==
  ASSUME NEW S, NEW s \in Seq(S), NEW t \in Seq(S)
  PROVE  SubSeq(s \o t, Len(s) + 1, Len(s) + Len(t)) = t
<1>1. /\ SubSeq(s \o t, Len(s) + 1, Len(s) + Len(t)) \in Seq(S)
      /\ Len(SubSeq(s \o t, Len(s) + 1, Len(s) + Len(t))) = Len(t)
      /\ \A i \in 1..Len(t) : SubSeq(s \o t, Len(s) + 1, Len(s) + Len(t))[i] = t[i]
  OBVIOUS
<1>. QED  BY <1>1, SeqEqual, Zenon

(* parseF5LogLine on the line of a record, whatever its headers and times  *)
(* and whatever response payload rp follows __REQPE__: the event of the    *)
(* record when rp is base64, and a panic on the nil logger otherwise.      *)
LEMMA DecodeLine ==
  ASSUME NEW W, \A w \in W : w \notin Tags, NEW r \in GenRecords(W), NEW rp \in Seq(W)
  PROVE  ParseF5LogLine(<<"t0", HSL_START>> \o Fields(r) \o Sections(r, rp) \o <<HSL_END>>)
           = IF B64Valid(rp) THEN [kind |-> "event", at |-> "", ev |-> EventOf(r, rp)]
             ELSE Panic("decode-log")
<1> DEFINE Al == W \cup FieldWords \cup B64Words
                  \cup {REQHS, REQHE, HEAN, HEAV, RESPHS, RESPHE, REQPS, REQPE}
           HA == Entries(r.reqH)
           HB == Entries(r.respH)
           EB == Encoded(r.reqBody)
           F == Fields(r)
           X == Sections(r, rp)
           P == F \o X
           Q2 == <<REQPS>> \o EB \o <<REQPE>> \o rp
           Q1 == <<RESPHS>> \o HB \o <<RESPHE>> \o Q2
<1>1. r.req \in W /\ r.resp \in W /\ r.reqH \in Seq(W \X W) /\ r.respH \in Seq(W \X W)
  BY Zenon DEF GenRecords
<1>2. r.reqBody \in {"", "b", "v"}
  BY Zenon DEF GenRecords
<1>3. /\ HSL_START \notin Al /\ HSL_END \notin Al
      /\ REQHE \notin W \cup {HEAN, HEAV} /\ RESPHE \notin W \cup {HEAN, HEAV}
      /\ W \cup {HEAN, HEAV} \subseteq Al /\ B64Words \subseteq Al /\ W \subseteq Al
      /\ {REQHS, REQHE, RESPHS, RESPHE, REQPS, REQPE} \subseteq Al
  <2>1. HSL_START \in Tags /\ HSL_END \in Tags /\ REQHE \in Tags /\ RESPHE \in Tags
    BY DEF Tags
  <2>2. HSL_START \notin FieldWords \cup {REQHS, REQHE, HEAN, HEAV, RESPHS, RESPHE, REQPS, REQPE}
        /\ HSL_END \notin FieldWords \cup {REQHS, REQHE, HEAN, HEAV, RESPHS, RESPHE, REQPS, REQPE}
        /\ REQHE \notin {HEAN, HEAV} /\ RESPHE \notin {HEAN, HEAV}
    BY DEF FieldWords, HSL_START, HSL_END, REQHS, REQHE, HEAN, HEAV, RESPHS, RESPHE, REQPS, REQPE
  <2>3. HSL_START \notin B64Words /\ HSL_END \notin B64Words
    BY Zenon DEF B64Words, HSL_START, HSL_END
  <2>. QED  BY <2>1, <2>2, <2>3
<1>4. /\ F \in Seq(Al) /\ Len(F) = 12
      /\ F[1] = "http" /\ F[2] = "/p" /\ F[3] = "GET" /\ F[4] = "q"
      /\ F[5] = "10.0.0.1" /\ F[6] = "80" /\ F[7] = "10.0.0.2" /\ F[8] = "8080"
      /\ F[9] = "HTTP/1.1" /\ F[10] = "200" /\ F[11] = r.req /\ F[12] = r.resp
  BY <1>1, <1>3 DEF Fields, FieldWords
<1>5. HA \in Seq(W \cup {HEAN, HEAV}) /\ HB \in Seq(W \cup {HEAN, HEAV})
  <2>1. Entries(r.reqH) \in Seq(W \cup {HEAN, HEAV})
    BY <1>1, EntriesShape, Zenon
  <2>2. Entries(r.respH) \in Seq(W \cup {HEAN, HEAV})
    BY <1>1, EntriesShape, Zenon
  <2>. QED  BY <2>1, <2>2
<1>6. EB \in Seq(B64Words) /\ Free(EB, REQPE)
  BY <1>2, EncodedBody, Zenon
<1> HIDE DEF HA, HB, EB, F, Al
<1>7. /\ HA \in Seq(Al) /\ HB \in Seq(Al) /\ EB \in Seq(Al) /\ rp \in Seq(Al)
      /\ Free(HA, REQHE) /\ Free(HB, RESPHE)
  <2>1. HA \in Seq(Al) /\ HB \in Seq(Al)
    BY <1>3, <1>5, SeqMonotonic, Zenon
  <2>2. EB \in Seq(Al) /\ rp \in Seq(Al)
    BY <1>3, <1>6, SeqMonotonic, Zenon
  <2>3. Free(HA, REQHE) /\ Free(HB, RESPHE)
    BY <1>3, <1>5, FreeSeq, Zenon
  <2>. QED  BY <2>1, <2>2, <2>3
<1>8. X \in Seq(Al)
  <2>1. <<REQHS>> \in Seq(Al) /\ <<REQHE, RESPHS>> \in Seq(Al) /\ <<RESPHE, REQPS>> \in Seq(Al)
        /\ <<REQPE>> \in Seq(Al)
    BY <1>3
  <2>. QED  BY <1>7, <2>1 DEF X, Sections, HA, HB, EB
<1> HIDE DEF X
<1>9. /\ P \in Seq(Al) /\ Len(P) = 12 + Len(X) /\ \A i \in 1..12 : P[i] = F[i]
  <2>1. /\ F \o X \in Seq(Al) /\ Len(F \o X) = Len(F) + Len(X)
        /\ \A i \in 1..Len(F) + Len(X) : (F \o X)[i] = IF i <= Len(F) THEN F[i] ELSE X[i - Len(F)]
    BY <1>4, <1>8, ConcatProperties, ZenonT(40)
  <2>. QED  BY <1>4, <1>8, <2>1
<1>10. /\ Len(P) # 0 /\ ~(Len(P) < 10) /\ ~(Len(P) < 12)
       /\ Free(P, HSL_START) /\ Free(P, HSL_END)
  <2>0. Len(X) \in Nat
    BY <1>8, LenProperties, Zenon
  <2>1. Len(P) = 12 + Len(X)
    BY <1>9, Zenon
  <2>2. Len(P) # 0 /\ ~(Len(P) < 10) /\ ~(Len(P) < 12)
    BY <2>0, <2>1
  <2>3. Free(P, HSL_START) /\ Free(P, HSL_END)
    BY <1>3, <1>9, FreeSeq, Zenon
  <2>. QED  BY <2>2, <2>3
<1>11. RestOf(P) = X
  <2>1. SubSeq(F \o X, Len(F) + 1, Len(F) + Len(X)) = X
    BY <1>4, <1>8, DropPrefix, Zenon
  <2>2. 13 = Len(F) + 1 /\ Len(F \o X) = Len(F) + Len(X)
    BY <1>4, <1>9
  <2>. QED  BY <2>1, <2>2, Zenon DEF RestOf
<1>12. ParseF5LogLine(<<"t0", HSL_START>> \o F \o X \o <<HSL_END>>) = Decode(P)
  <2>1. <<"t0", HSL_START>> \in Seq(Al \cup {"t0", HSL_START})
        /\ F \in Seq(Al \cup {"t0", HSL_START}) /\ X \in Seq(Al \cup {"t0", HSL_START})
    <3>1. Al \subseteq Al \cup {"t0", HSL_START}
      OBVIOUS
    <3>2. F \in Seq(Al \cup {"t0", HSL_START})
      BY <1>4, <3>1, SeqMonotonic, Zenon
    <3>3. X \in Seq(Al \cup {"t0", HSL_START})
      BY <1>8, <3>1, SeqMonotonic, Zenon
    <3>. QED  BY <3>2, <3>3
  <2>2. <<"t0", HSL_START>> \o F \o X = <<"t0", HSL_START>> \o P
    BY <2>1, ConcatAssociative
  <2>3. ParseF5LogLine(<<"t0", HSL_START>> \o P \o <<HSL_END>>)
          = IF Len(P) < 10 THEN Panic("fields-log")
            ELSE IF Len(P) < 12 THEN Panic("index")
            ELSE Decode(P)
    BY <1>9, <1>10, LinePayload, Zenon
  <2>. QED  BY <1>10, <2>2, <2>3, Zenon
<1>13. /\ X = <<REQHS>> \o HA \o <<REQHE>> \o Q1
       /\ ExtractHeaders(X, REQHS, REQHE) = [hdrs |-> HeaderMap(HA), rest |-> Q1]
       /\ ExtractHeaders(Q1, RESPHS, RESPHE) = [hdrs |-> HeaderMap(HB), rest |-> Q2]
       /\ ReqBody(Q2) = B64Decode(EB)
       /\ RespB64(Q2) = rp
  <2>1. Free(EB, REQPE)
    BY <1>6
  <2>2. X = <<REQHS>> \o HA \o <<REQHE, RESPHS>> \o HB \o <<RESPHE, REQPS>> \o EB
              \o <<REQPE>> \o rp
    BY Zenon DEF X, Sections, HA, HB, EB
  <2>3. /\ <<REQHS>> \o HA \o <<REQHE, RESPHS>> \o HB \o <<RESPHE, REQPS>> \o EB
             \o <<REQPE>> \o rp = <<REQHS>> \o HA \o <<REQHE>> \o Q1
        /\ ExtractHeaders(<<REQHS>> \o HA \o <<REQHE>> \o Q1, REQHS, REQHE)
             = [hdrs |-> HeaderMap(HA), rest |-> Q1]
        /\ ExtractHeaders(Q1, RESPHS, RESPHE) = [hdrs |-> HeaderMap(HB), rest |-> Q2]
        /\ ReqBody(Q2) = B64Decode(EB)
        /\ RespB64(Q2) = rp
    <3>1. HA \in Seq(Al) /\ HB \in Seq(Al) /\ EB \in Seq(Al) /\ rp \in Seq(Al)
          /\ Free(HA, REQHE) /\ Free(HB, RESPHE) /\ Free(EB, REQPE)
      BY <1>7, <2>1
    <3>2. SplitFacts(HA, HB, EB, rp)
      BY <3>1, SectionsParts, Zenon
    <3>. QED  BY <3>2, Zenon DEF SplitFacts
  <2>. QED  BY <2>2, <2>3, Zenon
<1> HIDE DEF Q1, Q2, P
<1>14. /\ ExtractHeaders(RestOf(P), REQHS, REQHE) = [hdrs |-> HeaderMap(HA), rest |-> Q1]
       /\ ExtractHeaders(Q1, RESPHS, RESPHE) = [hdrs |-> HeaderMap(HB), rest |-> Q2]
  BY <1>11, <1>13, Zenon
<1>15. /\ ExtractHeaders(RestOf(P), REQHS, REQHE).hdrs = HeaderMap(HA)
       /\ ExtractHeaders(RestOf(P), REQHS, REQHE).rest = Q1
       /\ ExtractHeaders(Q1, RESPHS, RESPHE).hdrs = HeaderMap(HB)
       /\ ExtractHeaders(Q1, RESPHS, RESPHE).rest = Q2
  BY <1>14
<1>16. /\ P[1] = "http" /\ P[2] = "/p" /\ P[3] = "GET" /\ P[4] = "q"
       /\ P[5] = "10.0.0.1" /\ P[6] = "80" /\ P[7] = "10.0.0.2" /\ P[8] = "8080"
       /\ P[9] = "HTTP/1.1" /\ P[10] = "200" /\ P[11] = r.req /\ P[12] = r.resp
  BY <1>4, <1>9
<1>17. DecodedEvent(P) = [kind |-> "event", at |-> "", ev |-> EventOf(r, rp)]
  BY <1>13, <1>15, <1>16, ZenonT(40) DEF DecodedEvent, EventOf, HA, HB, EB
<1>18. PayloadText(P) = Q2
  BY <1>15 DEF PayloadText
<1>19. Decode(P) = IF B64Valid(rp) THEN [kind |-> "event", at |-> "", ev |-> EventOf(r, rp)]
                   ELSE Panic("decode-log")
  BY <1>13, <1>17, <1>18, Zenon DEF Decode
<1>. QED  BY <1>12, <1>19 DEF F, X

(* The map of a header list with distinct keys has exactly its keys, each *)
(* with the value of its entry.                                            *)
LEMMA HeaderFnAt ==
  ASSUME NEW hs, NEW n \in Nat, n = Len(hs), DistinctKeys(hs)
  PROVE  /\ DOMAIN HeaderFn(hs) = {<<hs[i][1]>> : i \in 1..n}
         /\ \A i \in 1..n : HeaderFn(hs)[<<hs[i][1]>>] = <<hs[i][2]>>
<1>1. ASSUME NEW i \in 1..n
      PROVE  (CHOOSE j \in 1..Len(hs) : <<hs[j][1]>> = <<hs[i][1]>>) = i
  <2>1. \A j \in 1..n : <<hs[j][1]>> = <<hs[i][1]>> => j = i
    BY DEF DistinctKeys
  <2>. QED  BY <2>1, Zenon
<1>2. DOMAIN HeaderFn(hs) = {<<hs[i][1]>> : i \in 1..n}
  BY Zenon DEF HeaderFn
<1>3. ASSUME NEW i \in 1..n PROVE HeaderFn(hs)[<<hs[i][1]>>] = <<hs[i][2]>>
  <2>1. <<hs[i][1]>> \in {<<hs[j][1]>> : j \in 1..Len(hs)}
    OBVIOUS
  <2>2. HeaderFn(hs)[<<hs[i][1]>>]
          = <<hs[CHOOSE j \in 1..Len(hs) : <<hs[j][1]>> = <<hs[i][1]>>][2]>>
    BY <2>1, Zenon DEF HeaderFn
  <2>. QED  BY <1>1, <2>2, Zenon
<1>. QED  BY <1>2, <1>3

(* reqHeaders[":scheme"] = scheme ... reqHeaders[":query"] = query after   *)
(* extractHeaders: when no header of the line has a pseudo-header's name,  *)
(* the request headers are the pseudo-headers and the line's headers.      *)
LEMMA RequestHeaders ==
  ASSUME NEW K, NEW hs \in Seq(K), NEW n \in Nat, n = Len(hs), NEW a, NEW b, NEW c, NEW d,
         DistinctKeys(<<<<":scheme", a>>, <<":path", b>>, <<":method", c>>, <<":query", d>>>> \o hs),
         DistinctKeys(hs)
  PROVE  Assign(Assign(Assign(Assign(HeaderFn(hs), <<":scheme">>, <<a>>), <<":path">>, <<b>>),
                <<":method">>, <<c>>), <<":query">>, <<d>>)
           = HeaderFn(<<<<":scheme", a>>, <<":path", b>>, <<":method", c>>, <<":query", d>>>> \o hs)
<1> DEFINE H == <<<<":scheme", a>>, <<":path", b>>, <<":method", c>>, <<":query", d>>>> \o hs
           m1 == Assign(HeaderFn(hs), <<":scheme">>, <<a>>)
           m2 == Assign(m1, <<":path">>, <<b>>)
           m3 == Assign(m2, <<":method">>, <<c>>)
           m4 == Assign(m3, <<":query">>, <<d>>)
           Keys == {<<hs[i][1]>> : i \in 1..n}
           Pseudo == {<<":scheme">>, <<":path">>, <<":method">>, <<":query">>}
<1>1. /\ Len(H) = n + 4 /\ DistinctKeys(H)
      /\ H[1] = <<":scheme", a>> /\ H[2] = <<":path", b>>
      /\ H[3] = <<":method", c>> /\ H[4] = <<":query", d>>
      /\ \A i \in 1..n : H[i + 4] = hs[i]
  OBVIOUS
<1> HIDE DEF H
<1>2. \A i \in 1..n : hs[i][1] \notin {":scheme", ":path", ":method", ":query"}
  <2> SUFFICES ASSUME NEW i \in 1..n
               PROVE  hs[i][1] \notin {":scheme", ":path", ":method", ":query"}
    OBVIOUS
  <2>1. i + 4 \in 1..Len(H) /\ \A j \in 1..4 : j \in 1..Len(H) /\ i + 4 # j
    BY <1>1
  <2>2. \A j \in 1..4 : H[i + 4][1] = H[j][1] => i + 4 = j
    BY <1>1, <2>1, Zenon DEF DistinctKeys
  <2>. QED  BY <1>1, <2>1, <2>2
<1>3. DOMAIN HeaderFn(hs) = Keys /\ \A i \in 1..n : HeaderFn(hs)[<<hs[i][1]>>] = <<hs[i][2]>>
  BY HeaderFnAt, Zenon
<1>4. /\ DOMAIN HeaderFn(H) = {<<H[i][1]>> : i \in 1..(n + 4)}
      /\ \A i \in 1..(n + 4) : HeaderFn(H)[<<H[i][1]>>] = <<H[i][2]>>
  <2>1. n + 4 \in Nat /\ n + 4 = Len(H) /\ DistinctKeys(H)
    BY <1>1, SMTT(30)
  <2>. QED  BY <2>1, HeaderFnAt, Zenon
<1>5. /\ DOMAIN m4 = Keys \cup Pseudo
      /\ m4[<<":scheme">>] = <<a>> /\ m4[<<":path">>] = <<b>>
      /\ m4[<<":method">>] = <<c>> /\ m4[<<":query">>] = <<d>>
      /\ \A i \in 1..n : m4[<<hs[i][1]>>] = <<hs[i][2]>>
      /\ m4 = [x \in DOMAIN m4 |-> m4[x]]
  <2>1. \A i \in 1..n : <<hs[i][1]>> \notin Pseudo
    BY <1>2
  <2>2. DOMAIN m4 = Keys \cup Pseudo
    BY <1>3 DEF m4, m3, m2, m1, Assign
  <2>. QED  BY <1>3, <2>1, <2>2, ZenonT(40) DEF m4, m3, m2, m1, Assign
<1>6. {<<H[i][1]>> : i \in 1..(n + 4)} = Keys \cup Pseudo
  <2>1. ASSUME NEW i \in 1..(n + 4) PROVE <<H[i][1]>> \in Keys \cup Pseudo
    <3>1. CASE i \in 1..4
      BY <1>1, <3>1
    <3>2. CASE i \notin 1..4
      <4>1. i - 4 \in 1..n /\ (i - 4) + 4 = i
        BY <3>2
      <4>2. H[i] = hs[i - 4]
        BY <1>1, <4>1
      <4>. QED  BY <4>1, <4>2
    <3>. QED  BY <3>1, <3>2
  <2>2. ASSUME NEW i \in 1..n PROVE <<hs[i][1]>> \in {<<H[j][1]>> : j \in 1..(n + 4)}
    <3>1. i + 4 \in 1..(n + 4) /\ H[i + 4] = hs[i]
      BY <1>1
    <3>. QED  BY <3>1
  <2>3. Pseudo \subseteq {<<H[j][1]>> : j \in 1..(n + 4)}
    <3>1. 1 \in 1..(n + 4) /\ 2 \in 1..(n + 4) /\ 3 \in 1..(n + 4) /\ 4 \in 1..(n + 4)
      OBVIOUS
    <3>. QED  BY <1>1, <3>1
  <2>4. \A y \in {<<H[i][1]>> : i \in 1..(n + 4)} : y \in Keys \cup Pseudo
    BY <2>1, Zenon
  <2>5. \A y \in Keys \cup Pseudo : y \in {<<H[i][1]>> : i \in 1..(n + 4)}
    BY <2>2, <2>3, SMTT(30)
  <2>. QED  BY <2>4, <2>5, Zenon
<1> HIDE DEF m4, m3, m2, m1
<1>7. ASSUME NEW x \in Keys \cup Pseudo PROVE m4[x] = HeaderFn(H)[x]
  <2>1. CASE x \in Keys
    <3>1. PICK i \in 1..n : x = <<hs[i][1]>>
      BY <2>1
    <3>2. i + 4 \in 1..(n + 4) /\ H[i + 4] = hs[i]
      BY <1>1
    <3>3. HeaderFn(H)[<<H[i + 4][1]>>] = <<H[i + 4][2]>>
      BY <1>4, <3>2
    <3>4. m4[<<hs[i][1]>>] = <<hs[i][2]>>
      BY <1>5, SMTT(30)
    <3>. QED  BY <3>1, <3>2, <3>3, <3>4
  <2>2. CASE x \in Pseudo
    <3>1. /\ HeaderFn(H)[<<H[1][1]>>] = <<H[1][2]>> /\ HeaderFn(H)[<<H[2][1]>>] = <<H[2][2]>>
          /\ HeaderFn(H)[<<H[3][1]>>] = <<H[3][2]>> /\ HeaderFn(H)[<<H[4][1]>>] = <<H[4][2]>>
      <4>1. 1 \in 1..(n + 4) /\ 2 \in 1..(n + 4) /\ 3 \in 1..(n + 4) /\ 4 \in 1..(n + 4)
        OBVIOUS
      <4>. QED  BY <1>4, <4>1
    <3>2. /\ <<H[1][1]>> = <<":scheme">> /\ <<H[1][2]>> = <<a>>
          /\ <<H[2][1]>> = <<":path">> /\ <<H[2][2]>> = <<b>>
          /\ <<H[3][1]>> = <<":method">> /\ <<H[3][2]>> = <<c>>
          /\ <<H[4][1]>> = <<":query">> /\ <<H[4][2]>> = <<d>>
      BY <1>1
    <3>. QED  BY <1>5, <2>2, <3>1, <3>2, ZenonT(40)
  <2>. QED  BY <2>1, <2>2
<1>8. DOMAIN m4 = DOMAIN HeaderFn(H) /\ \A x \in DOMAIN m4 : m4[x] = HeaderFn(H)[x]
  BY <1>4, <1>5, <1>6, <1>7
<1>9. m4 = HeaderFn(H)
  BY <1>5, <1>8 DEF HeaderFn
<1>. QED  BY <1>9 DEF H, m4, m3, m2, m1

(* respHeaders[":status"] = responseStatusCode after extractHeaders: when  *)
(* no header of the line is named :status, the response headers are the   *)
(* status and the line's headers.                                          *)
LEMMA ResponseHeaders ==
  ASSUME NEW K, NEW hs \in Seq(K), NEW n \in Nat, n = Len(hs), NEW a,
         DistinctKeys(<<<<":status", a>>>> \o hs), DistinctKeys(hs)
  PROVE  Assign(HeaderFn(hs), <<":status">>, <<a>>) = HeaderFn(<<<<":status", a>>>> \o hs)
<1> DEFINE H == <<<<":status", a>>>> \o hs
           m == Assign(HeaderFn(hs), <<":status">>, <<a>>)
           Keys == {<<hs[i][1]>> : i \in 1..n}
<1>1. /\ Len(H) = n + 1 /\ DistinctKeys(H) /\ H[1] = <<":status", a>>
      /\ \A i \in 1..n : H[i + 1] = hs[i]
  OBVIOUS
<1> HIDE DEF H
<1>2. \A i \in 1..n : hs[i][1] # ":status"
  <2> SUFFICES ASSUME NEW i \in 1..n PROVE hs[i][1] # ":status"
    OBVIOUS
  <2>1. i + 1 \in 1..Len(H) /\ 1 \in 1..Len(H) /\ i + 1 # 1
    BY <1>1
  <2>2. H[i + 1][1] = H[1][1] => i + 1 = 1
    BY <1>1, <2>1, Zenon DEF DistinctKeys
  <2>. QED  BY <1>1, <2>1, <2>2
<1>3. DOMAIN HeaderFn(hs) = Keys /\ \A i \in 1..n : HeaderFn(hs)[<<hs[i][1]>>] = <<hs[i][2]>>
  BY HeaderFnAt, Zenon
<1>4. /\ DOMAIN HeaderFn(H) = {<<H[i][1]>> : i \in 1..(n + 1)}
      /\ \A i \in 1..(n + 1) : HeaderFn(H)[<<H[i][1]>>] = <<H[i][2]>>
  <2>1. n + 1 \in Nat /\ n + 1 = Len(H) /\ DistinctKeys(H)
    BY <1>1, SMTT(30)
  <2>. QED  BY <2>1, HeaderFnAt, Zenon
<1>5. /\ DOMAIN m = Keys \cup {<<":status">>}
      /\ m[<<":status">>] = <<a>>
      /\ \A i \in 1..n : m[<<hs[i][1]>>] = <<hs[i][2]>>
      /\ m = [x \in DOMAIN m |-> m[x]]
  <2>1. \A i \in 1..n : <<hs[i][1]>> # <<":status">>
    BY <1>2
  <2>. QED  BY <1>3, <2>1 DEF m, Assign
<1>6. {<<H[i][1]>> : i \in 1..(n + 1)} = Keys \cup {<<":status">>}
  <2>1. ASSUME NEW i \in 1..(n + 1) PROVE <<H[i][1]>> \in Keys \cup {<<":status">>}
    <3>1. CASE i = 1
      BY <1>1, <3>1
    <3>2. CASE i # 1
      <4>1. i - 1 \in 1..n /\ (i - 1) + 1 = i
        BY <3>2
      <4>2. H[i] = hs[i - 1]
        BY <1>1, <4>1
      <4>. QED  BY <4>1, <4>2
    <3>. QED  BY <3>1, <3>2
  <2>2. ASSUME NEW i \in 1..n PROVE <<hs[i][1]>> \in {<<H[j][1]>> : j \in 1..(n + 1)}
    <3>1. i + 1 \in 1..(n + 1) /\ H[i + 1] = hs[i]
      BY <1>1
    <3>. QED  BY <3>1
  <2>3. <<":status">> \in {<<H[j][1]>> : j \in 1..(n + 1)}
    <3>1. 1 \in 1..(n + 1)
      OBVIOUS
    <3>. QED  BY <1>1, <3>1
  <2>4. \A y \in {<<H[i][1]>> : i \in 1..(n + 1)} : y \in Keys \cup {<<":status">>}
    BY <2>1, Zenon
  <2>5. \A y \in Keys \cup {<<":status">>} : y \in {<<H[i][1]>> : i \in 1..(n + 1)}
    BY <2>2, <2>3
  <2>. QED  BY <2>4, <2>5, Zenon
<1> HIDE DEF m
<1>7. ASSUME NEW x \in Keys \cup {<<":status">>} PROVE m[x] = HeaderFn(H)[x]
  <2>1. CASE x \in Keys
    <3>1. PICK i \in 1..n : x = <<hs[i][1]>>
      BY <2>1
    <3>2. i + 1 \in 1..(n + 1) /\ H[i + 1] = hs[i]
      BY <1>1
    <3>3. HeaderFn(H)[<<H[i + 1][1]>>] = <<H[i + 1][2]>>
      BY <1>4, <3>2
    <3>4. m[<<hs[i][1]>>] = <<hs[i][2]>>
      BY <1>5, SMTT(30)
    <3>. QED  BY <3>1, <3>2, <3>3, <3>4
  <2>2. CASE x = <<":status">>
    <3>1. 1 \in 1..(n + 1)
      OBVIOUS
    <3>2. HeaderFn(H)[<<H[1][1]>>] = <<H[1][2]>>
      BY <1>4, <3>1
    <3>3. <<H[1][1]>> = <<":status">> /\ <<H[1][2]>> = <<a>>
      BY <1>1
    <3>. QED  BY <1>5, <2>2, <3>2, <3>3
  <2>. QED  BY <2>1, <2>2
<1>8. DOMAIN m = DOMAIN HeaderFn(H) /\ \A x \in DOMAIN m : m[x] = HeaderFn(H)[x]
  BY <1>4, <1>5, <1>6, <1>7
<1>9. m = HeaderFn(H)
  BY <1>5, <1>8 DEF HeaderFn
<1>. QED  BY <1>9 DEF H, m

-----------------------------------------------------------------------------
(* The records of the run.                                                 *)

(* The words of the records hold no sentinel.                             *)
LEMMA W0Free ==
  \A w \in W0 : w \notin Tags
BY DEF W0, Tags, HSL_START, HSL_END, REQHS, REQHE, HEAN, HEAV, RESPHS, RESPHE, REQPS, REQPE

(* The header lists of the run: lists of words of W0 with distinct keys,   *)
(* none of them a pseudo-header.                                          *)
LEMMA HeaderListsFacts ==
  ASSUME NEW hs \in HeaderLists \cup {<<<<"k1", "v2">>>>}
  PROVE  /\ hs \in Seq(W0 \X W0) /\ DistinctKeys(hs)
         /\ DistinctKeys(PseudoReq \o hs) /\ DistinctKeys(PseudoResp \o hs)
<1>1. CASE hs = << >>
  BY <1>1 DEF W0, DistinctKeys, PseudoReq, PseudoResp
<1>2. CASE hs = <<<<"k1", "v1">>>>
  BY <1>2 DEF W0, DistinctKeys, PseudoReq, PseudoResp
<1>3. CASE hs = <<<<"k2", "v2">>>>
  BY <1>3 DEF W0, DistinctKeys, PseudoReq, PseudoResp
<1>4. CASE hs = <<<<"k1", "v1">>, <<"k2", "v2">>>>
  BY <1>4 DEF W0, DistinctKeys, PseudoReq, PseudoResp
<1>5. CASE hs = <<<<"k1", "v2">>>>
  BY <1>5 DEF W0, DistinctKeys, PseudoReq, PseudoResp
<1>. QED  BY <1>1, <1>2, <1>3, <1>4, <1>5 DEF HeaderLists

(* strconv.Atoi on the numbers of the run.                                 *)
LEMMA AtoiValues ==
  /\ Atoi("1") = 1 /\ Atoi("2") = 2 /\ Atoi("3") = 3
  /\ Atoi("80") = 80 /\ Atoi("8080") = 8080
BY DEF Atoi

(* The uint64 and int32 conversions keep the small values of the run, and *)
(* uint64 always lands in the range of its width.                          *)
LEMMA Widths ==
  ASSUME NEW q \in 1..3, NEW s \in 1..3
  PROVE  /\ Uint64(q) = q
         /\ q <= s => Uint64((s - q) * 1000000) = (s - q) * 1000000
         /\ Uint64((s - q) * 1000000) \in 0..(Mod64 - 1)
         /\ Uint64(q) \in 0..(Mod64 - 1)
         /\ Int32(80) = 80 /\ Int32(8080) = 8080
         /\ 80 \in Int32Range /\ 8080 \in Int32Range
<1>1. Mod64 \in Nat /\ 2^30 <= Mod64 /\ 2^30 = 1073741824
  BY Mod64Assumption
<1>2. 80 \in Int32Range /\ 8080 \in Int32Range
  BY DEF Int32Range
<1>. QED  BY <1>1, <1>2 DEF Uint64, Int32

(* The fields and the sections of a record's line are words of TextWords,  *)
(* among which neither HSL_START nor HSL_END occurs.                       *)
LEMMA TextWordsOf ==
  ASSUME NEW W, \A w \in W : w \notin Tags, NEW r \in GenRecords(W), NEW rp \in Seq(W)
  PROVE  /\ Fields(r) \in Seq(TextWords(W)) /\ Len(Fields(r)) = 12
         /\ Sections(r, rp) \in Seq(TextWords(W))
         /\ HSL_START \notin TextWords(W) /\ HSL_END \notin TextWords(W)
<1> DEFINE Al == W \cup FieldWords \cup B64Words
                  \cup {REQHS, REQHE, HEAN, HEAV, RESPHS, RESPHE, REQPS, REQPE}
           HA == Entries(r.reqH)
           HB == Entries(r.respH)
           EB == Encoded(r.reqBody)
<1>1. r.req \in W /\ r.resp \in W /\ r.reqH \in Seq(W \X W) /\ r.respH \in Seq(W \X W)
  BY Zenon DEF GenRecords
<1>2. r.reqBody \in {"", "b", "v"}
  BY Zenon DEF GenRecords
<1>3. /\ HSL_START \notin Al /\ HSL_END \notin Al
      /\ W \cup {HEAN, HEAV} \subseteq Al /\ B64Words \subseteq Al /\ W \subseteq Al
  <2>1. HSL_START \in Tags /\ HSL_END \in Tags
    BY DEF Tags
  <2>2. /\ HSL_START \notin FieldWords \cup {REQHS, REQHE, HEAN, HEAV, RESPHS, RESPHE, REQPS, REQPE}
        /\ HSL_END \notin FieldWords \cup {REQHS, REQHE, HEAN, HEAV, RESPHS, RESPHE, REQPS, REQPE}
    BY DEF FieldWords, HSL_START, HSL_END, REQHS, REQHE, HEAN, HEAV, RESPHS, RESPHE, REQPS, REQPE
  <2>3. HSL_START \notin B64Words /\ HSL_END \notin B64Words
    BY Zenon DEF B64Words, HSL_START, HSL_END
  <2>. QED  BY <2>1, <2>2, <2>3
<1>4. Fields(r) \in Seq(Al) /\ Len(Fields(r)) = 12
  BY <1>1, <1>3 DEF Fields, FieldWords
<1>5. HA \in Seq(W \cup {HEAN, HEAV}) /\ HB \in Seq(W \cup {HEAN, HEAV})
  <2>1. Entries(r.reqH) \in Seq(W \cup {HEAN, HEAV})
    BY <1>1, EntriesShape, Zenon
  <2>2. Entries(r.respH) \in Seq(W \cup {HEAN, HEAV})
    BY <1>1, EntriesShape, Zenon
  <2>. QED  BY <2>1, <2>2
<1>6. EB \in Seq(B64Words)
  BY <1>2, EncodedBody, Zenon
<1> HIDE DEF HA, HB, EB, Al
<1>7. HA \in Seq(Al) /\ HB \in Seq(Al) /\ EB \in Seq(Al) /\ rp \in Seq(Al)
  <2>1. HA \in Seq(Al) /\ HB \in Seq(Al)
    BY <1>3, <1>5, SeqMonotonic, Zenon
  <2>2. EB \in Seq(Al) /\ rp \in Seq(Al)
    BY <1>3, <1>6, SeqMonotonic, Zenon
  <2>. QED  BY <2>1, <2>2
<1>8. Sections(r, rp) \in Seq(Al)
  <2>1. <<REQHS>> \in Seq(Al) /\ <<REQHE, RESPHS>> \in Seq(Al) /\ <<RESPHE, REQPS>> \in Seq(Al)
        /\ <<REQPE>> \in Seq(Al)
    BY DEF Al
  <2>. QED  BY <1>7, <2>1 DEF Sections, HA, HB, EB
<1>. QED  BY <1>3, <1>4, <1>8, Zenon DEF TextWords, Al

(* The records of the run are records of the iRule format over W0.        *)
LEMMA RecordFacts ==
  ASSUME NEW r \in Records
  PROVE  /\ r \in GenRecords(W0)
         /\ r.req \in {"1", "2", "3"} /\ r.resp \in {"2", "3"}
         /\ r.reqH \in HeaderLists /\ r.respH \in {<< >>, <<<<"k1", "v2">>>>}
         /\ r.reqBody \in {"", "b"} /\ r.respBody \in {"", "v"}
<1>1. /\ r.req \in {"1", "2", "3"} /\ r.resp \in {"2", "3"}
      /\ r.reqH \in HeaderLists /\ r.respH \in {<< >>, <<<<"k1", "v2">>>>}
      /\ r.reqBody \in {"", "b"} /\ r.respBody \in {"", "v"}
  BY Zenon DEF Records
<1>2. r.reqH \in Seq(W0 \X W0) /\ r.respH \in Seq(W0 \X W0)
  <2>1. r.reqH \in HeaderLists \cup {<<<<"k1", "v2">>>>}
        /\ r.respH \in HeaderLists \cup {<<<<"k1", "v2">>>>}
    BY <1>1, Zenon DEF HeaderLists
  <2>. QED  BY <2>1, HeaderListsFacts, Zenon
<1>3. r.req \in W0 /\ r.resp \in W0
  BY <1>1, Zenon DEF W0
<1>. QED  BY <1>1, <1>2, <1>3, Zenon DEF Records, GenRecords

(* The payload an iRule writes for a body of the run is a text over W0.    *)
LEMMA EncodedWords ==
  ASSUME NEW b \in {"", "b", "v"}
  PROVE  Encoded(b) \in Seq(W0)
<1>1. << >> \in Seq(W0) /\ <<"Yg==">> \in Seq(W0) /\ <<"dg==">> \in Seq(W0)
  <2>1. "Yg==" \in W0 /\ "dg==" \in W0
    BY Zenon DEF W0
  <2>. QED  BY <2>1, ShortSeqs, Zenon
<1>2. \A e \in B64Words : (B64Table(e) = "b" <=> e = "Yg==") /\ (B64Table(e) = "v" <=> e = "dg==")
  BY Zenon DEF B64Words, B64Table
<1>3. /\ Encoded("") = << >>
      /\ Encoded("b") = <<"Yg==">>
      /\ Encoded("v") = <<"dg==">>
  <2>1. "Yg==" \in B64Words /\ "dg==" \in B64Words
    BY Zenon DEF B64Words
  <2>. QED  BY <1>2, <2>1, Zenon DEF Encoded
<1>. QED  BY <1>1, <1>3, Zenon

(* parseF5LogLine logs (and, on the nil logger, panics) when a sentinel is *)
(* missing from the line.                                                  *)
LEMMA SentinelMissing ==
  ASSUME NEW line, Free(line, HSL_START) \/ Free(line, HSL_END)
  PROVE  ParseF5LogLine(line) = Panic("sentinel-log")
<1>1. Index(line, HSL_START) = 0 \/ Index(line, HSL_END) = 0
  BY IndexNone
<1>. QED  BY <1>1, Zenon DEF ParseF5LogLine

(* line[start+1 : end] with end before start: the slice bounds panic.      *)
LEMMA SentinelsSwapped ==
  ASSUME NEW line, NEW a \in Nat, NEW b \in Nat, Index(line, HSL_START) = a,
         Index(line, HSL_END) = b, a # 0, b # 0, b < a
  PROVE  ParseF5LogLine(line) = Panic("slice")
<1>1. ~(a = 0 \/ b = 0)
  OBVIOUS
<1>. QED  BY <1>1, Zenon DEF ParseF5LogLine

(* What parseF5LogLine returns for each line of a record of the run: the   *)
(* record's event for the well-formed line, and for each malformed one the *)
(* panic of the log call that rejects it on the nil logger.                *)
LEMMA LineOutcomes ==
  ASSUME NEW r \in Records
  PROVE  /\ ParseF5LogLine(LineOf(r, "wellformed"))
              = [kind |-> "event", at |-> "", ev |-> EventOf(r, Encoded(r.respBody))]
         /\ ParseF5LogLine(LineOf(r, "nostart")) = Panic("sentinel-log")
         /\ ParseF5LogLine(LineOf(r, "noend")) = Panic("sentinel-log")
         /\ ParseF5LogLine(LineOf(r, "swapped")) = Panic("slice")
         /\ ParseF5LogLine(LineOf(r, "short9")) = Panic("fields-log")
         /\ ParseF5LogLine(LineOf(r, "short10")) = Panic("index")
         /\ ParseF5LogLine(LineOf(r, "short11")) = Panic("index")
         /\ ParseF5LogLine(LineOf(r, "badbody")) = Panic("decode-log")
<1> DEFINE rpl == Encoded(r.respBody)
           Tw == TextWords(W0)
           Fl == Fields(r)
           Xl == Sections(r, rpl)
<1>1. /\ r \in GenRecords(W0) /\ r.respBody \in {"", "b", "v"}
      /\ rpl \in Seq(W0) /\ \A w \in W0 : w \notin Tags
  <2>1. r \in GenRecords(W0) /\ r.respBody \in {"", "b", "v"}
    BY RecordFacts, Zenon
  <2>2. rpl \in Seq(W0)
    BY <2>1, EncodedWords, Zenon
  <2>. QED  BY <2>1, <2>2, W0Free
<1>2. /\ Fl \in Seq(Tw) /\ Len(Fl) = 12 /\ Xl \in Seq(Tw)
      /\ HSL_START \notin Tw /\ HSL_END \notin Tw
  BY <1>1, TextWordsOf, Zenon
<1>3. "t0" # HSL_START /\ "t0" # HSL_END /\ HSL_START # HSL_END
  BY DEF HSL_START, HSL_END
<1> HIDE DEF rpl, Tw, Fl, Xl
<1>4. /\ LineOf(r, "wellformed") = <<"t0", HSL_START>> \o Fl \o Xl \o <<HSL_END>>
      /\ LineOf(r, "nostart") = <<"t0">> \o Fl \o Xl \o <<HSL_END>>
      /\ LineOf(r, "noend") = <<"t0", HSL_START>> \o Fl \o Xl
      /\ LineOf(r, "swapped") = <<"t0", HSL_END>> \o Fl \o Xl \o <<HSL_START>>
      /\ LineOf(r, "short9") = <<"t0", HSL_START>> \o SubSeq(Fl, 1, 9) \o <<HSL_END>>
      /\ LineOf(r, "short10") = <<"t0", HSL_START>> \o SubSeq(Fl, 1, 10) \o <<HSL_END>>
      /\ LineOf(r, "short11") = <<"t0", HSL_START>> \o SubSeq(Fl, 1, 11) \o <<HSL_END>>
      /\ LineOf(r, "badbody") = <<"t0", HSL_START>> \o Fl \o Sections(r, <<"!!">>) \o <<HSL_END>>
  BY DEF LineOf, Fl, Xl, rpl
<1>5. ParseF5LogLine(LineOf(r, "wellformed"))
        = [kind |-> "event", at |-> "", ev |-> EventOf(r, Encoded(r.respBody))]
  <2>1. ParseF5LogLine(<<"t0", HSL_START>> \o Fields(r) \o Sections(r, rpl) \o <<HSL_END>>)
          = IF B64Valid(rpl) THEN [kind |-> "event", at |-> "", ev |-> EventOf(r, rpl)]
            ELSE Panic("decode-log")
    BY <1>1, DecodeLine, Zenon
  <2>2. B64Valid(rpl)
    BY <1>1, EncodedBody, Zenon DEF rpl
  <2>. QED  BY <1>4, <2>1, <2>2, Zenon DEF Fl, Xl, rpl
<1>6. ParseF5LogLine(LineOf(r, "nostart")) = Panic("sentinel-log")
  <2>1. Fl \in Seq(Tw \cup {"t0", HSL_END}) /\ Xl \in Seq(Tw \cup {"t0", HSL_END})
    BY <1>2, SeqMonotonic, Zenon
  <2>2. <<"t0">> \o Fl \o Xl \o <<HSL_END>> \in Seq(Tw \cup {"t0", HSL_END})
    BY <2>1
  <2>3. HSL_START \notin Tw \cup {"t0", HSL_END}
    BY <1>2, <1>3
  <2>4. Free(<<"t0">> \o Fl \o Xl \o <<HSL_END>>, HSL_START)
    BY <2>2, <2>3, FreeSeq, Zenon
  <2>. QED  BY <1>4, <2>4, SentinelMissing, Zenon
<1>7. ParseF5LogLine(LineOf(r, "noend")) = Panic("sentinel-log")
  <2>1. Fl \in Seq(Tw \cup {"t0", HSL_START}) /\ Xl \in Seq(Tw \cup {"t0", HSL_START})
    BY <1>2, SeqMonotonic, Zenon
  <2>2. <<"t0", HSL_START>> \o Fl \o Xl \in Seq(Tw \cup {"t0", HSL_START})
    BY <2>1
  <2>3. HSL_END \notin Tw \cup {"t0", HSL_START}
    BY <1>2, <1>3
  <2>4. Free(<<"t0", HSL_START>> \o Fl \o Xl, HSL_END)
    BY <2>2, <2>3, FreeSeq, Zenon
  <2>. QED  BY <1>4, <2>4, SentinelMissing, Zenon
<1>8. ParseF5LogLine(LineOf(r, "swapped")) = Panic("slice")
  <2> DEFINE M == <<"t0", HSL_END>> \o Fl \o Xl
             Ln == M \o <<HSL_START>>
  <2>1. Fl \in Seq(Tw \cup {"t0", HSL_END}) /\ Xl \in Seq(Tw \cup {"t0", HSL_END})
    BY <1>2, SeqMonotonic, Zenon
  <2>2. /\ M \in Seq(Tw \cup {"t0", HSL_END}) /\ Len(M) = 14 + Len(Xl)
        /\ M[1] = "t0" /\ M[2] = HSL_END
    <3> DEFINE U == Tw \cup {"t0", HSL_END}
               M1 == <<"t0", HSL_END>> \o Fl
    <3>1. <<"t0", HSL_END>> \in Seq(U) /\ Len(<<"t0", HSL_END>>) = 2
      OBVIOUS
    <3>2. Len(Fl) = 12 /\ Len(Xl) \in Nat
      BY <1>2
    <3> HIDE DEF U
    <3>3. M1 \in Seq(U) /\ Len(M1) = 14 /\ M1[1] = "t0" /\ M1[2] = HSL_END
      <4>1. Fl \in Seq(U)
        BY <2>1 DEF U
      <4>2. /\ M1 \in Seq(U) /\ Len(M1) = Len(<<"t0", HSL_END>>) + Len(Fl)
            /\ \A i \in 1..Len(<<"t0", HSL_END>>) + Len(Fl) :
                 M1[i] = IF i <= Len(<<"t0", HSL_END>>) THEN <<"t0", HSL_END>>[i]
                         ELSE Fl[i - Len(<<"t0", HSL_END>>)]
        BY <3>1, <4>1, ConcatProperties, Zenon
      <4>. QED  BY <3>1, <3>2, <4>2
    <3> HIDE DEF M1
    <3>4. M \in Seq(U) /\ Len(M) = 14 + Len(Xl) /\ M[1] = M1[1] /\ M[2] = M1[2]
      <4>1. Xl \in Seq(U)
        BY <2>1 DEF U
      <4>2. /\ M1 \o Xl \in Seq(U) /\ Len(M1 \o Xl) = Len(M1) + Len(Xl)
            /\ \A i \in 1..Len(M1) + Len(Xl) :
                 (M1 \o Xl)[i] = IF i <= Len(M1) THEN M1[i] ELSE Xl[i - Len(M1)]
        BY <3>3, <4>1, ConcatProperties, Zenon
      <4>3. M = M1 \o Xl
        BY DEF M, M1
      <4>4. Len(M1 \o Xl) = 14 + Len(Xl)
        BY <3>3, <4>2
      <4>5. 1 \in 1..Len(M1) + Len(Xl) /\ 2 \in 1..Len(M1) + Len(Xl) /\ 1 <= Len(M1) /\ 2 <= Len(M1)
        BY <3>2, <3>3
      <4>6. (M1 \o Xl)[1] = M1[1] /\ (M1 \o Xl)[2] = M1[2]
        BY <4>2, <4>5
      <4>. QED  BY <4>2, <4>3, <4>4, <4>6, Zenon
    <3>. QED  BY <3>3, <3>4 DEF U
  <2>3. HSL_START \notin Tw \cup {"t0", HSL_END}
    BY <1>2, <1>3
  <2>4. Free(M, HSL_START)
    BY <2>2, <2>3, FreeSeq, Zenon
  <2> HIDE DEF M
  <2>5. Index(Ln, HSL_START) = Len(M) + 1
    <3>1. /\ Len(M) + 1 \in 1..Len(Ln) /\ Ln[Len(M) + 1] = HSL_START
          /\ \A j \in 1..(Len(M) + 1 - 1) : Ln[j] # HSL_START
      BY <2>2, <2>4 DEF Free
    <3>2. \A k \in 1..Len(Ln) : (Ln[k] = HSL_START /\ \A j \in 1..(k - 1) : Ln[j] # HSL_START)
                                  => Index(Ln, HSL_START) = k
      BY IndexAt
    <3>. QED  BY <3>1, <3>2
  <2>6. Index(Ln, HSL_END) = 2
    <3>1. /\ 2 \in 1..Len(Ln) /\ Ln[2] = HSL_END /\ \A j \in 1..(2 - 1) : Ln[j] # HSL_END
      BY <1>3, <2>2
    <3>2. \A k \in 1..Len(Ln) : (Ln[k] = HSL_END /\ \A j \in 1..(k - 1) : Ln[j] # HSL_END)
                                  => Index(Ln, HSL_END) = k
      BY IndexAt
    <3>. QED  BY <3>1, <3>2
  <2>7. Len(M) + 1 \in Nat /\ 2 \in Nat /\ Len(M) + 1 # 0 /\ 2 # 0 /\ 2 < Len(M) + 1
    BY <2>2
  <2>8. ParseF5LogLine(Ln) = Panic("slice")
    BY <2>5, <2>6, <2>7, SentinelsSwapped, Zenon
  <2>. QED  BY <1>4, <2>8, Zenon DEF Ln, M
<1>9. /\ ParseF5LogLine(LineOf(r, "short9")) = Panic("fields-log")
      /\ ParseF5LogLine(LineOf(r, "short10")) = Panic("index")
      /\ ParseF5LogLine(LineOf(r, "short11")) = Panic("index")
  <2>1. ASSUME NEW k \in 9..11
        PROVE  ParseF5LogLine(<<"t0", HSL_START>> \o SubSeq(Fl, 1, k) \o <<HSL_END>>)
                 = IF k < 10 THEN Panic("fields-log") ELSE Panic("index")
    <3> DEFINE P == SubSeq(Fl, 1, k)
    <3>1. P \in Seq(Tw) /\ Len(P) = k
      <4>1. \A i \in 1..k : Fl[i] \in Tw
        <5>1. Fl \in Seq(Tw) /\ Len(Fl) = 12
          BY <1>2, Zenon
        <5>2. \A i \in 1..Len(Fl) : Fl[i] \in Tw
          BY <5>1, ElementOfSeq, Zenon
        <5>. QED  BY <5>1, <5>2
      <4>2. P \in Seq(Tw) /\ Len(P) = IF 1 <= k THEN k - 1 + 1 ELSE 0
        BY <4>1, SubSeqProperties
      <4>. QED  BY <4>2
    <3>2. Len(P) # 0 /\ Free(P, HSL_START) /\ Free(P, HSL_END)
      <4>1. Len(P) # 0
        BY <3>1
      <4>2. Free(P, HSL_START) /\ Free(P, HSL_END)
        BY <1>2, <3>1, FreeSeq, Zenon
      <4>. QED  BY <4>1, <4>2
    <3> HIDE DEF P
    <3>3. ParseF5LogLine(<<"t0", HSL_START>> \o P \o <<HSL_END>>)
            = IF Len(P) < 10 THEN Panic("fields-log")
              ELSE IF Len(P) < 12 THEN Panic("index")
              ELSE Decode(P)
      BY <3>1, <3>2, LinePayload, Zenon
    <3>4. Len(P) < 12
      BY <3>1
    <3>. QED  BY <3>1, <3>3, <3>4, Zenon DEF P
  <2>2. 9 \in 9..11 /\ 10 \in 9..11 /\ 11 \in 9..11 /\ 9 < 10 /\ ~(10 < 10) /\ ~(11 < 10)
    OBVIOUS
  <2>. QED  BY <1>4, <2>1, <2>2, Zenon
<1>10. ParseF5LogLine(LineOf(r, "badbody")) = Panic("decode-log")
  <2>1. "!!" \in W0 /\ "!!" \notin B64Words
    BY Zenon DEF W0, B64Words
  <2>2. <<"!!">> \in Seq(W0) /\ Len(<<"!!">>) = 1 /\ <<"!!">>[1] = "!!" /\ 0 # 1
    BY <2>1, ShortSeqs, Zenon
  <2>3. ~B64Valid(<<"!!">>)
    BY <2>1, <2>2, Zenon DEF B64Valid
  <2>4. ParseF5LogLine(<<"t0", HSL_START>> \o Fields(r) \o Sections(r, <<"!!">>) \o <<HSL_END>>)
          = IF B64Valid(<<"!!">>) THEN [kind |-> "event", at |-> "", ev |-> EventOf(r, <<"!!">>)]
            ELSE Panic("decode-log")
    BY <1>1, <2>2, DecodeLine, Zenon
  <2>. QED  BY <1>4, <2>3, <2>4, Zenon DEF Fl
<1>. QED  BY <1>5, <1>6, <1>7, <1>8, <1>9, <1>10

(* The event parseF5LogLine builds from the well-formed line of a record   *)
(* of the run: its header maps are the pseudo-headers and the record's     *)
(* headers and its bodies are the record's, so when the response is not    *)
(* before the request it is the expected event.                           *)
LEMMA EventExpected ==
  ASSUME NEW r \in Records
  PROVE  Atoi(r.req) <= Atoi(r.resp) => EventOf(r, Encoded(r.respBody)) = Expected(r)
<1> DEFINE qa == Atoi(r.req)
           sa == Atoi(r.resp)
<1>1. /\ r.req \in {"1", "2", "3"} /\ r.resp \in {"2", "3"}
      /\ r.reqH \in HeaderLists /\ r.respH \in {<< >>, <<<<"k1", "v2">>>>}
  BY RecordFacts, Zenon
<1>2. qa \in 1..3 /\ sa \in 1..3
  BY <1>1, AtoiValues
<1> HIDE DEF qa, sa
<1>3. /\ Uint64(qa) = qa /\ Uint64(qa) \in 0..(Mod64 - 1)
      /\ Uint64((sa - qa) * 1000000) \in 0..(Mod64 - 1)
      /\ qa <= sa => Uint64((sa - qa) * 1000000) = (sa - qa) * 1000000
      /\ Int32(80) = 80 /\ Int32(8080) = 8080 /\ 80 \in Int32Range /\ 8080 \in Int32Range
  BY <1>2, Widths
<1>4. r.reqH \in HeaderLists \cup {<<<<"k1", "v2">>>>}
      /\ r.respH \in HeaderLists \cup {<<<<"k1", "v2">>>>}
  BY <1>1, Zenon DEF HeaderLists
<1>5. HEAN \notin W0 /\ HEAV \notin W0
  <2>1. HEAN \in Tags /\ HEAV \in Tags
    BY DEF Tags
  <2>. QED  BY <2>1, W0Free
<1>6. /\ Assign(Assign(Assign(Assign(HeaderMap(Entries(r.reqH)),
             <<":scheme">>, <<"http">>), <<":path">>, <<"/p">>),
             <<":method">>, <<"GET">>), <<":query">>, <<"q">>)
           = HeaderFn(PseudoReq \o r.reqH)
  <2>1. /\ r.reqH \in Seq(W0 \X W0) /\ DistinctKeys(r.reqH)
        /\ DistinctKeys(PseudoReq \o r.reqH)
    BY <1>4, HeaderListsFacts, Zenon
  <2>2. HeaderMap(Entries(r.reqH)) = HeaderFn(r.reqH)
    BY <1>5, <2>1, HeaderMapEntries, Zenon
  <2>3. Len(r.reqH) \in Nat /\ Len(PseudoReq \o r.reqH) \in Nat
    BY <2>1 DEF PseudoReq
  <2>4. Assign(Assign(Assign(Assign(HeaderFn(r.reqH),
             <<":scheme">>, <<"http">>), <<":path">>, <<"/p">>),
             <<":method">>, <<"GET">>), <<":query">>, <<"q">>)
          = HeaderFn(<<<<":scheme", "http">>, <<":path", "/p">>, <<":method", "GET">>,
                       <<":query", "q">>>> \o r.reqH)
    <3>1. DistinctKeys(<<<<":scheme", "http">>, <<":path", "/p">>, <<":method", "GET">>,
                         <<":query", "q">>>> \o r.reqH)
      BY <2>1, Zenon DEF PseudoReq
    <3>. QED  BY <2>1, <2>3, <3>1, RequestHeaders, Zenon
  <2>. QED  BY <2>2, <2>4, Zenon DEF PseudoReq
<1>7. /\ Assign(HeaderMap(Entries(r.respH)), <<":status">>, <<"200">>)
           = HeaderFn(PseudoResp \o r.respH)
  <2>1. /\ r.respH \in Seq(W0 \X W0) /\ DistinctKeys(r.respH)
        /\ DistinctKeys(PseudoResp \o r.respH)
    BY <1>4, HeaderListsFacts, Zenon
  <2>2. HeaderMap(Entries(r.respH)) = HeaderFn(r.respH)
    BY <1>5, <2>1, HeaderMapEntries, Zenon
  <2>3. Len(r.respH) \in Nat /\ Len(PseudoResp \o r.respH) \in Nat
    BY <2>1 DEF PseudoResp
  <2>4. Assign(HeaderFn(r.respH), <<":status">>, <<"200">>)
          = HeaderFn(<<<<":status", "200">>>> \o r.respH)
    <3>1. DistinctKeys(<<<<":status", "200">>>> \o r.respH)
      BY <2>1, Zenon DEF PseudoResp
    <3>. QED  BY <2>1, <2>3, <3>1, ResponseHeaders, Zenon
  <2>. QED  BY <2>2, <2>4, Zenon DEF PseudoResp
<1>8. B64Decode(Encoded(r.reqBody)) = r.reqBody /\ B64Decode(Encoded(r.respBody)) = r.respBody
  <2>1. r.reqBody \in {"", "b", "v"} /\ r.respBody \in {"", "b", "v"}
    BY RecordFacts, Zenon
  <2>. QED  BY <2>1, EncodedBody, Zenon
<1>9. Int32(Atoi("80")) = 80 /\ Int32(Atoi("8080")) = 8080
  BY <1>3, AtoiValues, SMTT(30)
<1>10. EventOf(r, Encoded(r.respBody))
         = [ts |-> qa, srcIP |-> "10.0.0.1", srcPort |-> 80,
            dstIP |-> "10.0.0.2", dstPort |-> 8080, protocol |-> "HTTP/1.1",
            reqHeaders |-> HeaderFn(PseudoReq \o r.reqH),
            respHeaders |-> HeaderFn(PseudoResp \o r.respH),
            reqBody |-> r.reqBody, respBody |-> r.respBody,
            latency |-> Uint64((sa - qa) * 1000000)]
  BY <1>3, <1>6, <1>7, <1>8, <1>9, SMTT(30) DEF EventOf, Latency, qa, sa
<1>12. qa <= sa => EventOf(r, Encoded(r.respBody)) = Expected(r)
  <2>1. Expected(r)
          = [ts |-> qa, srcIP |-> "10.0.0.1", srcPort |-> 80,
             dstIP |-> "10.0.0.2", dstPort |-> 8080, protocol |-> "HTTP/1.1",
             reqHeaders |-> HeaderFn(PseudoReq \o r.reqH),
             respHeaders |-> HeaderFn(PseudoResp \o r.respH),
             reqBody |-> r.reqBody, respBody |-> r.respBody,
             latency |-> (sa - qa) * 1000000]
    BY DEF Expected, qa, sa, PseudoReq, PseudoResp
  <2>. QED  BY <1>3, <1>10, <2>1, SMTT(30)
<1>. QED  BY <1>12 DEF qa, sa

(* The outcome of a rejection is a panic, never an event.                  *)
LEMMA PanicKind ==
  ASSUME NEW x
  PROVE  Panic(x).kind = "panic" /\ Panic(x).kind # "event"
BY Zenon DEF Panic

(* Every initial state, one line of a record parsed, satisfies             *)
(* MalformedNeverDecoded and RoundTrip: by LineOutcomes the outcome is the *)
(* record's event for the well-formed line and the panic of a rejection    *)
(* for every other, and by EventExpected that event is the expected one.  *)
LEMMA InitInvariants ==
  ASSUME Init
  PROVE  MalformedNeverDecoded /\ RoundTrip
<1>1. rec \in Records /\ variant \in Variants /\ outcome = ParseF5LogLine(LineOf(rec, variant))
  BY DEF Init
<1>2. /\ variant = "wellformed"
           => outcome = [kind |-> "event", at |-> "", ev |-> EventOf(rec, Encoded(rec.respBody))]
      /\ variant # "wellformed"
           => \E x \in {"sentinel-log", "slice", "fields-log", "index", "decode-log"} :
                outcome = Panic(x)
  <2>1. /\ ParseF5LogLine(LineOf(rec, "wellformed"))
             = [kind |-> "event", at |-> "", ev |-> EventOf(rec, Encoded(rec.respBody))]
        /\ ParseF5LogLine(LineOf(rec, "nostart")) = Panic("sentinel-log")
        /\ ParseF5LogLine(LineOf(rec, "noend")) = Panic("sentinel-log")
        /\ ParseF5LogLine(LineOf(rec, "swapped")) = Panic("slice")
        /\ ParseF5LogLine(LineOf(rec, "short9")) = Panic("fields-log")
        /\ ParseF5LogLine(LineOf(rec, "short10")) = Panic("index")
        /\ ParseF5LogLine(LineOf(rec, "short11")) = Panic("index")
        /\ ParseF5LogLine(LineOf(rec, "badbody")) = Panic("decode-log")
    BY <1>1, LineOutcomes, ZenonT(40)
  <2>. QED  BY <1>1, <2>1, Zenon DEF Variants
<1>3. Atoi(rec.req) <= Atoi(rec.resp) => EventOf(rec, Encoded(rec.respBody)) = Expected(rec)
  BY <1>1, EventExpected
<1>4. MalformedNeverDecoded
  <2> SUFFICES ASSUME variant # "wellformed" PROVE outcome.kind # "event"
    BY DEF MalformedNeverDecoded
  <2>1. PICK x \in {"sentinel-log", "slice", "fields-log", "index", "decode-log"} :
          outcome = Panic(x)
    BY <1>2
  <2>. QED  BY <2>1, PanicKind, Zenon
<1>5. RoundTrip
  BY <1>2, <1>3, Zenon DEF RoundTrip
<1>. QED  BY <1>4, <1>5

(* A line is parsed once and the state never changes after it, so the     *)
(* invariants of the initial state hold in every state.                   *)
LEMMA StepUnchanged ==
  ASSUME [Next]_vars
  PROVE  rec' = rec /\ variant' = variant /\ outcome' = outcome
BY DEF Next, vars

(* No malformed line becomes an event (spec 4.1 and 8.2), for every width *)
(* Mod64 of at least 2^30: a line of the run with a missing or swapped     *)
(* sentinel, too few fields or a response payload that is not base64 ends *)
(* at the panic of the matching rejection in parseF5LogLine.               *)
THEOREM MalformedNeverDecodedHolds == Spec => []MalformedNeverDecoded
<1>1. Init => MalformedNeverDecoded
  BY InitInvariants
<1>2. MalformedNeverDecoded /\ [Next]_vars => MalformedNeverDecoded'
  <2> SUFFICES ASSUME MalformedNeverDecoded, [Next]_vars PROVE MalformedNeverDecoded'
    OBVIOUS
  <2>1. rec' = rec /\ variant' = variant /\ outcome' = outcome
    BY StepUnchanged
  <2>. QED  BY <2>1, Zenon DEF MalformedNeverDecoded
<1>. QED  BY <1>1, <1>2, PTL DEF Spec

(* The line-protocol round trip (spec 8.2) for every width Mod64 of at     *)
(* least 2^30: a well-formed line whose response time is not before its    *)
(* request time decodes to the event it encodes.                           *)
THEOREM RoundTripHolds == Spec => []RoundTrip
<1>1. Init => RoundTrip
  BY InitInvariants
<1>2. RoundTrip /\ [Next]_vars => RoundTrip'
  <2> SUFFICES ASSUME RoundTrip, [Next]_vars PROVE RoundTrip'
    OBVIOUS
  <2>1. rec' = rec /\ variant' = variant /\ outcome' = outcome
    BY StepUnchanged
  <2>. QED  BY <2>1, Zenon DEF RoundTrip
<1>. QED  BY <1>1, <1>2, PTL DEF Spec
=============================================================================
