------------------------------ MODULE F5Parser ------------------------------
(***************************************************************************)
(* parseF5LogLine and extractHeaders of the F5 BIG-IP receiver             *)
(* (receiver/other/f5-big-ip/f5-big-ip.go): one high-speed-logging line in,*)
(* an APIEvent, nothing, or a panic out.                                   *)
(*                                                                         *)
(* A line is a sequence of words, the text strings.Split(_, " ") gives;    *)
(* each sentinel of the format (HSL_START, HSL_END, __REQHS__, ...) is a   *)
(* word of its own, and strings.Index of a sentinel is the position of its *)
(* first occurrence.  Since rest := strings.Join(parts[12:], " ") undoes   *)
(* the split, the sections after the positional fields are the same word  *)
(* sequence.  A header key or value is the word sequence between its tags. *)
(***************************************************************************)
EXTENDS Naturals, Integers, Sequences

CONSTANT Mod64   \* 2^64, the range of uint64; TLC runs scale it down

\* The scaled range stays above every latency a test line yields.
ASSUME Mod64Assumption == Mod64 \in Nat /\ 2^30 <= Mod64

HSL_START == "HSL_START"
HSL_END   == "HSL_END"
REQHS == "REQHS"
REQHE == "REQHE"
HEAN  == "HEAN"
HEAV  == "HEAV"
RESPHS == "RESPHS"
RESPHE == "RESPHE"
REQPS == "REQPS"
REQPE == "REQPE"

\* strings.Index: the position of the first occurrence, 0 for none (-1).
Index(s, tag) ==
  IF \E i \in 1..Len(s) : s[i] = tag
  THEN CHOOSE i \in 1..Len(s) : s[i] = tag /\ \A j \in 1..(i - 1) : s[j] # tag
  ELSE 0

\* strconv.Atoi / ParseInt on the numeric words the lines use; a word that
\* is not a number parses to 0, the value the code keeps on error.
Atoi(w) == CASE w = "0" -> 0 [] w = "1" -> 1 [] w = "2" -> 2 [] w = "3" -> 3
             [] w = "80" -> 80 [] w = "8080" -> 8080 [] OTHER -> 0

\* int32(...) and uint64(...) of an int64 (the wrap of int32 is written so
\* that TLC only computes it outside the int32 range).
Int32Range == (-(2^30) - 2^30)..((2^30 - 1) + 2^30)
Int32(n)  == IF n \in Int32Range THEN n ELSE ((n + 2^31) % 2^32) - 2^31
Uint64(n) == n % Mod64

\* base64.StdEncoding.DecodeString on the words between two tags: the
\* words are joined by spaces, which base64 rejects.
B64Words == {"", "Yg==", "dg=="}
B64Table(w) == CASE w = "Yg==" -> "b" [] w = "dg==" -> "v" [] OTHER -> ""
B64Valid(ws) == Len(ws) = 0 \/ (Len(ws) = 1 /\ ws[1] \in B64Words)
\* (The lines enumerated never hold a partial payload.)
B64Decode(ws) == IF Len(ws) = 1 /\ B64Valid(ws) THEN B64Table(ws[1]) ELSE ""

\* strings.Split(part, HEAN): a section starts at the front and after each
\* __HEAN__, and runs up to the next __HEAN__ or the end.
SectionStarts(part) == {1} \cup {i + 1 : i \in {i \in 1..Len(part) : part[i] = HEAN}}
SectionAt(part, p) ==
  LET tail == SubSeq(part, p, Len(part))
      e    == Index(tail, HEAN)
  IN  IF e = 0 THEN tail ELSE SubSeq(tail, 1, e - 1)

\* strings.SplitN(sec, HEAV, 2) of a section that contains __HEAV__: the key
\* is before the first __HEAV__ and the value after it.
HeaderKey(sec) == SubSeq(sec, 1, Index(sec, HEAV) - 1)

\* Fault model: the value is cut at the __HEAV__ itself, not after it.
HeaderValFromTag(sec) == SubSeq(sec, Index(sec, HEAV), Len(sec))

HeaderVal(sec) == SubSeq(sec, Index(sec, HEAV) + 1, Len(sec))

\* The loop of extractHeaders over the sections: a section without __HEAV__
\* is skipped, otherwise out[key] = val, so each key ends up with the value
\* of the last section that has it.
HeaderMap(part) ==
  LET keyed == {p \in SectionStarts(part) : Index(SectionAt(part, p), HEAV) # 0}
      key(p) == HeaderKey(SectionAt(part, p))
      last(k) == CHOOSE p \in keyed : key(p) = k /\ \A q \in keyed : key(q) = k => q <= p
  IN  [k \in {key(p) : p \in keyed} |-> HeaderVal(SectionAt(part, last(k)))]

\* extractHeaders(s, startTag, endTag): the map and the text after endTag,
\* or an empty map and s itself when either tag is missing.
ExtractHeaders(s, startTag, endTag) ==
  LET si  == Index(s, startTag)
      tmp == SubSeq(s, si + 1, Len(s))
      ei  == Index(tmp, endTag)
  IN  IF si = 0 \/ ei = 0 THEN [hdrs |-> <<>>, rest |-> s]
      ELSE [hdrs |-> HeaderMap(SubSeq(tmp, 1, ei - 1)),
            rest |-> SubSeq(tmp, ei + 1, Len(tmp))]

\* The outcome of one line: an event, or a panic of the handleConn goroutine
\* (which ends the process) at the call named by "at".
NoEvent == [ts |-> 0, srcIP |-> "", srcPort |-> 0, dstIP |-> "", dstPort |-> 0,
            protocol |-> "", reqHeaders |-> <<>>, respHeaders |-> <<>>,
            reqBody |-> "", respBody |-> "", latency |-> 0]
Panic(at) == [kind |-> "panic", at |-> at, ev |-> NoEvent]

\* The fields after the 12 positional ones (parts[12:]).
RestOf(parts) == SubSeq(parts, 13, Len(parts))

\* The request payload: the words between the first __REQPS__ and the
\* __REQPE__ after it; the decode error is ignored.
ReqBody(rest) ==
  LET ps  == Index(rest, REQPS)
      tmp == SubSeq(rest, ps + 1, Len(rest))
      pe  == Index(tmp, REQPE)
  IN  IF ps # 0 /\ pe # 0 THEN B64Decode(SubSeq(tmp, 1, pe - 1)) ELSE ""

\* The words of the response payload: everything after the first __REQPE__,
\* or none when there is no __REQPE__ (then nothing is decoded).
RespB64(rest) ==
  LET rb == Index(rest, REQPE)
  IN  IF rb = 0 THEN <<>> ELSE SubSeq(rest, rb + 1, Len(rest))

\* BackendLatencyInNanos: uint64((respTime - reqTime) * 1_000_000).
Latency(reqTime, respTime) == Uint64((respTime - reqTime) * 1000000)

\* m[k] = v on a Go map.
Assign(m, k, v) == [x \in DOMAIN m \cup {k} |-> IF x = k THEN v ELSE m[x]]

\* The APIEvent parseF5LogLine builds once the fixed fields are there: the
\* pseudo-headers are assigned after extractHeaders, over any header of the
\* same name.
DecodedEvent(parts) ==
  LET rq   == ExtractHeaders(RestOf(parts), REQHS, REQHE)
      rs   == ExtractHeaders(rq.rest, RESPHS, RESPHE)
      reqTime  == Atoi(parts[11])
      respTime == Atoi(parts[12])
  IN  [kind |-> "event", at |-> "",
       ev |-> [ts |-> Uint64(reqTime),
               srcIP |-> parts[5], srcPort |-> Int32(Atoi(parts[6])),
               dstIP |-> parts[7], dstPort |-> Int32(Atoi(parts[8])),
               protocol |-> parts[9],
               reqHeaders |-> Assign(Assign(Assign(Assign(rq.hdrs,
                                <<":scheme">>, <<parts[1]>>), <<":path">>, <<parts[2]>>),
                                <<":method">>, <<parts[3]>>), <<":query">>, <<parts[4]>>),
               respHeaders |-> Assign(rs.hdrs, <<":status">>, <<parts[10]>>),
               reqBody |-> ReqBody(rs.rest),
               respBody |-> B64Decode(RespB64(rs.rest)),
               latency |-> Latency(reqTime, respTime)]]

\* The text after both header sections, where the payloads are.
PayloadText(parts) ==
  ExtractHeaders(ExtractHeaders(RestOf(parts), REQHS, REQHE).rest, RESPHS, RESPHE).rest

\* Fault model: the logger is assigned, so the decode error of the response
\* payload is logged and, with no return after the log, the line still
\* becomes an event.
DecodeLoggedOnly(parts) == DecodedEvent(parts)

\* The response payload's decode error is logged on the nil logger, which
\* panics before the event is built.
Decode(parts) ==
  IF ~B64Valid(RespB64(PayloadText(parts))) THEN Panic("decode-log")
  ELSE DecodedEvent(parts)

\* parseF5LogLine.  Every rejection calls the package-level logger, which
\* is never assigned (Start declares a local one), so it panics.
ParseF5LogLine(line) ==
  LET start == Index(line, HSL_START)
      end   == Index(line, HSL_END)
      payload == SubSeq(line, start + 1, end - 1)
      parts == IF payload = <<>> THEN <<"">> ELSE payload
  IN  IF start = 0 \/ end = 0 THEN Panic("sentinel-log")
      ELSE IF end < start THEN Panic("slice")
      ELSE IF Len(parts) < 10 THEN Panic("fields-log")
      ELSE IF Len(parts) < 12 THEN Panic("index")
      ELSE Decode(parts)

-----------------------------------------------------------------------------
(* The lines the run feeds to the parser.  A record is what a BIG-IP iRule *)
(* logs (spec 4.1): request and response times, the header entries and     *)
(* the bodies; the other positional fields are fixed, distinct words.      *)
(***************************************************************************)
HeaderLists == {<<>>, <<<<"k1", "v1">>>>, <<<<"k2", "v2">>>>,
                <<<<"k1", "v1">>, <<"k2", "v2">>>>}
Records == [req : {"1", "2", "3"}, resp : {"2", "3"},
            reqH : HeaderLists, respH : {<<>>, <<<<"k1", "v2">>>>},
            reqBody : {"", "b"}, respBody : {"", "v"}]

\* How each variant changes a well-formed line.
Variants == {"wellformed", "nostart", "noend", "swapped",
             "short9", "short10", "short11", "badbody"}

Fields(r) == <<"http", "/p", "GET", "q", "10.0.0.1", "80", "10.0.0.2", "8080",
               "HTTP/1.1", "200", r.req, r.resp>>
\* __HEAN__ key __HEAV__ value for each entry, in order.
Entries(hs) == [j \in 1..(4 * Len(hs)) |->
                  LET e == hs[(j - 1) \div 4 + 1]
                  IN  <<HEAN, e[1], HEAV, e[2]>>[((j - 1) % 4) + 1]]
Encoded(b) == IF b = "" THEN <<>> ELSE <<CHOOSE e \in B64Words : B64Table(e) = b>>
Sections(r, respPayload) ==
  <<REQHS>> \o Entries(r.reqH) \o <<REQHE, RESPHS>> \o Entries(r.respH)
    \o <<RESPHE, REQPS>> \o Encoded(r.reqBody) \o <<REQPE>> \o respPayload

LineOf(r, v) ==
  CASE v = "wellformed" -> <<"t0", HSL_START>> \o Fields(r) \o Sections(r, Encoded(r.respBody)) \o <<HSL_END>>
    [] v = "nostart"    -> <<"t0">> \o Fields(r) \o Sections(r, Encoded(r.respBody)) \o <<HSL_END>>
    [] v = "noend"      -> <<"t0", HSL_START>> \o Fields(r) \o Sections(r, Encoded(r.respBody))
    [] v = "swapped"    -> <<"t0", HSL_END>> \o Fields(r) \o Sections(r, Encoded(r.respBody)) \o <<HSL_START>>
    [] v = "short9"     -> <<"t0", HSL_START>> \o SubSeq(Fields(r), 1, 9) \o <<HSL_END>>
    [] v = "short10"    -> <<"t0", HSL_START>> \o SubSeq(Fields(r), 1, 10) \o <<HSL_END>>
    [] v = "short11"    -> <<"t0", HSL_START>> \o SubSeq(Fields(r), 1, 11) \o <<HSL_END>>
    [] v = "badbody"    -> <<"t0", HSL_START>> \o Fields(r) \o Sections(r, <<"!!">>) \o <<HSL_END>>

\* The header map a list of entries with distinct keys stands for.
HeaderFn(hs) ==
  [k \in {<<hs[i][1]>> : i \in 1..Len(hs)} |->
     <<hs[CHOOSE i \in 1..Len(hs) : <<hs[i][1]>> = k][2]>>]

\* The event the spec says a well-formed line decodes to.
Expected(r) ==
  [ts |-> Atoi(r.req), srcIP |-> "10.0.0.1", srcPort |-> 80,
   dstIP |-> "10.0.0.2", dstPort |-> 8080, protocol |-> "HTTP/1.1",
   reqHeaders |-> HeaderFn(<<<<":scheme", "http">>, <<":path", "/p">>,
                             <<":method", "GET">>, <<":query", "q">>>> \o r.reqH),
   respHeaders |-> HeaderFn(<<<<":status", "200">>>> \o r.respH),
   reqBody |-> r.reqBody, respBody |-> r.respBody,
   latency |-> (Atoi(r.resp) - Atoi(r.req)) * 1000000]

VARIABLES rec, variant, outcome

vars == <<rec, variant, outcome>>

Init ==
  /\ rec \in Records
  /\ variant \in Variants
  /\ outcome = ParseF5LogLine(LineOf(rec, variant))

\* Each line is parsed once; nothing else changes.
Next == UNCHANGED vars

Spec == Init /\ [][Next]_vars

-----------------------------------------------------------------------------
(* A line the spec calls malformed (spec 4.1 and 8.2: a sentinel missing  *)
(* or out of order, fewer fields than the format has, a response payload   *)
(* that is not base64) never yields an event.  In parseF5LogLine this      *)
(* rests on every rejection path ending the call: the early returns after  *)
(* the sentinel and field-count checks, and for the response payload the  *)
(* panic of the nil logger, since no return follows that log.              *)
MalformedNeverDecoded == variant # "wellformed" => outcome.kind # "event"

(* Line-protocol round trip (spec 8.2): a well-formed line whose response  *)
(* time is not before its request time decodes to the event it encodes:    *)
(* every positional field in its place, both header maps with their        *)
(* pseudo-headers, both bodies, and the latency in nanoseconds.            *)
RoundTrip ==
  (variant = "wellformed" /\ Atoi(rec.req) <= Atoi(rec.resp))
    => outcome = [kind |-> "event", at |-> "", ev |-> Expected(rec)]

(* A malformed line (a sentinel missing or out of order, too few fields, a *)
(* payload that is not base64) is dropped with a logged reason (spec 4.1   *)
(* and 8.2): parsing it never panics the connection's goroutine.           *)
MalformedLineDropped == outcome.kind # "panic"
=============================================================================
