--------------------------------- MODULE Codec ---------------------------------
(***************************************************************************)
(* The Encode and Decode instances of the messages this crate exchanges:   *)
(* trace-forward (protocol/messages.rs, protocol/types.rs), its handshake  *)
(* (mux/handshake.rs), DataPoint (server/datapoint.rs) and EKG             *)
(* (server/ekg.rs).  An Encode gives tokens; a decode takes a decoder that *)
(* holds the tokens received and adds one value to what it has read.       *)
(*                                                                         *)
(* "form" is how the writer spells a list: "definite" for this crate,      *)
(* "indefinite" for the Haskell nodes at the other end.  A Maybe is a      *)
(* sequence of at most one value.  UTCTime's second form (tag 1 and a      *)
(* float) is left out: nothing here writes it.                             *)
(***************************************************************************)
EXTENDS Cbor, FiniteSets, FiniteSetsExt

PicosPerNano == 1000

SeverityMax == 7                 \* Debug = 0 ... Emergency = 7
DetailMax   == 3                 \* DMinimal = 0 ... DMaximum = 3

(***************************************************************************)
(* Parts of messages.                                                      *)
(***************************************************************************)
EncodeMaybe(x, Just(_)) == IF x = <<>> THEN <<Arr(0)>> ELSE <<Arr(1)>> \o Just(x[1])

DecodeMaybe(d, Just(_)) ==
  LET a == Expect(Read(d, "array"), {0, 1})
      b == IF a.st = "ok" /\ Last(a.got) = 1 THEN Just(a) ELSE a
  IN Made(d, b, Tail(Since(d, b)))

Text(d) == Read(d, "str")
EncodeText(t) == <<Str(t)>>
EncodeTexts(form, ts) == List(form, [i \in DOMAIN ts |-> EncodeText(ts[i])])

EncodeEnum(n) == <<Arr(1), Int64(n)>>

DecodeEnum(d, max) ==
  LET e == Expect(Reads(d, <<"array", "u8">>), 0..max) IN Made(d, e, Last(e.got))

DecodeSeverity_OffByOne(d) == DecodeEnum(d, SeverityMax - 1)
DecodeSeverity(d) == DecodeEnum(d, SeverityMax)
DecodeDetailLevel(d) == DecodeEnum(d, DetailMax)

\* t = <<seconds, nanoseconds within the second>>.
EncodeUTCTime(secs, psecs) ==
  <<Tag(1000), MapOf(2), Int64(1), Int64(secs), Int64(-12), Int64(psecs)>>

NanosOf_Picos(psecs) == psecs
NanosOf(psecs) == psecs \div PicosPerNano

DecodeUTCTime(d) ==
  LET k0 == Expect(Read(Expect(Read(Expect(Read(d, "tag"), {1000}), "map"), {2}), "i64"), {1})
      e  == Read(Expect(Reads(k0, <<"i64", "i64">>), {-12}), "u64")
  IN Made(d, e, <<e.got[Len(e.got) - 2], NanosOf(Last(e.got))>>)

EncodeTraceObject(form, o) ==
  <<Arr(9), Int64(0)>> \o EncodeMaybe(o.human, EncodeText) \o EncodeText(o.machine)
  \o EncodeTexts(form, o.namespace) \o EncodeEnum(o.severity) \o EncodeEnum(o.details)
  \o EncodeUTCTime(o.time[1], o.time[2] * PicosPerNano)
  \o EncodeText(o.hostname) \o EncodeText(o.thread)

DecodeTraceObject(d) ==
  LET human     == DecodeMaybe(Read(Expect(Read(d, "array"), {9}), "u8"), Text)
      namespace == ArrayOf(Text(human), Text)
      details   == DecodeDetailLevel(DecodeSeverity(namespace))
      e         == Text(Text(DecodeUTCTime(details)))
      v         == Since(d, e)
  IN Made(d, e, [human |-> v[3], machine |-> v[4], namespace |-> v[5], severity |-> v[6],
                 details |-> v[7], time |-> v[8], hostname |-> v[9], thread |-> v[10]])

\* A counter, a gauge or a label; "other" stands for the kinds of value this
\* crate does not know, written as a list of two numbers.
EncodeValue(v) ==
  <<Arr(2)>> \o CASE v[1] = "counter" -> <<Int64(0), Int64(v[2])>>
                  [] v[1] = "gauge"   -> <<Int64(1), Int64(v[2])>>
                  [] v[1] = "label"   -> <<Int64(2), Str(v[2])>>
                  [] v[1] = "other"   -> <<Int64(3), Arr(2), Int64(v[2]), Int64(v[2])>>

\* A value of an unknown kind is skipped; format!("<tag {}>", tag) takes its place.
UnknownLabel == <<"label", "<tag>">>

SkipUnknown_Stays(d) == d
SkipUnknown(d) == Skip(d)

DecodeValue(d) ==
  LET a   == Reads(d, <<"array", "u8">>)
      tag == Last(a.got)
      n   == Read(a, "i64")
      t   == Text(a)
  IN CASE a.st # "ok" -> a
       [] a.st = "ok" /\ tag = 0 -> Made(d, n, <<"counter", Last(n.got)>>)
       [] a.st = "ok" /\ tag = 1 -> Made(d, n, <<"gauge", Last(n.got)>>)
       [] a.st = "ok" /\ tag = 2 -> Made(d, t, <<"label", Last(t.got)>>)
       [] OTHER -> Made(d, SkipUnknown(a), UnknownLabel)

(***************************************************************************)
(* protocol/messages.rs                                                    *)
(***************************************************************************)
EncodeMessage(form, m) ==
  CASE m.is = "Request" -> <<Arr(3), Int64(1), Bool(m.blocking), Arr(2), Int64(0), Int64(m.count)>>
    [] m.is = "Reply" -> <<Arr(2), Int64(3)>>
                         \o List(form, [i \in DOMAIN m.traces |-> EncodeTraceObject(form, m.traces[i])])
    [] m.is = "Done" -> <<Arr(1), Int64(2)>>

\* NumberOfTraceObjects is array(2) of a constructor index and the count.
DecodeCount_OneMore(d) == Reads(d, <<"array", "u16", "u16", "u16">>)
DecodeCount(d) == Reads(d, <<"array", "u16", "u16">>)

DecodeMessage(d) ==
  LET a   == Expect(Reads(d, <<"array", "u16">>), 1..3)
      req == DecodeCount(Read(a, "bool"))
      rep == ArrayOf(a, DecodeTraceObject)
  IN CASE a.st # "ok" -> a
       [] a.st = "ok" /\ Last(a.got) = 1 ->
            Made(d, req, [is |-> "Request", blocking |-> Since(a, req)[1], count |-> Last(req.got)])
       [] a.st = "ok" /\ Last(a.got) = 2 -> Made(d, a, [is |-> "Done"])
       [] OTHER -> Made(d, rep, [is |-> "Reply", traces |-> Last(rep.got)])

(***************************************************************************)
(* mux/handshake.rs.  A version table is a function from versions to their *)
(* data, here the network magic.                                           *)
(***************************************************************************)
version_table_v1(magic) == 1 :> magic

EncodeHandshake(m) ==
  CASE m.is = "Propose" ->
         LET vs == SetToSeq(DOMAIN m.versions)
         IN <<Arr(2), Int64(0), MapOf(Len(vs))>>
            \o FlattenSeq([i \in DOMAIN vs |-> <<Int64(vs[i]), Int64(m.versions[vs[i]])>>])
    [] m.is = "Accept" -> <<Arr(3), Int64(1), Int64(m.version), Int64(m.magic)>>
    [] m.is = "Refuse" -> <<Arr(2), Int64(2), Arr(Len(m.versions))>>
                          \o [i \in DOMAIN m.versions |-> Int64(m.versions[i])]

\* The map that the pairs <<k, v>> build, a later pair replacing an earlier.
MapFrom(pairs) ==
  LET at(k) == {i \in DOMAIN pairs : pairs[i][1] = k}
  IN  [k \in {pairs[i][1] : i \in DOMAIN pairs} |-> pairs[Max(at(k))][2]]

Pair(d) == LET e == Reads(d, <<"u64", "u64">>) IN Made(d, e, Since(d, e))
Version(d) == Read(d, "u64")

DecodeHandshake(d) ==
  LET a == Expect(Reads(d, <<"array", "u16">>), 0..2)
      m == Expect(Read(a, "map"), Nat)
      v == Expect(Read(a, "array"), Nat)
      propose == IF m.st = "ok" THEN Items(m, Last(m.got), Pair) ELSE m
      accept  == Reads(a, <<"u64", "u64">>)
      refuse  == IF v.st = "ok" THEN Items(v, Last(v.got), Version) ELSE v
  IN CASE a.st # "ok" -> a
       [] a.st = "ok" /\ Last(a.got) = 0 ->
            Made(d, propose, [is |-> "Propose", versions |-> MapFrom(Last(propose.got))])
       [] a.st = "ok" /\ Last(a.got) = 1 ->
            Made(d, accept, [is |-> "Accept", version |-> Since(a, accept)[1], magic |-> Last(accept.got)])
       [] OTHER -> Made(d, refuse, [is |-> "Refuse", versions |-> Last(refuse.got)])

(***************************************************************************)
(* server/datapoint.rs.  A value is a sequence of bytes, which a Haskell   *)
(* peer may send in chunks.                                                *)
(***************************************************************************)
EncodeBytes(form, b) ==
  IF form = "definite" THEN <<Bytes(b)>>
  ELSE <<ByteRun>> \o [i \in DOMAIN b |-> Bytes(<<b[i]>>)] \o <<Break>>

Chunk(d) == Read(d, "bytes")

DecodeBytes(d) ==
  LET run == ~AtEnd(d) /\ Head(d.rest)[1] = "byterun"
      e == IF run THEN Items(Read(d, "byterun"), Indefinite, Chunk) ELSE Chunk(d)
  IN IF run THEN Made(d, e, FlattenSeq(Last(e.got))) ELSE e

EncodeItem(form, p) ==
  <<Arr(2), Str(p[1])>> \o EncodeMaybe(p[2], LAMBDA b : EncodeBytes(form, b))

EncodeDataPoint(form, m) ==
  CASE m.is = "Request" -> <<Arr(2), Int64(1)>> \o EncodeTexts(form, m.names)
    [] m.is = "Reply" -> <<Arr(2), Int64(3)>>
                         \o List(form, [i \in DOMAIN m.items |-> EncodeItem(form, m.items[i])])
    [] m.is = "Done" -> <<Arr(1), Int64(2)>>

decode_reply_item(d) ==
  LET e == DecodeMaybe(Text(Read(d, "array")), DecodeBytes) IN Made(d, e, Tail(Since(d, e)))

DecodeDataPoint(d) ==
  LET a == Expect(Reads(d, <<"array", "u8">>), 1..3)
      req == ArrayOf(a, Text)
      rep == ArrayOf(a, decode_reply_item)
  IN CASE a.st # "ok" -> a
       [] a.st = "ok" /\ Last(a.got) = 1 -> Made(d, req, [is |-> "Request", names |-> Last(req.got)])
       [] a.st = "ok" /\ Last(a.got) = 2 -> Made(d, a, [is |-> "Done"])
       [] OTHER -> Made(d, rep, [is |-> "Reply", items |-> Last(rep.got)])

(***************************************************************************)
(* server/ekg.rs.  A response is a map from names to values, which the     *)
(* writer sends in an order of its own; Done and a response have one tag.  *)
(***************************************************************************)
EncodeMetric(name, v) == <<Arr(2), Str(name)>> \o EncodeValue(v)

EncodeEkg(form, m, order) ==
  CASE m.is = "Req" -> <<Arr(2), Int64(0), Arr(1), Int64(IF m.all THEN 0 ELSE 2)>>
    [] m.is = "Resp" ->
         <<Arr(2), Int64(1), Arr(2), Int64(0)>>
         \o List(form, [i \in DOMAIN order |-> EncodeMetric(order[i], m.metrics[order[i]])])
    [] m.is = "Done" -> <<Arr(1), Int64(1)>>

EncodeEkgOrders(m) == IF m.is = "Resp" THEN SetToSeqs(DOMAIN m.metrics) ELSE {<<>>}

DecodeMetric(d) ==
  LET e == DecodeValue(Text(Read(d, "array"))) IN Made(d, e, Tail(Since(d, e)))

DecodeEkg(d) ==
  LET a == Reads(d, <<"array", "u8">>)
      format == Since(d, a)
      req  == Reads(a, <<"array", "u8">>)
      resp == ArrayOf(Reads(a, <<"array", "u8">>), DecodeMetric)
  IN CASE a.st # "ok" -> a
       [] a.st = "ok" /\ format = <<2, 0>> -> Made(d, req, [is |-> "Req", all |-> Last(req.got) = 0])
       [] a.st = "ok" /\ format = <<1, 1>> -> Made(d, a, [is |-> "Done"])
       [] a.st = "ok" /\ format = <<2, 1>> ->
            Made(d, resp, [is |-> "Resp", metrics |-> MapFrom(Last(resp.got))])
       [] OTHER -> [a EXCEPT !.st = "bad"]
================================================================================
