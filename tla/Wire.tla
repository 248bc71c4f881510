--------------------------------- MODULE Wire ---------------------------------
(***************************************************************************)
(* One direction of one mini-protocol: a peer encodes its messages, the    *)
(* multiplexer carries them in chunks that begin and end anywhere, and the *)
(* receiver's ChannelBuffer::recv_full_msg decodes message after message   *)
(* from what has arrived.  Nothing on the wire says where a message ends:  *)
(* the decoders of Codec have to find out.                                 *)
(*                                                                         *)
(* The peer is this crate or a Haskell node: each message goes out in any  *)
(* of the spellings the codecs have to accept, or is one of a protocol     *)
(* version this crate does not know ("Foreign").                           *)
(***************************************************************************)
EXTENDS Codec

CONSTANTS Messages,     \* for each mini-protocol, the messages the peer may send
          PlanLength    \* how many it sends (a bound)

ASSUME WirePlan == PlanLength \in Nat \ {0}

(***************************************************************************)
(* The messages, as Rust types them; a text is any value.                  *)
(***************************************************************************)
Foreign == [is |-> "Foreign"]
Done    == [is |-> "Done"]

IsVec(s)   == s \in Seq(Range(s))
IsMaybe(x) == IsVec(x) /\ Len(x) <= 1

IsTraceObject(o) ==
  /\ o = [human |-> o.human, machine |-> o.machine, namespace |-> o.namespace,
          severity |-> o.severity, details |-> o.details, time |-> o.time,
          hostname |-> o.hostname, thread |-> o.thread]
  /\ IsMaybe(o.human) /\ IsVec(o.namespace)
  /\ o.severity \in 0..SeverityMax /\ o.details \in 0..DetailMax
  /\ o.time \in Int \X Nat

IsTraceMessage(m) ==
  \/ m.is = "Request" /\ m \in [is : {"Request"}, blocking : BOOLEAN, count : U16]
  \/ m.is = "Reply" /\ m = [is |-> "Reply", traces |-> m.traces] /\ IsVec(m.traces)
       /\ \A o \in Range(m.traces) : IsTraceObject(o)
  \/ m = Done

IsTable(f) == IsFiniteSet(DOMAIN f) /\ f = [k \in DOMAIN f |-> f[k]]

IsHandshake(m) ==
  \/ m.is = "Propose" /\ m = [is |-> "Propose", versions |-> m.versions] /\ IsTable(m.versions)
       /\ \A k \in DOMAIN m.versions : k \in Nat /\ m.versions[k] \in Nat
  \/ m.is = "Accept" /\ m \in [is : {"Accept"}, version : Nat, magic : Nat]
  \/ m.is = "Refuse" /\ m = [is |-> "Refuse", versions |-> m.versions] /\ m.versions \in Seq(Nat)

IsDataPoint(m) ==
  \/ m.is = "Request" /\ m = [is |-> "Request", names |-> m.names] /\ IsVec(m.names)
  \/ m.is = "Reply" /\ m = [is |-> "Reply", items |-> m.items] /\ IsVec(m.items)
       /\ \A p \in Range(m.items) : p = <<p[1], p[2]>> /\ IsMaybe(p[2]) /\ \A b \in Range(p[2]) : IsVec(b)
  \/ m = Done

IsValue(v) ==
  /\ v = <<v[1], v[2]>> /\ v[1] \in {"counter", "gauge", "label", "other"}
  /\ v[1] # "label" => v[2] \in Int

IsEkg(m) ==
  \/ m.is = "Req" /\ m \in [is : {"Req"}, all : BOOLEAN]
  \/ m.is = "Resp" /\ m = [is |-> "Resp", metrics |-> m.metrics] /\ IsTable(m.metrics)
       /\ \A k \in DOMAIN m.metrics : IsValue(m.metrics[k])
  \/ m = Done

ASSUME MessagesTyped ==
  /\ DOMAIN Messages \subseteq {"trace", "handshake", "datapoint", "ekg"}
  /\ \A p \in DOMAIN Messages : \A m \in Messages[p] :
       \/ m = Foreign
       \/ p = "trace" /\ IsTraceMessage(m)
       \/ p = "handshake" /\ IsHandshake(m)
       \/ p = "datapoint" /\ IsDataPoint(m)
       \/ p = "ekg" /\ IsEkg(m)

VARIABLES
  proto,     \* the mini-protocol
  plan,      \* the messages the peer will have sent
  encoded,   \* the token sequences it has written so far, one per message
  wire,      \* tokens the multiplexer has and the receiver has not
  temp,      \* ChannelBuffer::temp
  got,       \* messages recv_full_msg has returned
  refused    \* a decoding error has ended the session

wireVars == <<proto, plan, encoded, wire, temp, got, refused>>

WireInit ==
  /\ proto \in DOMAIN Messages
  /\ plan \in [1..PlanLength -> Messages[proto]]
  /\ encoded = <<>> /\ wire = <<>> /\ temp = <<>> /\ got = <<>>
  /\ refused = FALSE

Forms == {"definite", "indefinite"}

\* Every way to write message m: a foreign one is a tag nobody here knows.
Encodings(m) ==
  CASE m.is = "Foreign" -> {<<Arr(2), Int64(9), Int64(0)>>}
    [] m.is # "Foreign" /\ proto = "trace" -> {EncodeMessage(f, m) : f \in Forms}
    [] m.is # "Foreign" /\ proto = "handshake" -> {EncodeHandshake(m)}
    [] m.is # "Foreign" /\ proto = "datapoint" -> {EncodeDataPoint(f, m) : f \in Forms}
    [] m.is # "Foreign" /\ proto = "ekg" ->
         {EncodeEkg(fo[1], m, fo[2]) : fo \in Forms \X EncodeEkgOrders(m)}

Decode(tokens) ==
  LET d == Decoder(tokens)
  IN CASE proto = "trace" -> DecodeMessage(d)
       [] proto = "handshake" -> DecodeHandshake(d)
       [] proto = "datapoint" -> DecodeDataPoint(d)
       [] proto = "ekg" -> DecodeEkg(d)

\* ChannelBuffer::send_msg_chunks
SendMessage ==
  /\ Len(encoded) < PlanLength
  /\ \E tokens \in Encodings(plan[Len(encoded) + 1]) :
       /\ encoded' = Append(encoded, tokens)
       /\ wire' = wire \o tokens
  /\ UNCHANGED <<proto, plan, temp, got, refused>>

\* ChannelBuffer::recv_full_msg: what has arrived is a message.
ReceiveMessage ==
  LET d == Decode(temp)
  IN /\ ~refused
     /\ d.st = "ok"
     /\ got' = got \o d.got
     /\ temp' = d.rest
     /\ UNCHANGED <<proto, plan, encoded, wire, refused>>

\* What has arrived is not a whole message: wait for the next chunk.
DequeueChunk ==
  /\ ~refused
  /\ Decode(temp).st = "end"
  /\ \E n \in 1..Len(wire) :
       /\ temp' = temp \o SubSeq(wire, 1, n)
       /\ wire' = SubSeq(wire, n + 1, Len(wire))
  /\ UNCHANGED <<proto, plan, encoded, got, refused>>

\* What has arrived cannot become a message.
RefuseInput ==
  /\ ~refused
  /\ Decode(temp).st = "bad"
  /\ refused' = TRUE
  /\ UNCHANGED <<proto, plan, encoded, wire, temp, got>>

WireNext == SendMessage \/ ReceiveMessage \/ DequeueChunk \/ RefuseInput

WireSpec == WireInit /\ [][WireNext]_wireVars

--------------------------------------------------------------------------------
\* Received by this crate, a message differs from the one sent only in metric
\* values of a kind the crate does not know.
Known(v) == IF v[1] = "other" THEN UnknownLabel ELSE v
AsReceived(m) ==
  IF m.is = "Resp"
  THEN [m EXCEPT !.metrics = [k \in DOMAIN m.metrics |-> Known(m.metrics[k])]]
  ELSE m

\* However the stream is cut into chunks, the receiver gets the messages that
\* were sent: the same ones, with the same contents, in the order of sending.
\* (Every Encode and Decode instance.)
ReceivedAsSent ==
  /\ Len(got) <= Len(encoded)
  /\ \A i \in DOMAIN got : got[i] = AsReceived(plan[i])

\* A message takes its own tokens from the buffer and no others, so that the
\* buffer and the wire hold exactly the messages not yet received: what a
\* decoder leaves behind or takes too much of would corrupt the next message.
StreamAligned ==
  temp \o wire = FlattenSeq(SubSeq(encoded, Len(got) + 1, Len(encoded)))

\* The session ends with a decoding error only at a message of an unknown tag:
\* no beginning of a known message, in either spelling, is ever an error.
RefusesOnlyForeign ==
  refused => Len(got) < Len(encoded) /\ plan[Len(got) + 1].is = "Foreign"

\* When everything sent has arrived and the receiver waits for more, it has
\* received every message: no decoder waits for tokens that nobody will send.
NothingStuck ==
  Len(encoded) = PlanLength /\ wire = <<>> /\ Decode(temp).st = "end" => Len(got) = PlanLength
================================================================================
