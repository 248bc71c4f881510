---------------------------- MODULE TraceMessages ----------------------------
(***************************************************************************)
(* The messages that travel between a trace forwarder and a trace acceptor *)
(* (src/protocol/messages.rs, src/mux/handshake.rs).  A trace object is an *)
(* uninterpreted value: one member of Traces stands for one log event, so  *)
(* two events with the same text are two members.  The wire encoding is    *)
(* left out, and so is the `blocking` flag of a request: the acceptor of   *)
(* this repository always sets it and the forwarder never reads it.        *)
(***************************************************************************)
EXTENDS Naturals, Sequences, Functions

CONSTANTS
  Traces,          \* the trace objects that may be logged
  RequestCounts    \* the values of number_of_trace_objects acceptors ask for

ASSUME RequestCountsAssumption == RequestCounts \subseteq Nat

(* Handshake mini-protocol.  Version tables hold version 1 only, and the   *)
(* network magic inside them is never compared, so neither is carried.     *)
Propose == [type |-> "Propose"]
Accept  == [type |-> "Accept"]
Refuse  == [type |-> "Refuse"]

(* Trace-forward mini-protocol.                                            *)
TraceObjectsRequest(n) == [type |-> "Request", count |-> n]
TraceObjectsReply(ts)  == [type |-> "Reply", traces |-> ts]
Done                   == [type |-> "Done"]

(* What a forwarder sends, and what an acceptor sends.                     *)
ForwarderMessage ==
  {Propose} \cup [type : {"Reply"}, traces : Seq(Traces)]

AcceptorMessage ==
  {Accept, Refuse, Done} \cup [type : {"Request"}, count : RequestCounts]

(* The traces carried by a sequence of forwarder messages.                 *)
TracesIn(msgs) ==
  UNION {Range(m.traces) : m \in {x \in Range(msgs) : x.type = "Reply"}}
=============================================================================
