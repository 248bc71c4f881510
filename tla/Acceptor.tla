------------------------------ MODULE Acceptor ------------------------------
(***************************************************************************)
(* TraceAcceptor (src/acceptor.rs): one handler task per connection, all   *)
(* pushing into one bounded channel that the AcceptorHandle reads.         *)
(* A handler of an old connection runs on beside the handler of the        *)
(* connection that replaced it.                                            *)
(*                                                                         *)
(* "refuse" and "done" in Faults stand for the other acceptors a forwarder *)
(* meets (the Haskell cardano-tracer): they may refuse a handshake and end *)
(* a session with Done (TraceAcceptorClient::send_done).                   *)
(***************************************************************************)
EXTENDS Link

CONSTANT ChannelCapacity    \* AcceptorConfig::channel_capacity

ASSUME AcceptorAssumption == ChannelCapacity \in Nat \ {0}

VARIABLES
  apc,        \* connection -> where its handler is
  pending,    \* connection -> traces of the last reply not pushed yet
  channel,    \* the traces in the channel to the AcceptorHandle
  consumer,   \* TRUE until the AcceptorHandle is dropped
  consumed    \* history: what AcceptorHandle::recv returned, in order

acceptorVars == <<apc, pending, channel, consumer, consumed>>

AcceptorPc == {"accepting", "idle", "awaiting", "pushing", "ended"}

AcceptorTypeOK ==
  /\ apc \in [Conns -> AcceptorPc]
  /\ pending \in [Conns -> Seq(Traces)]
  /\ channel \in Seq(Traces)
  /\ consumer \in BOOLEAN
  /\ consumed \in Seq(Traces)

AcceptorInit ==
  /\ apc = [c \in Conns |-> "accepting"]
  /\ pending = [c \in Conns |-> << >>]
  /\ channel = << >>
  /\ consumer = TRUE
  /\ consumed = << >>

Goto(c, pc) == apc' = [apc EXCEPT ![c] = pc]

(* Accepting the connection, reading Propose and answering Accept.         *)
AcceptHandshake(c) ==
  /\ apc[c] = "accepting"
  /\ NextUp(c, "Propose")
  /\ up' = [up EXCEPT ![c] = Tail(@)]
  /\ down' = [down EXCEPT ![c] = Queued(@, c, Accept)]
  /\ \E ok \in SendOutcome(c) : Goto(c, IF ok THEN "idle" ELSE "ended")
  /\ UNCHANGED <<pending, channel, consumer, consumed, link, lost>>

(* No common version: Refuse, and the handler returns.                     *)
RefuseHandshake(c) ==
  /\ "refuse" \in Faults
  /\ apc[c] = "accepting"
  /\ NextUp(c, "Propose")
  /\ up' = [up EXCEPT ![c] = Tail(@)]
  /\ down' = [down EXCEPT ![c] = Queued(@, c, Refuse)]
  /\ Goto(c, "ended")
  /\ UNCHANGED <<pending, channel, consumer, consumed, link, lost>>

(* Mutant: the next request goes out before the reply to this one.         *)
RequestTraces_Pipelined(c) ==
  /\ apc[c] = "idle"
  /\ Len(down[c]) < 3
  /\ \E n \in RequestCounts :
       down' = [down EXCEPT ![c] = Queued(@, c, TraceObjectsRequest(n))]
  /\ \E pc \in {"idle", "awaiting"} : Goto(c, pc)
  /\ UNCHANGED <<pending, channel, consumer, consumed, link, up, lost>>

(* request_traces(): a request goes out, the handler waits for the reply.  *)
RequestTraces(c) ==
  /\ apc[c] = "idle"
  /\ \E n \in RequestCounts :
       down' = [down EXCEPT ![c] = Queued(@, c, TraceObjectsRequest(n))]
  /\ \E ok \in SendOutcome(c) : Goto(c, IF ok THEN "awaiting" ELSE "ended")
  /\ UNCHANGED <<pending, channel, consumer, consumed, link, up, lost>>

(* send_done(): the session ends between two requests.                     *)
SendDone(c) ==
  /\ "done" \in Faults
  /\ apc[c] = "idle"
  /\ down' = [down EXCEPT ![c] = Queued(@, c, Done)]
  /\ Goto(c, "ended")
  /\ UNCHANGED <<pending, channel, consumer, consumed, link, up, lost>>

(* The reply arrives; an empty one is followed by the next request.        *)
ReceiveReply(c) ==
  /\ apc[c] = "awaiting"
  /\ NextUp(c, "Reply")
  /\ up' = [up EXCEPT ![c] = Tail(@)]
  /\ pending' = [pending EXCEPT ![c] = Head(up[c]).traces]
  /\ Goto(c, IF Head(up[c]).traces = << >> THEN "idle" ELSE "pushing")
  /\ UNCHANGED <<channel, consumer, consumed, link, down, lost>>

(* Mutant: try_send instead of send, a full channel drops the trace.       *)
PushTrace_DropsWhenFull(c) ==
  /\ apc[c] = "pushing"
  /\ consumer
  /\ channel' = IF Len(channel) < ChannelCapacity
                  THEN Append(channel, Head(pending[c])) ELSE channel
  /\ pending' = [pending EXCEPT ![c] = Tail(@)]
  /\ Goto(c, IF Len(pending[c]) = 1 THEN "idle" ELSE "pushing")
  /\ UNCHANGED <<consumer, consumed, linkVars>>

(* tx.send(trace): waits while the channel is full.                        *)
PushTrace(c) ==
  /\ apc[c] = "pushing"
  /\ consumer
  /\ Len(channel) < ChannelCapacity
  /\ channel' = Append(channel, Head(pending[c]))
  /\ pending' = [pending EXCEPT ![c] = Tail(@)]
  /\ Goto(c, IF Len(pending[c]) = 1 THEN "idle" ELSE "pushing")
  /\ UNCHANGED <<consumer, consumed, linkVars>>

(* tx.send(trace) fails because the AcceptorHandle is gone.                *)
PushFails(c) ==
  /\ apc[c] = "pushing"
  /\ ~consumer
  /\ lost' = lost \cup Range(pending[c])
  /\ pending' = [pending EXCEPT ![c] = << >>]
  /\ Goto(c, "ended")
  /\ UNCHANGED <<channel, consumer, consumed, link, up, down>>

(* A receive on the broken connection fails and the handler returns.       *)
HandlerEnds(c) ==
  /\ apc[c] \in {"accepting", "awaiting"}
  /\ UpClosed(c)
  /\ Goto(c, "ended")
  /\ UNCHANGED <<pending, channel, consumer, consumed, linkVars>>

(* Mutant: the trace is read and left in the channel.                      *)
Consume_Peeks ==
  /\ consumer
  /\ channel # << >>
  /\ Len(consumed) < 4
  /\ consumed' = Append(consumed, Head(channel))
  /\ UNCHANGED <<apc, pending, channel, consumer, linkVars>>

(* AcceptorHandle::recv.                                                   *)
Consume ==
  /\ consumer
  /\ channel # << >>
  /\ consumed' = Append(consumed, Head(channel))
  /\ channel' = Tail(channel)
  /\ UNCHANGED <<apc, pending, consumer, linkVars>>

(* The application drops the AcceptorHandle and what the channel holds.    *)
DropHandle ==
  /\ "consumer" \in Faults
  /\ consumer
  /\ consumer' = FALSE
  /\ lost' = lost \cup Range(channel)
  /\ channel' = << >>
  /\ UNCHANGED <<apc, pending, consumed, link, up, down>>

Handler(c) ==
  \/ AcceptHandshake(c) \/ RequestTraces(c) \/ ReceiveReply(c)
  \/ PushTrace(c) \/ PushFails(c) \/ HandlerEnds(c)

ForeignAcceptor(c) == RefuseHandshake(c) \/ SendDone(c)
=============================================================================
