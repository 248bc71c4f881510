---------------------------- MODULE TraceForward ----------------------------
(***************************************************************************)
(* A trace forwarder, the acceptor it is configured for, the connections   *)
(* between them, the tasks that log and the application that consumes.     *)
(***************************************************************************)
EXTENDS Forwarder, Acceptor

vars == <<linkVars, forwarderVars, acceptorVars>>

Init == LinkInit /\ ForwarderInit /\ AcceptorInit

ForwarderStep == (ForwarderTask \/ Producers) /\ UNCHANGED acceptorVars

AcceptorStep ==
  /\ \/ \E c \in Conns : Handler(c) \/ ForeignAcceptor(c)
     \/ Consume
     \/ DropHandle
  /\ UNCHANGED forwarderVars

LinkStep ==
  /\ \E c \in Conns : Break(c)
  /\ UNCHANGED <<forwarderVars, acceptorVars>>

Next == ForwarderStep \/ AcceptorStep \/ LinkStep

Spec == Init /\ [][Next]_vars

(***************************************************************************)
(* Every task the runtime can poll makes progress: the forwarder task, the *)
(* senders that hold a permit, the acceptor's handlers and the consumer.   *)
(* Nobody has to log, nothing has to break.  An acceptor is reachable      *)
(* again and again, so a forwarder that keeps trying gets through.         *)
(***************************************************************************)
Fairness ==
  /\ WF_vars(ForwarderTask /\ UNCHANGED acceptorVars)
  /\ SF_vars((\E c \in Conns : Connect(c)) /\ UNCHANGED acceptorVars)
  /\ WF_vars((\E i \in 1..Len(waiting) : FinishSend(i))
               /\ UNCHANGED acceptorVars)
  /\ \A c \in Conns : WF_vars(Handler(c) /\ UNCHANGED forwarderVars)
  /\ WF_vars(Consume /\ UNCHANGED forwarderVars)

FairSpec == Spec /\ Fairness

TypeOK == LinkTypeOK /\ ForwarderTypeOK /\ AcceptorTypeOK

-----------------------------------------------------------------------------
(* Where the traces are                                                    *)

(* The trace objects of the reply that is on its way over connection c.    *)
InFlight(c) == IF NextUp(c, "Reply") THEN Head(up[c]).traces ELSE << >>

Location ==
  ({"waiting", "queue", "batch", "channel", "consumed"} \X {NoConn})
    \cup ({"flight", "pending"} \X Conns)

Waiting == <<"waiting", NoConn>>

Holdings(w, q, b, f, p, ch, co) ==
  [l \in Location |->
     CASE l[1] = "waiting"  -> w
       [] l[1] = "queue"    -> q
       [] l[1] = "batch"    -> b
       [] l[1] = "flight"   -> f[l[2]]
       [] l[1] = "pending"  -> p[l[2]]
       [] l[1] = "channel"  -> ch
       [] l[1] = "consumed" -> co]

Held == Holdings(waiting, queue, batch, [c \in Conns |-> InFlight(c)], pending,
                 channel, consumed)

Discarded == lost \cup truncated \cup rejected

(* No trace is in two places, or twice in one: no interleaving of a broken *)
(* connection, the handler it leaves behind and the reconnected forwarder  *)
(* duplicates a trace, and a trace reported as QueueFull or lost is never  *)
(* delivered (forwarder.rs and acceptor.rs, the moves of every trace).     *)
OnePlace ==
  /\ \A l \in Location : IsInjective(Held[l])
  /\ \A l, m \in Location :
       Range(Held[l]) \cap Range(Held[m]) # {} => l = m
  /\ \A l \in Location : Range(Held[l]) \cap Discarded = {}

(* Every trace that entered the queue is somewhere, or was discarded for a *)
(* reason the model names: cut off by take(n), or lost to a failure.       *)
NothingVanishes ==
  Range(accepted) =
    (UNION {Range(Held[l]) : l \in Location \ {Waiting}})
      \cup lost \cup truncated

(* The agency rules of the protocol's State enum (messages.rs:51-61): a    *)
(* request is outstanding exactly while the handler waits for its reply,   *)
(* so at most one request or reply travels on a connection; the handler    *)
(* holds traces only between a reply and its next request.                 *)
Requests(c) == {i \in DOMAIN down[c] : down[c][i].type = "Request"}
Replies(c)  == {i \in DOMAIN up[c] : up[c][i].type = "Reply"}

Agency ==
  \A c \in Conns :
    /\ Cardinality(Requests(c)) + Cardinality(Replies(c)) <= 1
    /\ Replies(c) # {} => apc[c] = "awaiting"
    /\ link[c] = "up" =>
         (Requests(c) \cup Replies(c) # {} <=> apc[c] = "awaiting")
    /\ apc[c] = "pushing" <=> pending[c] # << >>

(* "For blocking requests, the list must be non-empty" (messages.rs:26).   *)
NonEmptyReplies == \A c \in Conns : Replies(c) # {} => InFlight(c) # << >>

Before(s, x, y) == \E i, j \in DOMAIN s : i < j /\ s[i] = x /\ s[j] = y

(* Traces sent over one connection are sent in the order in which they     *)
(* were accepted and reach the consumer in that order, whatever handlers   *)
(* of other connections push in between.                                   *)
DeliveredInOrder ==
  \A c \in Conns : \A i, j \in DOMAIN replied[c] :
    i < j => LET x == replied[c][i]
                 y == replied[c][j]
             IN  Before(accepted, x, y) /\ ~Before(consumed, y, x)

(* "Maximum number of traces to buffer before dropping" (forwarder.rs:79): *)
(* fewer traces than the queue holds are never dropped while nothing fails.*)
DropsOnlyBeyondQueueSize == truncated # {} => Len(accepted) > QueueSize

(* The system implements the promise of LossyQueue.                        *)
Promise == INSTANCE LossyQueue
             WITH taken <- Range(accepted), delivered <- consumed,
                  gone <- lost \cup truncated

ImplementsLossyQueue == Promise!Spec

-----------------------------------------------------------------------------
(* What must eventually happen                                             *)

(* Every accepted trace is delivered or discarded: none is stuck in the    *)
(* queue, a batch, a handler or the channel.                               *)
EveryTraceSettles ==
  \A t \in Traces :
    t \in Range(accepted) ~> t \in Range(consumed) \cup lost \cup truncated

(* No send() waits for ever: the forwarder keeps draining the queue, also  *)
(* after failures of its connection.                                       *)
EverySendReturns ==
  \A t \in Traces :
    t \in Range(waiting) ~> t \in Range(accepted) \cup rejected

(* A forwarder waiting for traces does not watch its connection.  If that  *)
(* is broken and what had arrived on it is read, one more trace brings the *)
(* forwarder back to a live session (run(): the reconnect loop).           *)
(* Without the second condition this is false: a request that arrived      *)
(* before the break swallows a batch and leaves the forwarder waiting.     *)
ReconnectsWhenNeeded ==
  (fpc = "waiting" /\ DownClosed(conn) /\ queue # << >>)
    ~> (fpc \in {"waiting", "draining", "request"} /\ link[conn] = "up")
=============================================================================
