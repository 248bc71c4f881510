------------------------------ MODULE Forwarder ------------------------------
(***************************************************************************)
(* TraceForwarder (src/forwarder.rs): the bounded queue its handles feed,  *)
(* and the task that connects, shakes hands, takes batches off the queue   *)
(* and answers the acceptor's requests with them (src/mux/client.rs).      *)
(*                                                                         *)
(* The queue is a tokio mpsc channel of QueueSize permits.  A waiting      *)
(* send() is granted a permit in call order; a granted sender still has to *)
(* be scheduled before its trace enters the queue.                         *)
(***************************************************************************)
EXTENDS Link, SequencesExt

CONSTANTS
  QueueSize,           \* ForwarderConfig::queue_size
  MaxReconnectDelay,   \* ForwarderConfig::max_reconnect_delay, in seconds
  NoConn               \* "no connection yet"

ASSUME ForwarderAssumption ==
  /\ QueueSize \in Nat \ {0}
  /\ MaxReconnectDelay \in Nat
  /\ NoConn \notin Conns

VARIABLES
  fresh,       \* traces no task has handed to a ForwarderHandle yet
  waiting,     \* traces of send() calls that wait for a permit, oldest first
  queue,       \* the traces in the channel
  accepted,    \* history: the traces that entered the channel, in order
  rejected,    \* history: traces whose caller was given Err(QueueFull)
  fpc,         \* where the forwarder task is
  conn,        \* the connection the forwarder task works on
  batch,       \* the local variable `traces` of connect_and_run
  reconnectDelay,
  truncated,   \* history: traces cut off by take(number_of_trace_objects)
  replied      \* history: connection -> the traces answered on it, in order

forwarderVars == <<fresh, waiting, queue, accepted, rejected, fpc, conn, batch,
                   reconnectDelay, truncated, replied>>

ForwarderPc == {"connecting", "handshake", "waiting", "draining", "request",
                "sleeping", "exited"}

ForwarderTypeOK ==
  /\ fresh \subseteq Traces
  /\ waiting \in Seq(Traces)
  /\ queue \in Seq(Traces)
  /\ accepted \in Seq(Traces)
  /\ rejected \subseteq Traces
  /\ fpc \in ForwarderPc
  /\ conn \in Conns \cup {NoConn}
  /\ batch \in Seq(Traces)
  /\ reconnectDelay \in Nat
  /\ truncated \subseteq Traces
  /\ replied \in [Conns -> Seq(Traces)]
  /\ fpc \in {"handshake", "waiting", "draining", "request"} => conn \in Conns

ForwarderInit ==
  /\ fresh = Traces
  /\ waiting = << >>
  /\ queue = << >>
  /\ accepted = << >>
  /\ rejected = {}
  /\ fpc = "connecting"
  /\ conn = NoConn
  /\ batch = << >>
  /\ reconnectDelay = 1
  /\ truncated = {}
  /\ replied = [c \in Conns |-> << >>]

-----------------------------------------------------------------------------
(* ForwarderHandle                                                         *)

(* Every waiting send() will use a permit, so only the rest is free.       *)
HasFreePermit == Len(queue) + Len(waiting) < QueueSize

(* The receiver is dropped when run() returns.                             *)
Closed == fpc = "exited"

Enqueue(t) ==
  /\ queue' = Append(queue, t)
  /\ accepted' = Append(accepted, t)

(* send(): waits while there is no permit; an error only when closed.      *)
Send(t) ==
  /\ t \in fresh
  /\ fresh' = fresh \ {t}
  /\ \/ /\ Closed
        /\ rejected' = rejected \cup {t}
        /\ UNCHANGED <<waiting, queue, accepted>>
     \/ /\ ~Closed /\ HasFreePermit
        /\ Enqueue(t)
        /\ UNCHANGED <<waiting, rejected>>
     \/ /\ ~Closed /\ ~HasFreePermit
        /\ waiting' = Append(waiting, t)
        /\ UNCHANGED <<queue, accepted, rejected>>
  /\ UNCHANGED <<fpc, conn, batch, reconnectDelay, truncated, replied,
                 linkVars>>

(* try_send(): the same error when full and when closed.                   *)
TrySend(t) ==
  /\ t \in fresh
  /\ fresh' = fresh \ {t}
  /\ \/ /\ Closed \/ ~HasFreePermit
        /\ rejected' = rejected \cup {t}
        /\ UNCHANGED <<queue, accepted>>
     \/ /\ ~Closed /\ HasFreePermit
        /\ Enqueue(t)
        /\ UNCHANGED rejected
  /\ UNCHANGED <<waiting, fpc, conn, batch, reconnectDelay, truncated,
                 replied, linkVars>>

(* Mutant: off by one in the permits, the last one is never granted.       *)
FinishSend_OffByOne(i) ==
  /\ i \in 1..Len(waiting)
  /\ i < QueueSize - Len(queue)
  /\ Enqueue(waiting[i])
  /\ waiting' = RemoveAt(waiting, i)
  /\ UNCHANGED <<fresh, rejected, fpc, conn, batch, reconnectDelay, truncated,
                 replied, linkVars>>

(* A waiting send() that holds a permit is scheduled.                      *)
FinishSend(i) ==
  /\ i \in 1..Len(waiting)
  /\ i <= QueueSize - Len(queue)
  /\ Enqueue(waiting[i])
  /\ waiting' = RemoveAt(waiting, i)
  /\ UNCHANGED <<fresh, rejected, fpc, conn, batch, reconnectDelay, truncated,
                 replied, linkVars>>

-----------------------------------------------------------------------------
(* TraceForwarder::run and connect_and_run                                 *)

(* connect_and_run returns an error: whatever is in hand is dropped.       *)
GiveUp ==
  /\ fpc' = "sleeping"
  /\ batch' = << >>

(* Mutant: the new connection is opened and the old one kept in use.       *)
Connect_KeepsOld(c) ==
  /\ fpc = "connecting"
  /\ Open(c)
  /\ fpc' = "handshake"
  /\ UNCHANGED <<fresh, waiting, queue, accepted, rejected, conn, batch,
                 reconnectDelay, truncated, replied>>

(* Connecting succeeds and the version proposal is sent.                   *)
Connect(c) ==
  /\ fpc = "connecting"
  /\ Open(c)
  /\ conn' = c
  /\ fpc' = "handshake"
  /\ UNCHANGED <<fresh, waiting, queue, accepted, rejected, batch,
                 reconnectDelay, truncated, replied>>

(* Nobody listens at the configured address.                               *)
ConnectFails ==
  /\ fpc = "connecting"
  /\ GiveUp
  /\ UNCHANGED <<fresh, waiting, queue, accepted, rejected, conn,
                 reconnectDelay, truncated, replied, linkVars>>

(* The backoff in run(): the delay doubles and is never reset.             *)
Backoff(d) == IF 2 * d < MaxReconnectDelay THEN 2 * d ELSE MaxReconnectDelay

WakeUp ==
  /\ fpc = "sleeping"
  /\ fpc' = "connecting"
  /\ reconnectDelay' = Backoff(reconnectDelay)
  /\ UNCHANGED <<fresh, waiting, queue, accepted, rejected, conn, batch,
                 truncated, replied, linkVars>>

(* The answer to the proposal: Accept enters the loop, anything else is an *)
(* error and so a reconnect.                                               *)
HandshakeAnswered ==
  /\ fpc = "handshake"
  /\ down[conn] # << >>
  /\ down' = [down EXCEPT ![conn] = Tail(@)]
  /\ \/ NextDown(conn, "Accept") /\ fpc' = "waiting" /\ UNCHANGED batch
     \/ ~NextDown(conn, "Accept") /\ GiveUp
  /\ UNCHANGED <<fresh, waiting, queue, accepted, rejected, conn,
                 reconnectDelay, truncated, replied, link, up, lost>>

(* Mutant: the task does not wait for a first trace.                       *)
TakeFirst_NoWait ==
  /\ fpc = "waiting"
  /\ fpc' = "draining"
  /\ UNCHANGED <<fresh, waiting, queue, accepted, rejected, conn, batch,
                 reconnectDelay, truncated, replied, linkVars>>

(* rx.recv(): wait for one trace.  The connection is not watched here.     *)
TakeFirst ==
  /\ fpc = "waiting"
  /\ queue # << >>
  /\ batch' = <<Head(queue)>>
  /\ queue' = Tail(queue)
  /\ fpc' = "draining"
  /\ UNCHANGED <<fresh, waiting, accepted, rejected, conn, reconnectDelay,
                 truncated, replied, linkVars>>

(* Mutant: the drained traces are put in front of the first one.           *)
TakeAnother_InFront ==
  /\ fpc = "draining"
  /\ queue # << >>
  /\ batch' = <<Head(queue)>> \o batch
  /\ queue' = Tail(queue)
  /\ UNCHANGED <<fresh, waiting, accepted, rejected, fpc, conn, reconnectDelay,
                 truncated, replied, linkVars>>

(* One turn of `while let Ok(t) = rx.try_recv()`; senders run in between.  *)
TakeAnother ==
  /\ fpc = "draining"
  /\ queue # << >>
  /\ batch' = Append(batch, Head(queue))
  /\ queue' = Tail(queue)
  /\ UNCHANGED <<fresh, waiting, accepted, rejected, fpc, conn, reconnectDelay,
                 truncated, replied, linkVars>>

(* Mutant: the task waits until the batch is larger than the queue.        *)
StopDraining_FullBatch ==
  /\ fpc = "draining"
  /\ queue = << >>
  /\ Len(batch) > QueueSize
  /\ fpc' = "request"
  /\ UNCHANGED <<fresh, waiting, queue, accepted, rejected, conn, batch,
                 reconnectDelay, truncated, replied, linkVars>>

StopDraining ==
  /\ fpc = "draining"
  /\ queue = << >>
  /\ fpc' = "request"
  /\ UNCHANGED <<fresh, waiting, queue, accepted, rejected, conn, batch,
                 reconnectDelay, truncated, replied, linkVars>>

(* How much of the batch a request for n traces takes.                     *)
Taken(n) == IF n < Len(batch) THEN n ELSE Len(batch)

(* Mutant: the reply is a copy and the batch stays for the next request.   *)
AnswerRequest_KeepsBatch ==
  /\ fpc = "request"
  /\ NextDown(conn, "Request")
  /\ down' = [down EXCEPT ![conn] = Tail(@)]
  /\ up' = [up EXCEPT ![conn] = Queued(@, conn, TraceObjectsReply(batch))]
  /\ replied' = [replied EXCEPT ![conn] = @ \o batch]
  /\ \E ok \in SendOutcome(conn) : fpc' = IF ok THEN "waiting" ELSE "sleeping"
  /\ UNCHANGED <<fresh, waiting, queue, accepted, rejected, conn, batch,
                 reconnectDelay, truncated, link, lost>>

(* handle_request(): the first n traces of the batch are the reply and the *)
(* rest of it is dropped.                                                  *)
AnswerRequest ==
  /\ fpc = "request"
  /\ NextDown(conn, "Request")
  /\ down' = [down EXCEPT ![conn] = Tail(@)]
  /\ LET k     == Taken(Head(down[conn]).count)
         reply == SubSeq(batch, 1, k)
     IN  /\ up' = [up EXCEPT ![conn] =
                     Queued(@, conn, TraceObjectsReply(reply))]
         /\ lost' = IF link[conn] = "up" THEN lost ELSE lost \cup Range(reply)
         /\ truncated' = truncated
                           \cup Range(SubSeq(batch, k + 1, Len(batch)))
         /\ replied' = [replied EXCEPT ![conn] = @ \o reply]
  /\ \E ok \in SendOutcome(conn) : fpc' = IF ok THEN "waiting" ELSE "sleeping"
  /\ batch' = << >>
  /\ UNCHANGED <<fresh, waiting, queue, accepted, rejected, conn,
                 reconnectDelay, link>>

(* handle_request() reads Done: run() returns Ok, the receiver is dropped  *)
(* with everything in it and every waiting send() fails.                   *)
AcceptorIsDone ==
  /\ fpc = "request"
  /\ NextDown(conn, "Done")
  /\ down' = [down EXCEPT ![conn] = Tail(@)]
  /\ fpc' = "exited"
  /\ lost' = lost \cup Range(batch) \cup Range(queue)
  /\ batch' = << >>
  /\ queue' = << >>
  /\ rejected' = rejected \cup Range(waiting)
  /\ waiting' = << >>
  /\ UNCHANGED <<fresh, accepted, conn, reconnectDelay, truncated, replied,
                 link, up>>

(* Mutant: a failed connection ends run() instead of the retry loop.       *)
ConnectionLost_Exits ==
  /\ fpc \in {"handshake", "request"}
  /\ DownClosed(conn)
  /\ fpc' = "exited"
  /\ batch' = << >>
  /\ lost' = lost \cup Range(batch)
  /\ UNCHANGED <<fresh, waiting, queue, accepted, rejected, conn,
                 reconnectDelay, truncated, replied, link, up, down>>

(* A receive on the broken connection fails and the batch is lost.         *)
ConnectionLost ==
  /\ fpc \in {"handshake", "request"}
  /\ DownClosed(conn)
  /\ GiveUp
  /\ lost' = lost \cup Range(batch)
  /\ UNCHANGED <<fresh, waiting, queue, accepted, rejected, conn,
                 reconnectDelay, truncated, replied, link, up, down>>

ForwarderTask ==
  \/ \E c \in Conns : Connect(c)
  \/ ConnectFails \/ WakeUp \/ HandshakeAnswered
  \/ TakeFirst \/ TakeAnother \/ StopDraining
  \/ AnswerRequest \/ AcceptorIsDone \/ ConnectionLost

Producers ==
  \/ \E t \in Traces : Send(t) \/ TrySend(t)
  \/ \E i \in 1..Len(waiting) : FinishSend(i)
=============================================================================
