----------------------------- MODULE ReForwarder -----------------------------
(***************************************************************************)
(* hermod-tracer passes the traces it receives on to downstream acceptors  *)
(* (src/server/reforwarder.rs).  Trace tasks call forward(), which filters *)
(* by namespace and then                                                   *)
(*   - outbound: sends the traces one by one into a forwarder's queue and  *)
(*     waits when it is full; a forwarder that its downstream told to stop *)
(*     has no queue any more, and what is sent to it is lost;              *)
(*   - inbound: broadcasts the batch to the handlers of the downstreams    *)
(*     that have connected, and never waits.                               *)
(*                                                                         *)
(* The broadcast channel (external: tokio) keeps the last Capacity batches *)
(* of `sent`; each receiver has a cursor into it, and one whose batch is   *)
(* gone is told that it lagged and put on the oldest batch there is.       *)
(***************************************************************************)
EXTENDS Naturals, Sequences, FiniteSets, SequencesExt

CONSTANTS
  Tasks,          \* the trace tasks of the server's connections
  Downstreams,    \* connections that downstream acceptors may make
  Batches,        \* batches a node may send, as sequences of namespaces
  NamespaceFilters,  \* prefixes, or None: forward everything
  None, Done,
  QueueSize,      \* TraceOptionForwarder::queue_size
  RequestCounts,  \* number_of_trace_objects a downstream may ask for
  Faults,         \* what may happen: "break", "refuse", "done", "abort"
  MaxBatches      \* bound: batches received

ASSUME ReForwarderAssumption ==
  /\ \A b \in Batches : b \in Seq(Seq(STRING))
  /\ NamespaceFilters # None => \A p \in NamespaceFilters : p \in Seq(STRING)
  /\ QueueSize \in Nat
  /\ RequestCounts \subseteq Nat
  /\ {None, Done} \cap RequestCounts = {} /\ None # Done
  /\ Faults \subseteq {"break", "refuse", "done", "abort"}
  /\ MaxBatches \in Nat

VARIABLES
  mode,      \* ReForwarderInner, "Outbound" or "Inbound"
  handled,   \* history: what forward() was called with, and by whom
  todo,      \* task -> traces it has yet to send (outbound)
  aborted,   \* tasks that were cancelled
  queue,     \* the forwarder's queue (outbound)
  went,      \* history: what the forwarder took from it
  stopped,   \* the forwarder's run() has returned (outbound)
  lost,      \* history: traces that were sent to it in vain
  sent,      \* what was broadcast (inbound)
  link,      \* downstream -> "unused", "up" or "broken"
  hpc,       \* downstream -> where its handler is
  next,      \* downstream -> cursor of its receiver
  hand,      \* downstream -> traces drained for the next request
  asked,     \* downstream -> the request that waits, or Done, or None
  got,       \* history: downstream -> traces it was sent
  joined,    \* history: downstream -> Len(handled) when it subscribed
  hurt       \* history: downstream -> why it missed traces: "lag", "cut", "break"

outVars  == <<todo, aborted, queue, went, stopped, lost>>
connVars == <<link, hpc, next, hand, asked, got, joined, hurt>>
rfVars   == <<mode, handled, outVars, sent, connVars>>

PowerOfTwo[i \in Nat] == IF i = 0 THEN 1 ELSE 2 * PowerOfTwo[i - 1]

(* tokio rounds the capacity of a broadcast channel up to a power of two.  *)
Capacity ==
  CHOOSE p \in {PowerOfTwo[i] : i \in 0..QueueSize} :
    /\ p >= QueueSize
    /\ \A i \in 0..QueueSize : PowerOfTwo[i] >= QueueSize => p <= PowerOfTwo[i]

RfInit ==
  /\ mode \in {"Outbound", "Inbound"}
  /\ mode = "Outbound" => QueueSize > 0
  /\ handled = << >>
  /\ todo = [t \in Tasks |-> << >>]
  /\ aborted = {}
  /\ queue = << >>
  /\ went = << >>
  /\ stopped = FALSE
  /\ lost = << >>
  /\ sent = << >>
  /\ link = [d \in Downstreams |-> "unused"]
  /\ hpc = [d \in Downstreams |-> "none"]
  /\ next = [d \in Downstreams |-> 1]
  /\ hand = [d \in Downstreams |-> << >>]
  /\ asked = [d \in Downstreams |-> None]
  /\ got = [d \in Downstreams |-> << >>]
  /\ joined = [d \in Downstreams |-> 0]
  /\ hurt = [d \in Downstreams |-> {}]

-----------------------------------------------------------------------------
(* forward()                                                               *)

(* Mutant: a filter has to be the whole namespace.                         *)
MatchesFilter_Exactly(trace) ==
  NamespaceFilters = None \/ trace.namespace \in NamespaceFilters

MatchesFilter(trace) ==
  \/ NamespaceFilters = None
  \/ \E prefix \in NamespaceFilters : IsPrefix(prefix, trace.namespace)

(* The elements of s at the places of K, in the order of s.                *)
Chosen(s, K) ==
  LET upto[n \in 0..Len(s)] ==
        IF n = 0 THEN << >>
        ELSE IF n \in K THEN Append(upto[n - 1], s[n]) ELSE upto[n - 1]
  IN  upto[Len(s)]

Matching(traces) == Chosen(traces, {i \in DOMAIN traces : MatchesFilter(traces[i])})

(* A batch as traces: the n-th batch handled, and the place in it.         *)
TracesOf(batch, n) ==
  [i \in DOMAIN batch |-> [batch |-> n, place |-> i, namespace |-> batch[i]]]

(* A trace task calls forward(): the whole of it when inbound.             *)
Forward(t, batch) ==
  LET traces == TracesOf(batch, Len(handled) + 1)
      filtered == Matching(traces)
  IN  /\ Len(handled) < MaxBatches
      /\ t \notin aborted
      /\ todo[t] = << >>
      /\ handled' = Append(handled, [by |-> t, traces |-> traces])
      /\ IF mode = "Outbound"
         THEN todo' = [todo EXCEPT ![t] = filtered] /\ UNCHANGED sent
         ELSE /\ sent' = IF filtered = << >> THEN sent ELSE Append(sent, filtered)
              /\ UNCHANGED todo
      /\ UNCHANGED <<mode, aborted, queue, went, stopped, lost, connVars>>

(* Mutant: the traces of a batch are sent from its end.                    *)
SendNext_Last(t) ==
  /\ todo[t] # << >>
  /\ ~stopped
  /\ Len(queue) < QueueSize
  /\ queue' = Append(queue, Last(todo[t]))
  /\ todo' = [todo EXCEPT ![t] = Front(@)]
  /\ UNCHANGED <<mode, handled, aborted, went, stopped, lost, sent, connVars>>

(* Mutant: the queue is not bounded.                                       *)
SendNext_Unbounded(t) ==
  /\ todo[t] # << >>
  /\ ~stopped
  /\ queue' = Append(queue, Head(todo[t]))
  /\ todo' = [todo EXCEPT ![t] = Tail(@)]
  /\ UNCHANGED <<mode, handled, aborted, went, stopped, lost, sent, connVars>>

(* Outbound: handle.send(trace).await                                      *)
SendNext(t) ==
  /\ todo[t] # << >>
  /\ ~stopped
  /\ Len(queue) < QueueSize
  /\ queue' = Append(queue, Head(todo[t]))
  /\ todo' = [todo EXCEPT ![t] = Tail(@)]
  /\ UNCHANGED <<mode, handled, aborted, went, stopped, lost, sent, connVars>>

(* ...fails, at once or while it waits, once the forwarder has dropped its *)
(* receiver: the trace is gone with a warning and the task goes on.        *)
SendFails(t) ==
  /\ todo[t] # << >>
  /\ stopped
  /\ lost' = Append(lost, Head(todo[t]))
  /\ todo' = [todo EXCEPT ![t] = Tail(@)]
  /\ UNCHANGED <<mode, handled, aborted, queue, went, stopped, sent, connVars>>

(* The session of a trace task ends while the task waits in send().        *)
Abort(t) ==
  /\ "abort" \in Faults
  /\ todo[t] # << >>
  /\ todo' = [todo EXCEPT ![t] = << >>]
  /\ aborted' = aborted \cup {t}
  /\ UNCHANGED <<mode, handled, queue, went, stopped, lost, sent, connVars>>

(* The forwarder task takes a trace (module Forwarder).                    *)
ForwarderTakes ==
  /\ queue # << >>
  /\ went' = Append(went, Head(queue))
  /\ queue' = Tail(queue)
  /\ UNCHANGED <<mode, handled, todo, aborted, stopped, lost, sent, connVars>>

(* Its downstream answers a batch with Done: run() returns for good, and   *)
(* the receiver is dropped with the traces in its queue.                   *)
ForwarderStops ==
  /\ "done" \in Faults
  /\ ~stopped
  /\ went # << >>
  /\ stopped' = TRUE
  /\ lost' = queue
  /\ queue' = << >>
  /\ UNCHANGED <<mode, handled, todo, aborted, went, sent, connVars>>

-----------------------------------------------------------------------------
(* The downstream acceptor (external)                                      *)

Shaken(d) == hpc[d] \in {"receiving", "draining", "answering"}

Ask(d, n) ==
  /\ link[d] = "up"
  /\ Shaken(d)
  /\ asked[d] = None
  /\ asked' = [asked EXCEPT ![d] = n]
  /\ UNCHANGED <<mode, handled, outVars, sent, link, hpc, next, hand, got, joined, hurt>>

Break(d) ==
  /\ "break" \in Faults
  /\ link[d] = "up"
  /\ hpc[d] # "ended"
  /\ link' = [link EXCEPT ![d] = "broken"]
  /\ UNCHANGED <<mode, handled, outVars, sent, hpc, next, hand, asked, got, joined, hurt>>

-----------------------------------------------------------------------------
(* listen_and_accept and handle_accepting_connection                       *)

(* The handler subscribes before it shakes hands.                          *)
Accept(d) ==
  /\ mode = "Inbound"
  /\ link[d] = "unused"
  /\ link' = [link EXCEPT ![d] = "up"]
  /\ hpc' = [hpc EXCEPT ![d] = "handshake"]
  /\ next' = [next EXCEPT ![d] = Len(sent) + 1]
  /\ joined' = [joined EXCEPT ![d] = Len(handled)]
  /\ UNCHANGED <<mode, handled, outVars, sent, hand, asked, got, hurt>>

HandshakeDone(d) ==
  /\ hpc[d] = "handshake"
  /\ link[d] = "up"
  /\ hpc' = [hpc EXCEPT ![d] = "receiving"]
  /\ UNCHANGED <<mode, handled, outVars, sent, link, next, hand, asked, got, joined, hurt>>

(* The handler returns and drops what it holds.                            *)
Ends(d) ==
  /\ hpc' = [hpc EXCEPT ![d] = "ended"]
  /\ hand' = [hand EXCEPT ![d] = << >>]
  /\ asked' = [asked EXCEPT ![d] = None]
  /\ UNCHANGED <<mode, handled, outVars, sent, link, next, got, joined>>

HandshakeFails(d) ==
  /\ hpc[d] = "handshake"
  /\ link[d] = "broken" \/ "refuse" \in Faults
  /\ Ends(d)
  /\ UNCHANGED hurt

Oldest == IF Len(sent) > Capacity THEN Len(sent) - Capacity + 1 ELSE 1

Lagging(d) == next[d] < Oldest

(* Mutant: the cursor stays where it is.                                   *)
SkipToOldest_Stays(d) ==
  /\ Lagging(d)
  /\ hurt' = [hurt EXCEPT ![d] = @ \cup {"lag"}]
  /\ UNCHANGED next

(* recv() or try_recv() on a receiver that lags behind: an error.          *)
SkipToOldest(d) ==
  /\ Lagging(d)
  /\ next' = [next EXCEPT ![d] = Oldest]
  /\ hurt' = [hurt EXCEPT ![d] = @ \cup {"lag"}]

(* Mutant: the cursor stays on the newest batch when it is taken.          *)
TakeBatch_Twice(d) ==
  /\ ~Lagging(d)
  /\ next[d] <= Len(sent)
  /\ hand' = [hand EXCEPT ![d] = @ \o sent[next[d]]]
  /\ next' = [next EXCEPT ![d] =
                IF @ = Len(sent) /\ hpc[d] = "receiving" THEN @ ELSE @ + 1]
  /\ UNCHANGED hurt

(* Mutant: the drain keeps no more than three traces.                      *)
TakeBatch_Bounded(d) ==
  /\ ~Lagging(d)
  /\ next[d] <= Len(sent)
  /\ LET all == hand[d] \o sent[next[d]]
     IN  hand' = [hand EXCEPT ![d] = SubSeq(all, 1, Min({3, Len(all)}))]
  /\ next' = [next EXCEPT ![d] = @ + 1]
  /\ UNCHANGED hurt

(* recv() or try_recv() returns a batch.                                   *)
TakeBatch(d) ==
  /\ ~Lagging(d)
  /\ next[d] <= Len(sent)
  /\ hand' = [hand EXCEPT ![d] = @ \o sent[next[d]]]
  /\ next' = [next EXCEPT ![d] = @ + 1]
  /\ UNCHANGED hurt

Receive(d) ==
  /\ hpc[d] = "receiving"
  /\ \/ TakeBatch(d) /\ hpc' = [hpc EXCEPT ![d] = "draining"]
     \/ SkipToOldest(d) /\ UNCHANGED <<hpc, hand>>
  /\ UNCHANGED <<mode, handled, outVars, sent, link, asked, got, joined>>

(* The try_recv() loop ends at the first error, a lag included.            *)
Drain(d) ==
  /\ hpc[d] = "draining"
  /\ \/ TakeBatch(d) /\ UNCHANGED hpc
     \/ /\ SkipToOldest(d)
        /\ hpc' = [hpc EXCEPT ![d] = "answering"]
        /\ UNCHANGED hand
     \/ /\ next[d] > Len(sent)
        /\ hpc' = [hpc EXCEPT ![d] = "answering"]
        /\ UNCHANGED <<next, hand, hurt>>
  /\ UNCHANGED <<mode, handled, outVars, sent, link, asked, got, joined>>

Cut(d) == IF asked[d] < Len(hand[d]) THEN {"cut"} ELSE {}

(* handle_request() with a request there: the first traces are sent and    *)
(* the others dropped.  On a broken connection nobody reads the reply, and *)
(* the send may fail or not.                                               *)
Answer(d) ==
  /\ hpc[d] = "answering"
  /\ asked[d] \in RequestCounts
  /\ link[d] = "up"
  /\ got' = [got EXCEPT ![d] =
               @ \o SubSeq(hand[d], 1, Min({asked[d], Len(hand[d])}))]
  /\ hurt' = [hurt EXCEPT ![d] = @ \cup Cut(d)]
  /\ hpc' = [hpc EXCEPT ![d] = "receiving"]
  /\ hand' = [hand EXCEPT ![d] = << >>]
  /\ asked' = [asked EXCEPT ![d] = None]
  /\ UNCHANGED <<mode, handled, outVars, sent, link, next, joined>>

AnswerUnread(d) ==
  /\ hpc[d] = "answering"
  /\ asked[d] \in RequestCounts
  /\ link[d] = "broken"
  /\ hurt' = [hurt EXCEPT ![d] = @ \cup {"break"}]
  /\ \/ Ends(d)
     \/ /\ hpc' = [hpc EXCEPT ![d] = "receiving"]
        /\ hand' = [hand EXCEPT ![d] = << >>]
        /\ asked' = [asked EXCEPT ![d] = None]
        /\ UNCHANGED <<mode, handled, outVars, sent, link, next, got, joined>>

(* Mutant: a failed receive is logged and the loop goes on.                *)
Leave_GoesOn(d) ==
  /\ hpc[d] = "answering"
  /\ asked[d] = Done \/ (link[d] = "broken" /\ asked[d] = None)
  /\ hpc' = [hpc EXCEPT ![d] = "receiving"]
  /\ hand' = [hand EXCEPT ![d] = << >>]
  /\ asked' = [asked EXCEPT ![d] = None]
  /\ hurt' = [hurt EXCEPT ![d] = @ \cup {"break"}]
  /\ UNCHANGED <<mode, handled, outVars, sent, link, next, got, joined>>

(* handle_request() finds Done, or a connection that broke.                *)
Leave(d) ==
  /\ hpc[d] = "answering"
  /\ asked[d] = Done \/ (link[d] = "broken" /\ asked[d] = None)
  /\ Ends(d)
  /\ hurt' = [hurt EXCEPT ![d] = @ \cup {"break"}]

DownstreamHandler(d) ==
  Receive(d) \/ Drain(d) \/ Answer(d) \/ AnswerUnread(d) \/ Leave(d)

Outbound(t) == SendNext(t) \/ SendFails(t) \/ Abort(t)

RfNext ==
  \/ \E t \in Tasks : Outbound(t) \/ \E b \in Batches : Forward(t, b)
  \/ ForwarderTakes
  \/ ForwarderStops
  \/ \E d \in Downstreams :
       \/ Accept(d) \/ HandshakeDone(d) \/ HandshakeFails(d)
       \/ DownstreamHandler(d)
       \/ Break(d)
       \/ \E n \in RequestCounts \cup (IF "done" \in Faults THEN {Done} ELSE {}) :
            Ask(d, n)

RfSpec == RfInit /\ [][RfNext]_rfVars

(* The runtime polls a handler that can go on.  No fairness of the peers,  *)
(* of the forwarder or of the trace tasks.                                 *)
RfFairSpec == RfSpec /\ \A d \in Downstreams : WF_rfVars(DownstreamHandler(d))

-----------------------------------------------------------------------------
(* Properties                                                              *)

TraceType ==
  [batch : Nat, place : Nat, namespace : UNION {Range(b) : b \in Batches}]

(* Every variable has its type (the types of reforwarder.rs).              *)
RfTypeOK ==
  /\ mode \in {"Outbound", "Inbound"}
  /\ handled \in Seq([by : Tasks, traces : Seq(TraceType)])
  /\ todo \in [Tasks -> Seq(TraceType)]
  /\ aborted \subseteq Tasks
  /\ queue \in Seq(TraceType) /\ Len(queue) <= QueueSize
  /\ went \in Seq(TraceType) /\ lost \in Seq(TraceType)
  /\ stopped \in BOOLEAN
  /\ sent \in Seq(Seq(TraceType) \ {<< >>})
  /\ link \in [Downstreams -> {"unused", "up", "broken"}]
  /\ hpc \in [Downstreams -> {"none", "handshake", "receiving", "draining",
                              "answering", "ended"}]
  /\ \A d \in Downstreams : next[d] \in 1..(Len(sent) + 1)
  /\ hand \in [Downstreams -> Seq(TraceType)]
  /\ asked \in [Downstreams -> RequestCounts \cup {None, Done}]
  /\ got \in [Downstreams -> Seq(TraceType)]
  /\ joined \in [Downstreams -> Nat]
  /\ hurt \in [Downstreams -> SUBSET {"lag", "cut", "break"}]

Before(x, y) ==
  x.batch < y.batch \/ (x.batch = y.batch /\ x.place < y.place)

Increasing(traces) ==
  \A i \in 1..(Len(traces) - 1) : Before(traces[i], traces[i + 1])

Held(d) == got[d] \o hand[d]

(* Whatever it missed, a downstream gets traces in the order they were     *)
(* forwarded and none of them twice, across lags, requests and drains.     *)
DownstreamInOrder == \A d \in Downstreams : Increasing(Held(d))

(* A downstream that did not lag, whose requests were large enough and     *)
(* whose connection lasts gets all the traces that match the filters       *)
(* ("only matching traces are forwarded", config.rs:240) and that came     *)
(* after it was accepted, those during its handshake included.             *)
KeepsUpGetsAll ==
  \A d \in Downstreams :
    hpc[d] \notin {"none", "ended"} /\ hurt[d] = {} =>
      LET since == SubSeq(handled, joined[d] + 1, Len(handled))
          all   == FlattenSeq([i \in DOMAIN since |-> since[i].traces])
      IN  Held(d) \o FlattenSeq(SubSeq(sent, next[d], Len(sent)))
            = Chosen(all, {i \in DOMAIN all :
                \/ NamespaceFilters = None
                \/ \E p \in NamespaceFilters :
                     /\ Len(p) <= Len(all[i].namespace)
                     /\ p = SubSeq(all[i].namespace, 1, Len(p))})

(* A lag loses whole batches: a batch is torn only by a request that was   *)
(* too small for what had been drained.                                    *)
LagLosesWholeBatches ==
  \A d \in Downstreams : "cut" \notin hurt[d] =>
    \A n \in DOMAIN sent :
      Range(sent[n]) \cap Range(Held(d)) # {} => Range(sent[n]) \subseteq Range(Held(d))

(* Outbound, the forwarder gets the traces of a task in order and without  *)
(* a gap, however the tasks take turns at a full queue: what it does not   *)
(* get is the end of them, which a cancelled task still held or which was  *)
(* sent to a forwarder that had returned (reforwarder.rs:82-84); while it  *)
(* runs and the task is not cancelled, all are taken, queued or held.      *)
TasksKeepTheirOrder ==
  mode = "Outbound" =>
    /\ ~stopped => lost = << >>
    /\ \A t \in Tasks :
         LET taken == (went \o queue) \o lost
             inOrder == Chosen(taken, {i \in DOMAIN taken : handled[taken[i].batch].by = t})
             calls == Chosen(handled, {i \in DOMAIN handled : handled[i].by = t})
             all == Matching(FlattenSeq([i \in DOMAIN calls |-> calls[i].traces]))
         IN  /\ Increasing(inOrder)
             /\ IsPrefix(inOrder, all)
             /\ t \notin aborted => inOrder \o todo[t] = all

(* A request is answered once there is a batch for it, also by a handler   *)
(* that finds it has lagged.                                               *)
AnswersWhenAsked ==
  \A d \in Downstreams :
    asked[d] \in RequestCounts /\ (next[d] <= Len(sent) \/ hand[d] # << >>)
      ~> asked[d] = None

(* The handler of a broken connection waits for traces and not for its     *)
(* peer; the next batch makes it end.                                      *)
DeadDownstreamsLeave ==
  \A d \in Downstreams :
    link[d] = "broken" /\ asked[d] = None /\ Shaken(d)
      /\ (next[d] <= Len(sent) \/ hand[d] # << >>)
      ~> hpc[d] = "ended"
=============================================================================
