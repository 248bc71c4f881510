---------------------------- MODULE NodeRegistry ----------------------------
(***************************************************************************)
(* The connections of hermod-tracer and the registry of connected nodes    *)
(* (src/server/acceptor.rs, src/server/node.rs).  A connection is accepted *)
(* by the listener or made by a dialer, which keeps redialling its address.*)
(* Its handler shakes hands, asks the node for its name, registers it and  *)
(* runs a trace, an EKG and a DataPoint task until the first of them ends; *)
(* it then cancels the others, without waiting, and deregisters the node.  *)
(*                                                                         *)
(* The registry is keyed by connection id: a dialer's is its address, the  *)
(* listener's are counted up or are the peer's address.  The content of    *)
(* batches and metrics, and the length of pauses, are left out.            *)
(***************************************************************************)
EXTENDS Naturals, Sequences, FiniteSets, SequencesExt

CONSTANTS
  Conns,       \* connections that may be made, one per accept or dial
  Dialers,     \* the addresses of Network::ConnectTo
  Listener,    \* the source of accepted connections
  SourceOf,    \* connection -> its dialer, or Listener
  Ids,         \* node ids
  IdOf,        \* connection -> node id
  HasEkg,      \* TracerConfig::has_ekg is set
  Faults       \* what may happen: "break", "refuse", "done"

ASSUME RegistryAssumption ==
  /\ Listener \notin Dialers
  /\ SourceOf \in [Conns -> Dialers \cup {Listener}]
  /\ IdOf \in [Conns -> Ids]
  /\ \A c, d \in Conns :
       SourceOf[c] = SourceOf[d] /\ SourceOf[c] # Listener => IdOf[c] = IdOf[d]
  /\ HasEkg \in BOOLEAN
  /\ Faults \subseteq {"break", "refuse", "done"}

VARIABLES
  network,   \* TracerConfig::network, "AcceptAt" or "ConnectTo"
  link,      \* connection -> "unused", "up" or "broken"
  hpc,       \* connection -> where its handler is
  inbox,     \* connection -> DataPoint messages on their way to the handler
  said,      \* connection -> what the node has said in its session
  tasks,     \* connection -> its tasks that still exist
  trace,     \* connection -> where its trace task is
  nodes,     \* TracerState::nodes, in insertion order
  dpc        \* dialer -> where it is

peerVars == <<network, link, inbox, said>>
handlerVars == <<hpc, tasks, trace>>
regVars == <<peerVars, handlerVars, nodes, dpc>>

Tasks == {"trace", "ekg", "datapoint"}

(* What a node may say: its NodeInfo, and Done in either protocol.         *)
Words == {"NodeInfo", "Done", "EkgDone"}

RegInit ==
  /\ network \in {"AcceptAt", "ConnectTo"}
  /\ link = [c \in Conns |-> "unused"]
  /\ hpc = [c \in Conns |-> "none"]
  /\ inbox = [c \in Conns |-> << >>]
  /\ said = [c \in Conns |-> {}]
  /\ tasks = [c \in Conns |-> {}]
  /\ trace = [c \in Conns |-> "waiting"]
  /\ nodes = << >>
  /\ dpc = [d \in Dialers |-> "connecting"]

-----------------------------------------------------------------------------
(* The node at the other end (external)                                    *)

Break(c) ==
  /\ "break" \in Faults
  /\ link[c] = "up"
  /\ link' = [link EXCEPT ![c] = "broken"]
  /\ UNCHANGED <<network, inbox, said, handlerVars, nodes, dpc>>

(* The NodeInfo reply, perhaps after resolve_node_name() gave up, or the   *)
(* end of the DataPoint or the EKG protocol.                               *)
Says(c, word) ==
  /\ word # "NodeInfo" => "done" \in Faults
  /\ word = "EkgDone" => HasEkg
  /\ link[c] = "up"
  /\ hpc[c] \in {"resolving", "registering", "running"}
  /\ word \notin said[c]
  /\ word = "NodeInfo" => "Done" \notin said[c]
  /\ said' = [said EXCEPT ![c] = @ \cup {word}]
  /\ inbox' = IF word = "EkgDone" THEN inbox
              ELSE [inbox EXCEPT ![c] = Append(@, word)]
  /\ UNCHANGED <<network, link, handlerVars, nodes, dpc>>

(* A receive on the DataPoint channel fails.                               *)
InboxClosed(c) == link[c] = "broken" /\ inbox[c] = << >>

-----------------------------------------------------------------------------
(* run_accept_server and connect_with_retry                                *)

Established(c) ==
  /\ link[c] = "unused"
  /\ link' = [link EXCEPT ![c] = "up"]
  /\ hpc' = [hpc EXCEPT ![c] = "handshake"]
  /\ UNCHANGED <<network, inbox, said, tasks, trace, nodes>>

(* A peer's address comes back only when its old connection is gone.       *)
AcceptConnection(c) ==
  /\ network = "AcceptAt"
  /\ SourceOf[c] = Listener
  /\ \A d \in Conns \ {c} : IdOf[d] = IdOf[c] => link[d] # "up"
  /\ Established(c)
  /\ UNCHANGED dpc

(* Mutant: the dialer spawns the session and goes on.                      *)
Dial_Spawns(c) ==
  /\ network = "ConnectTo"
  /\ SourceOf[c] \in Dialers
  /\ dpc[SourceOf[c]] = "connecting"
  /\ Established(c)
  /\ dpc' = [dpc EXCEPT ![SourceOf[c]] = "sleeping"]

Dial(c) ==
  /\ network = "ConnectTo"
  /\ SourceOf[c] \in Dialers
  /\ dpc[SourceOf[c]] = "connecting"
  /\ Established(c)
  /\ dpc' = [dpc EXCEPT ![SourceOf[c]] = "session"]

DialFails(d) ==
  /\ network = "ConnectTo"
  /\ dpc[d] = "connecting"
  /\ dpc' = [dpc EXCEPT ![d] = "sleeping"]
  /\ UNCHANGED <<peerVars, handlerVars, nodes>>

DialAgain(d) ==
  /\ dpc[d] = "sleeping"
  /\ dpc' = [dpc EXCEPT ![d] = "connecting"]
  /\ UNCHANGED <<peerVars, handlerVars, nodes>>

(* Mutant: the dialer returns when its session ends.                       *)
HandlerReturns_Exits(c) ==
  /\ hpc' = [hpc EXCEPT ![c] = "ended"]
  /\ said' = [said EXCEPT ![c] = {}]
  /\ UNCHANGED <<network, link, inbox>>
  /\ dpc' = [d \in Dialers |->
               IF d = SourceOf[c] THEN "ended" ELSE dpc[d]]

(* handle_connection returns; a dialer that awaited it goes to sleep.      *)
HandlerReturns(c) ==
  /\ hpc' = [hpc EXCEPT ![c] = "ended"]
  /\ said' = [said EXCEPT ![c] = {}]
  /\ UNCHANGED <<network, link, inbox>>
  /\ dpc' = [d \in Dialers |->
               IF d = SourceOf[c] THEN "sleeping" ELSE dpc[d]]

-----------------------------------------------------------------------------
(* handle_connection                                                       *)

HandshakeDone(c) ==
  /\ hpc[c] = "handshake"
  /\ link[c] = "up"
  /\ hpc' = [hpc EXCEPT ![c] = "resolving"]
  /\ UNCHANGED <<peerVars, tasks, trace, nodes, dpc>>

HandshakeRefused(c) ==
  /\ "refuse" \in Faults
  /\ hpc[c] = "handshake"
  /\ link[c] = "up"
  /\ HandlerReturns(c)
  /\ UNCHANGED <<tasks, trace, nodes>>

(* Mutant: a failed handshake is passed on out of the dialer's loop.       *)
HandshakeCut_Propagates(c) ==
  /\ hpc[c] = "handshake"
  /\ link[c] = "broken"
  /\ hpc' = [hpc EXCEPT ![c] = "ended"]
  /\ UNCHANGED <<peerVars, tasks, trace, nodes, dpc>>

HandshakeCut(c) ==
  /\ hpc[c] = "handshake"
  /\ link[c] = "broken"
  /\ HandlerReturns(c)
  /\ UNCHANGED <<tasks, trace, nodes>>

(* resolve_node_name: an answer, or a Done in its place, is taken off the  *)
(* channel; a timeout or a broken connection is none.  The handler goes on *)
(* in every case, with the name or with the id instead of it.              *)
ResolveName(c) ==
  /\ hpc[c] = "resolving"
  /\ \/ inbox[c] # << >> /\ inbox' = [inbox EXCEPT ![c] = Tail(@)]
     \/ UNCHANGED inbox
  /\ hpc' = [hpc EXCEPT ![c] = "registering"]
  /\ UNCHANGED <<network, link, said, tasks, trace, nodes, dpc>>

(* Where the registry has c's id.                                          *)
Places(c) == {i \in DOMAIN nodes : nodes[i].id = IdOf[c]}

(* IndexMap::insert replaces the entry of a key in place.                  *)
Inserted(c) ==
  LET entry == [id |-> IdOf[c], conn |-> c]
  IN  IF Places(c) = {} THEN Append(nodes, entry)
      ELSE [i \in DOMAIN nodes |-> IF i \in Places(c) THEN entry ELSE nodes[i]]

(* IndexMap::shift_remove takes the entry of a key out, whoever made it.   *)
Removed(c) ==
  IF Places(c) = {} THEN nodes
  ELSE RemoveAt(nodes, CHOOSE i \in Places(c) : TRUE)

(* register(), then the tasks are spawned.                                 *)
Register(c) ==
  /\ hpc[c] = "registering"
  /\ nodes' = Inserted(c)
  /\ hpc' = [hpc EXCEPT ![c] = "running"]
  /\ tasks' = [tasks EXCEPT ![c] = IF HasEkg THEN Tasks ELSE Tasks \ {"ekg"}]
  /\ UNCHANGED <<peerVars, trace, dpc>>

(* Mutant: the handler awaits its trace task instead of the first to end.  *)
TaskEnds_AwaitsTrace(c, t) ==
  /\ tasks' = [tasks EXCEPT ![c] = @ \ {t}]
  /\ hpc' = [hpc EXCEPT ![c] =
               IF @ = "running" /\ t = "trace" THEN "leaving" ELSE @]

(* The first task to end wakes the handler, which aborts the others.       *)
TaskEnds(c, t) ==
  /\ tasks' = [tasks EXCEPT ![c] = @ \ {t}]
  /\ hpc' = [hpc EXCEPT ![c] = IF @ = "running" THEN "leaving" ELSE @]

TraceTaskEnds(c) ==
  /\ "trace" \in tasks[c]
  /\ trace[c] = "waiting"
  /\ link[c] = "broken"
  /\ TaskEnds(c, "trace")
  /\ UNCHANGED <<peerVars, trace, nodes, dpc>>

EkgTaskEnds(c) ==
  /\ "ekg" \in tasks[c]
  /\ link[c] = "broken" \/ "EkgDone" \in said[c]
  /\ TaskEnds(c, "ekg")
  /\ UNCHANGED <<peerVars, trace, nodes, dpc>>

(* Mutant: run_idle_loop ends on any message.                              *)
IdleLoop_EndsOnReply(c) ==
  /\ "datapoint" \in tasks[c]
  /\ \/ /\ inbox[c] # << >>
        /\ inbox' = [inbox EXCEPT ![c] = Tail(@)]
     \/ /\ InboxClosed(c)
        /\ UNCHANGED inbox
  /\ TaskEnds(c, "datapoint")
  /\ UNCHANGED <<network, link, said, trace, nodes, dpc>>

(* run_idle_loop: Done or an error ends it, a late reply is ignored.       *)
IdleLoop(c) ==
  /\ "datapoint" \in tasks[c]
  /\ \/ /\ inbox[c] # << >>
        /\ inbox' = [inbox EXCEPT ![c] = Tail(@)]
        /\ \/ Head(inbox[c]) = "NodeInfo" /\ UNCHANGED <<tasks, hpc>>
           \/ Head(inbox[c]) = "Done" /\ TaskEnds(c, "datapoint")
     \/ /\ InboxClosed(c)
        /\ TaskEnds(c, "datapoint")
        /\ UNCHANGED inbox
  /\ UNCHANGED <<network, link, said, trace, nodes, dpc>>

(* The trace task: a reply comes in, and handle_traces writes it to the    *)
(* logs and awaits the re-forwarder, perhaps for ever.                     *)
TracesArrive(c) ==
  /\ "trace" \in tasks[c]
  /\ trace[c] = "waiting"
  /\ link[c] = "up"
  /\ trace' = [trace EXCEPT ![c] = "handling"]
  /\ UNCHANGED <<peerVars, hpc, tasks, nodes, dpc>>

TracesHandled(c) ==
  /\ "trace" \in tasks[c]
  /\ trace[c] = "handling"
  /\ trace' = [trace EXCEPT ![c] = "waiting"]
  /\ UNCHANGED <<peerVars, hpc, tasks, nodes, dpc>>

(* abort_all() only marks the tasks: each is dropped, with its channel and *)
(* its place in handle_traces, some time later.                            *)
Cancelled(c, t) ==
  /\ hpc[c] \in {"leaving", "ended"}
  /\ t \in tasks[c]
  /\ tasks' = [tasks EXCEPT ![c] = @ \ {t}]
  /\ trace' = IF t = "trace" THEN [trace EXCEPT ![c] = "waiting"] ELSE trace
  /\ inbox' = IF t = "datapoint" THEN [inbox EXCEPT ![c] = << >>] ELSE inbox
  /\ UNCHANGED <<network, link, said, hpc, nodes, dpc>>

(* Mutant: the session ends without deregister().                          *)
Deregister_Forgets(c) ==
  /\ hpc[c] = "leaving"
  /\ HandlerReturns(c)
  /\ UNCHANGED <<tasks, trace, nodes>>

(* deregister(), which looks at the id only.                               *)
Deregister(c) ==
  /\ hpc[c] = "leaving"
  /\ nodes' = Removed(c)
  /\ HandlerReturns(c)
  /\ UNCHANGED <<tasks, trace>>

Handler(c) ==
  \/ HandshakeDone(c) \/ HandshakeRefused(c) \/ HandshakeCut(c)
  \/ ResolveName(c) \/ Register(c) \/ Deregister(c)

TaskStep(c) ==
  \/ TraceTaskEnds(c) \/ EkgTaskEnds(c) \/ IdleLoop(c)
  \/ TracesArrive(c) \/ TracesHandled(c)
  \/ \E t \in Tasks : Cancelled(c, t)

Peer(c) == Break(c) \/ \E word \in Words : Says(c, word)

RegNext ==
  \/ \E c \in Conns : AcceptConnection(c) \/ Dial(c)
  \/ \E c \in Conns : Handler(c) \/ TaskStep(c) \/ Peer(c)
  \/ \E d \in Dialers : DialFails(d) \/ DialAgain(d)

RegSpec == RegInit /\ [][RegNext]_regVars

(* The runtime polls a handler or a task that can go on, and timeouts      *)
(* fire.  It is not assumed that a handshake is answered, that a dial      *)
(* succeeds or that the re-forwarder ever takes the traces.                *)
HandlerGoesOn(c) ==
  HandshakeCut(c) \/ ResolveName(c) \/ Register(c) \/ Deregister(c)

RegFairness ==
  /\ \A c \in Conns : /\ WF_regVars(HandlerGoesOn(c))
                      /\ WF_regVars(TraceTaskEnds(c))
                      /\ WF_regVars(EkgTaskEnds(c))
                      /\ WF_regVars(IdleLoop(c))
  /\ \A d \in Dialers : WF_regVars(DialAgain(d))

RegFairSpec == RegSpec /\ RegFairness

-----------------------------------------------------------------------------
(* Properties                                                              *)

(* Every variable has its type (the types of acceptor.rs and node.rs).     *)
RegTypeOK ==
  /\ network \in {"AcceptAt", "ConnectTo"}
  /\ link \in [Conns -> {"unused", "up", "broken"}]
  /\ hpc \in [Conns -> {"none", "handshake", "resolving", "registering",
                        "running", "leaving", "ended"}]
  /\ inbox \in [Conns -> Seq({"NodeInfo", "Done"})]
  /\ said \in [Conns -> SUBSET Words]
  /\ tasks \in [Conns -> SUBSET Tasks]
  /\ trace \in [Conns -> {"waiting", "handling"}]
  /\ nodes \in Seq([id : Ids, conn : Conns])
  /\ dpc \in [Dialers -> {"connecting", "session", "sleeping"}]

(* TracerState::nodes lists the connected nodes, as its comment says ("All *)
(* currently-connected nodes", node.rs:69): whatever breaks, and however   *)
(* often a dialer comes back under the same id, a running session has its  *)
(* own NodeState listed.                                                   *)
ConnectedAreListed ==
  \A c \in Conns :
    hpc[c] = "running" => [id |-> IdOf[c], conn |-> c] \in ToSet(nodes)

(* TracerState::nodes lists no others and none twice: what is listed       *)
(* belongs to a session whose handler has not returned and will deregister *)
(* it, and however a node's sessions overlap its id has one entry, the one *)
(* that the session registered last wrote (node.rs keys the map by id).    *)
NoGhostNodes ==
  /\ \A i, j \in DOMAIN nodes : nodes[i].id = nodes[j].id => i = j
  /\ \A e \in ToSet(nodes) : hpc[e.conn] \in {"running", "leaving"}

(* The same by id only, for connections that share one: a node with a      *)
(* running session is listed ("All active nodes are tracked", node.rs:12). *)
NoNodeIsForgotten ==
  \A c \in Conns :
    hpc[c] = "running" => \E e \in ToSet(nodes) : e.id = IdOf[c]

(* A session ends only because its connection broke or the node said it is *)
(* done: a NodeInfo reply that comes after the five seconds of             *)
(* resolve_node_name() and is found by run_idle_loop() does not end it.    *)
SessionsEndForCause ==
  [][\A c \in Conns :
       hpc[c] = "running" /\ hpc'[c] # "running" =>
         link[c] = "broken" \/ said[c] \cap {"Done", "EkgDone"} # {}]_regVars

(* A node whose connection broke leaves the registry for good, even if its *)
(* trace task waits in the re-forwarder for ever.                          *)
BrokenSessionsLeave ==
  \A c \in Conns :
    link[c] = "broken" ~> [](\A e \in ToSet(nodes) : e.conn # c)

(* A dialer whose connection broke, in the handshake or later, dials again.*)
RedialsAfterBreak ==
  \A d \in Dialers : \A c \in {x \in Conns : SourceOf[x] = d} :
    link[c] = "broken" /\ hpc[c] # "ended" ~> dpc[d] = "connecting"
=============================================================================
