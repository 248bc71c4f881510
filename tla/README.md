# Verification of hermod-rust

TLA+ models, TLC runs and TLAPS proofs for hermod-rust: a library that forwards
trace objects from an application to an acceptor over a multiplexed socket, and
`hermod-tracer`, the server that collects traces from many nodes, writes them to
log files, exposes metrics and re-forwards them. `PROJECT.json` lists the runs,
the source lines each definition stands for, the hazards and the findings.

## 1. The system

| Component | State | Operations | What must be right |
|---|---|---|---|
| Trace forwarder (`forwarder.rs`, `mux/client.rs`) | bounded queue, connection, batch in hand, reconnect delay | `send`, `try_send`, connect, handshake, drain, answer a request, back off | at-most-once delivery, every loss has a named cause, senders do not hang, reconnects |
| Acceptor library (`acceptor.rs`, `mux/acceptor_client.rs`) | a handler per connection, bounded channel | accept, handshake, request, push, consume | one outstanding request, back-pressure loses nothing, old and new handlers do not mix up a connection's order |
| Protocol (`protocol/`, `mux/handshake.rs`) | messages in flight, bytes not decoded yet | encode, reassemble, decode; request, reply, done; propose, accept, refuse | agency; replies to blocking requests are not empty; what is decoded is what was sent |
| Log writer (`server/logging.rs`) | open handle per node name and destination, symlink | write a batch, open a file, rotate | batches whole and in order; symlink and handle agree |
| Rotation (`server/rotation.rs`) | sleep, listing | rotate by size, prune by age and count | never deletes what is being written; keeps the newest |
| Node registry and connection handler (`server/node.rs`, `server/acceptor.rs`) | map id -> node, three tasks per connection | handshake, name resolution with timeout, register, deregister, cancel tasks | a registered node is a live connection and the reverse |
| Re-forwarder (`server/reforwarder.rs`, `trace_handler.rs`) | outbound queue, broadcast channel | filter, forward, serve downstream acceptors | downstream order, only the lag loses traces |
| EKG poller, Prometheus (`server/ekg.rs`, `prometheus.rs`) | a metrics registry per node, caches, previous counters | poll, update, look a node up by slug | counters show the growth reported, names that collide do not mix values, a node's page stays its own |
| Dispatcher (`dispatcher/`) | token buckets, backends, the EKG backend's registry | dispatch by severity, limit and namespace, to one backend after another | most specific option wins, each bucket admits exactly its rate, every backend gets what it is due |
| DataPoint (`server/datapoint.rs`, `backend/datapoint.rs`) | store, client | store, request, reply | a reply has nothing that was replaced before it was asked for |
| `tracing` layer (`tracer.rs`) | none of its own | an event becomes a trace and is offered to the queue | competes with the dispatcher for room |
| Server configuration, binaries | none of their own | parse, start | not modelled; their values become constants |

How they interact. Tasks hand traces to a `ForwarderHandle`; the forwarder task
takes them off a tokio channel, waits for the acceptor's request and answers it
with a batch. An acceptor's handler (library or server) requests, receives and
passes on: to a channel in the library, to log files, gauges and the
re-forwarder in the server. The rotation task shares the log writer's mutex with
all connection handlers. The EKG poller and the DataPoint client run on the same
connection as the trace handler, and the first of them to end ends the others.

Threads of the application share the dispatcher, its buckets, the forwarder's
queue and the data point store, which the forwarder's responder reads while they
write it.

What is hard here: connections break between any two steps and the other side's
handler lives on; a request that arrived earlier is answered later; producers
race the drain; two bounded queues push back on each other; rotation and
pruning race the writers; cancelled tasks finish late; messages arrive cut
anywhere and spelled in two ways; metric names collide once sanitised.

## 2. Modules

**Trace forwarding** (sources: `forwarder.rs`, `acceptor.rs`, `mux/*`,
`protocol/messages.rs`).

- `TraceMessages` - the messages.
- `Link` - connections (external: tokio sockets and the pallas multiplexer):
  a FIFO per direction. `Break` leaves each reader an arbitrary prefix of what
  was sent, since what reached its buffer can still be read. A send on a broken
  connection may or may not report the error (`SendOutcome`).
- `Forwarder` - the handles (`Send`, `TrySend`, `FinishSend`) and the task, with
  one action per await point of `run` and `connect_and_run`; `fpc` names the
  await point. A `send()` that has to wait sits in `waiting`; the channel gives
  permits in call order but a granted sender still has to be scheduled, so any
  granted one may enqueue next.
- `Acceptor` - per connection a handler (`apc`), its undelivered reply
  (`pending`), the shared channel, the consumer. The acceptor of this repository
  neither refuses version 1 nor sends `Done`; the Haskell `cardano-tracer` may,
  and the forwarder handles both: `ForeignAcceptor`, enabled by `Faults`.
- `TraceForward` - their composition, the properties and the fairness.
- `LossyQueue` - the abstract specification: accepted traces are delivered at
  most once or lost, never both. `TraceForward` implements it with
  `taken <- Range(accepted)`, `delivered <- consumed`,
  `gone <- lost \cup truncated`.
- History variables: `accepted`, `rejected`, `truncated`, `lost`, `replied`,
  `consumed`; no action's guard reads them.
- `TraceForwardInv` - the parts of the inductive invariant.
- `TraceForwardProofs` - the proofs; `SequenceLemmas` has
  the facts about sequences, folds and recursive functions all proofs share.

**Log files** (sources: `server/logging.rs`, `server/rotation.rs`).

- `LogRotation` - trace tasks and the rotation task over one destination.
  `lock` is `LogWriter`'s mutex. `write_traces` is `StartBatch`, `OpenFile` and
  `LinkFile` if the name has no handle, `AppendLine` per trace, `EndBatch`;
  every `?` in the code is a failing action (`OpenFails`, `AppendFails`) that
  releases the mutex and keeps what the code keeps. A rotation pass is
  `StartPass`, per node `Visit` (= `rotate_if_needed`), `OpenFile`, `LinkFile`,
  `ScanFiles` (the listing and the decision) and `RemoveFile` one by one without
  the mutex, then `EndPrune`; `EndPass` goes back to sleep. `Crash` is a
  restart of the process: memory is gone, files and symlinks stay.
- Abstractions: a file name is the second it was created in, as in the code; a
  line has size one; `rpMaxAgeHours` is counted in the clock's seconds; the
  listing of a directory and the metadata of its files are read at once;
  files that are equally old are ordered either way, because file systems stamp
  times with the tick of the kernel and `read_dir` has no order; the registered
  nodes at the start of a pass are any set, which covers every behaviour of the
  registry, late writers included.
- `LogRotationProofs` - the proofs.

**Connections and nodes** (sources: `server/acceptor.rs`, `server/node.rs`, and
the loops of `server/ekg.rs`, `server/datapoint.rs` and
`server/trace_handler.rs` that the session runs).

- `NodeRegistry` - `hpc` is where `handle_connection` stands: the handshake,
  `resolve_node_name`, `register`, waiting for its tasks, `deregister`. `tasks`
  are the members of its `JoinSet` that still exist: `abort_all` is not
  awaited, so they outlive the handler and go one by one (`Cancelled`). The
  first to end wakes the handler (`TaskEnds`). `nodes` is the `IndexMap`, with
  the connection an entry was made for. A dialer (`dpc`) connects, awaits the
  session, sleeps and connects again. `network` is the configured mode, chosen
  in the initial state.
- Abstractions: names, slugs, the content of messages and the length of pauses
  and timeouts are left out; `ResolveName` may give up at any time, which is
  how the NodeInfo reply gets to `run_idle_loop`. A `Done` taken by
  `resolve_node_name` in place of the reply is swallowed, as in the code. The
  listener accepts an address again only after its old connection is gone. An
  error of `accept`, which ends the server, is left out.
- `NodeRegistryProofs` - the proofs.

**Re-forwarding** (sources: `server/reforwarder.rs`, the start-up of it in
`server/mod.rs`, `handle_request` of `mux/client.rs`).

- `ReForwarder` - `Forward` is the call a trace task makes with a batch. In
  outbound mode the filtered traces go one at a time into the forwarder's queue
  (`SendNext`), which `ForwarderTakes` may or may not empty, and a task can be
  cancelled in the middle (`Abort`). When its downstream answers a batch with
  `Done` the forwarder returns for good (`ForwarderStops`, `forwarder.rs:314`,
  the result ignored in `server/mod.rs:112`): its queue is lost, and so is every
  later trace, with a warning, while the task goes on (`SendFails`,
  `reforwarder.rs:82-84`). In inbound mode they are appended to
  `sent`; `next` is a downstream's cursor and `Lagging` compares it with the
  oldest batch tokio's channel still has. A downstream handler is `Accept`,
  the handshake, `Receive`, `Drain` (the `try_recv` loop, batch by batch,
  ended by a lag too), `Answer` or `Leave`.
- Abstractions: a trace is its batch, its place in it and its namespace. The
  drain ends because the number of batches is bounded; the code has no bound on
  it. An outbound `queueSize` of 0, with which `mpsc::channel` panics at
  start-up, is excluded in `RfInit`. A downstream has at most one request
  outstanding, as the acceptor's library does.
- History variables: `handled`, `went`, `lost`, `got`, `joined`, `hurt`.
- `ReForwarderProofs` - the proofs.

**Encoding** (sources: `protocol/messages.rs`, `protocol/types.rs`,
`mux/handshake.rs`, the codecs in `server/datapoint.rs` and `server/ekg.rs`).

- `Cbor` - the tokens minicbor writes and its decoder's position in them
  (external): integers with their width, definite and indefinite lists, breaks.
- `Codec` - every `Encode` and `Decode` of the crate, as operators from a message
  to tokens and from a decoder to a message, an error or "end of input".
- `Wire` - one direction of one mini-protocol. The peer is this crate or a
  Haskell node, so each message goes out in any spelling the decoders have to
  accept, or is of a kind they do not know; the multiplexer hands it over in
  chunks (`DequeueChunk`) that begin and end anywhere, and `recv_full_msg`
  decodes from what has arrived, waits for more at the end of the input and
  gives up at any other error. The `Is...` predicates are the Rust types of the
  messages.
- `WireProofs` - the proofs.
- Abstractions: the bytes inside a token (a chunk ends between tokens; within
  one, minicbor reports the end of the input just the same), and a timestamp
  written as a float or too large for `from_timestamp` (`types.rs:298-308`), which
  this crate never writes.

**Metrics** (sources: `server/ekg.rs`, `server/trace_handler.rs`,
`server/node.rs`, `server/prometheus.rs`).

- `Metrics` - a node's Prometheus registry (`families`), the caches of its EKG
  poller and of its trace task, and `counter_values`. `PollAnswered` is a
  response, `ApplyMetric` one metric of it (a `HashMap` has no order, so any of
  those left), `PushTraces` a batch's numeric fields. `Register` and
  `Deregister` are the `IndexMap` with `shift_remove`, and `find_by_slug`,
  `handle_node_metrics` what the HTTP routes find.
- `MetricsProofs` - the proofs.
- Names are sequences of characters, because they are what collides; widths of
  numbers are a bound, `I64Max`, at which a difference saturates. Timing of the
  polls and the text format are left out.
- History variable: `seen`.

**Dispatching** (sources: `dispatcher/*`, `tracer.rs`, the DataPoint responder of
`forwarder.rs`, the client of `server/datapoint.rs`).

- `TraceConfig` - `into_trace_config`, the lookup of an option by longest prefix
  and the defaults; operators only.
- `RateLimiter` - the token buckets with their clock, `Admit` and `Refuse` for
  `try_acquire`. It has a specification of its own (`LimSpec`); `Dispatcher`
  takes its actions. A tick is half a second and a frequency is counted in
  messages per two seconds, so that limits of 0.5 or 1.5 a second are there and
  tokens are whole numbers of quarters. The code's `f64` rounding is left out.
- `EkgBackend` - the EKG backend's caches and registry, as operators. The gauge
  cache is by name only: a metric with other labels than the first of its name
  makes `with_label_values` panic (`Outcome`).
- `Dispatcher` - `dispatch` filters and limits (the mutex makes that one step)
  and the thread then goes down the list of backends, one action for each;
  inside EKG one per metric, since the caches are locked for each. A panic ends
  the dispatch with the backends still to come. `on_event` is the tracing layer;
  `ForwarderTakes` and `ForwarderDropped` the other end of the queue, which
  `TraceForward` models in full. `Request`, `LookUp` (name by name, the store
  unlocked in between) and `Receive` are a DataPoint exchange.
- `setup` is what the application decides before it starts: configuration,
  builder calls, messages, and how much of each happens (bounds).
- Abstractions: the texts of a message are the number of its dispatch;
  namespace segments have no dots of their own; stdout takes every line.
- History variables: `calls`, `admitted`, `refused`, and `before` of `point`.
- `DispatcherProofs` - the proofs.

## 3. Runs

| Run | Bounds | Shows |
|---|---|---|
| `forward_safety` | 4 traces, queue 2, requests for 1 or 2, 2 connections, channel 1, all faults | `TypeOK`, `OnePlace`, `NothingVanishes`, `Agency`, `NonEmptyReplies`, `DeliveredInOrder`, refinement of `LossyQueue` |
| `forward_liveness` | 3 traces, queue 1, requests for 2, 2 connections of which one may break | `EveryTraceSettles`, `EverySendReturns`, `ReconnectsWhenNeeded` |
| `forward_cutoff` | 3 traces, queue 3, requests for 1, no fault | finding: a loss within `queue_size` |
| `logs_node` | 2 connections of one node, 3 batches of 2 lines, limit 2, keep 2, 4 seconds, write and remove failures, restart | `LogTypeOK`, `BatchesWhole`, `WrittenFileIsLinked`, `KeepsTheNewest` |
| `logs_shared` | 2 nodes in one directory, 3 batches of 0 or 1 line, limit 1, keep 1, age 1, 3 seconds, failing opens and symlinks, restart | `LogsReadInOrder`, `SymlinkFollowsWriter` |
| `logs_idle` | age 1, keep 2, one batch | finding: the current file is deleted |
| `registry_sessions` | 2 accepted connections or 2 sessions of one dialer, breaks, refusals, ended protocols | `RegTypeOK`, `ConnectedAreListed`, `NoGhostNodes`, `SessionsEndForCause`, `BrokenSessionsLeave`, `RedialsAfterBreak` |
| `registry_shared` | 2 dialers with one address, 3 sessions | finding: a running node is deregistered |
| `reforward` | 2 tasks, 4 batches of which some match in part, queue and channel of 2, requests for 1 or 6, a downstream that may break, refuse or leave, a forwarder that may return | `RfTypeOK`, `DownstreamInOrder`, `KeepsUpGetsAll`, `LagLosesWholeBatches`, `TasksKeepTheirOrder`, `AnswersWhenAsked`, `DeadDownstreamsLeave` |
| `wire` | 2 messages of any kind of one of the four protocols, lists of 0 to 2, both spellings, every cut | `ReceivedAsSent`, `StreamAligned`, `RefusesOnlyForeign`, `NothingStuck` |
| `metrics` | 3 nodes, two with one slug; 3 polls with counters that rise, fall and saturate, 1 batch | `CountersCountGrowth`, `GaugesAreNotShared`, `LabelsAreShown`, `NodeKeepsItsRoute` |
| `dispatcher` | 2 threads, 6 set-ups of 2 to 5 dispatches: limits of 1.5 and 0.5 a second for 2 seconds, a queue of 1, clashing metrics, 2 DataPoint requests | `AdmitsExactlyWithinRate`, `EveryBackendServed`, `RepliesAreFresh` |

Why the bounds are enough. Forwarding: two connections give the old handler
beside the new one, four traces over a queue of two fill queue, batch, reply,
handler and channel at once, a request for one cuts a batch of two, and a send
waits. A third connection adds no new pair of handlers. Log files: three
batches and four seconds give three files, one more than is kept, with equal
and unequal times. Weakening any of the conditions named at
`WrittenFileIsLinked` (keep 1, an age limit, a shared directory, failing
symlinks) makes it fail within these bounds, so they are large enough to see
the races it is about. Registry: two sessions are every pair that can meet, at
once under different ids or one after the other under the same.
`ConnectedAreListed` holds there because ids are not shared by connections that
are open together; `registry_shared` shows what happens when they are.
Re-forwarding: four batches overrun a channel of two, in `Receive` and in
`Drain`, and a forwarder that has taken one leaves two to be lost with its queue
and others to be lost in `send`; a request for one cuts any drain of two, a
request for six cuts none but the largest. Downstreams share only `sent`, which no handler
changes, so one is enough. Encoding: one message is enough to be cut and two to
be confused with each other; the decoders look at no third. Metrics: collisions
need two names, or one name in two tasks; the third node is the one that must not
get a route that two others contend for. Dispatching: 1.5 messages a second
reach the cap with half a token over, and five messages in two seconds are
admitted, refused and admitted again, in two namespaces of one prefix. Each
hazard has its set-up, because set-ups share nothing: two threads that store
four messages under two names give every order of begin, store and end.

`CHECK_DEADLOCK FALSE` in all configurations but `metrics`: the forwarder rightly
waits for ever when nobody logs, the clocks of `LogRotation` and `RateLimiter` are
bounded, `NodeRegistry` has finitely many connections, a peer of `Wire` has sent
its plan and an application of `Dispatcher` has dispatched its messages.

Fairness of forwarding (`FairSpec`). Weak fairness of the forwarder task, of each handler, of
granted senders and of the consumer: tokio polls every task that is ready, and
the application is assumed to keep calling `recv`. Strong fairness of
`Connect`: the retry loop has no limit, and an acceptor that is reachable again
and again is eventually reached. Nothing is assumed of producers and nothing
has to break. `ReconnectsWhenNeeded` starts only when what had arrived on the
broken connection is read; without that condition it is false, because a
request that arrived before the break swallows one batch without any error.

Fairness of sessions (`RegFairSpec`). Weak fairness of the handler's own steps
and of each task's way to end, and of the dialer's sleep. Nothing is assumed of
the peer, of the success of a dial, or of `TracesHandled`: with a re-forwarder
whose queue stays full, `forward` never returns. `RedialsAfterBreak` is about
broken connections because no handshake has a timeout: a peer that accepts the
connection and stays silent holds its dialer for ever.

Fairness of re-forwarding (`RfFairSpec`). Weak fairness of each downstream
handler; none of the peers, the trace tasks or the outbound forwarder.

No fairness in `wire`, `metrics` and `dispatcher`. That nothing waits for ever on
the wire is stated as a safety property (`NothingStuck`: with everything
received, every message has been decoded or refused); the other two promise
nothing that must eventually happen, except what the runtime does for any task.

## 4. Findings

1. `forward_cutoff`: the forwarder drains its queue into one batch
   (`forwarder.rs:304-308`) and answers with the first
   `number_of_trace_objects` of it; the rest is dropped
   (`mux/client.rs:73-77`), without failure and without the queue being full.
2. `logs_idle`: pruning by age deletes the file the writer holds open when a
   connected node was silent for longer than the limit; the symlink dangles and
   later traces go to a file without a name.
3. `registry_shared`: the registry is keyed by an id that two connections can
   share, and `deregister` looks at nothing else: the first session to end takes
   the other's node out of the registry, and with it out of the metrics and of
   rotation.

Without a run of their own, because one look at the mapped definition shows them:

- `ForwarderHandle::send` awaits a permit (`Forwarder!Send`, `FinishSend`); its doc
  promises an error when the queue is full (`forwarder.rs:120`).
- A size limit of 0 rotates in every pass; `config/hermod-tracer.yaml:108` says it
  disables rotation by size.
- `rpKeepFilesNum` is documented as a minimum (`server/config.rs:215`), but a file
  is removed when it is too old or one too many: an age limit can leave none.
  `KeepsTheNewest` therefore speaks of no age limit, as in `logs_node`.
- The network magic, documented as "must match", is never compared.
- A label's value stays at 1 after the label has changed (`ekg.rs:329`):
  `LabelsAreShown` promises the current value only, not that it is alone.
- Of two nodes with one slug the later is unreachable until the earlier leaves, and
  a node named `metrics` or `targets` always is (`prometheus.rs:10`);
  `NodeKeepsItsRoute` is about the others.
- `/metrics` joins the pages of all nodes, so a name two of them have appears
  twice, which the text format promised at `prometheus.rs:17` does not allow.
- A frequency below 1 admits nothing at all (`limiter.rs:38`, the second alternative
  in `DropsOnlyOverTheRate`), and the fraction above the last whole token is lost
  at the cap.
- A message without a severity is treated as `Debug` (`dispatcher/mod.rs:97-100`);
  `traits.rs:121` says that `None` defers to the configuration.
- `CounterM`'s "optional initial value" (`traits.rs:69`) is added at every dispatch.
- A confidential message, which "must not leave the local node" (`traits.rs:56`), is
  kept from the forwarder backend only: the datapoint backend stores it, and the
  responder gives it to an acceptor that asks.
- `with_default_backends` registers what some entry of the configuration names; the
  default list, used where no entry does, is not looked at, so its stdout backend
  is missing and the message is dropped with a debug line (`mod.rs:170`).
- "The most recent value" (`backend/datapoint.rs:3`) is the last one stored, which
  need not be the last one dispatched: hence the form of `RepliesAreFresh`.
- `from_yaml` never sets `forwarder` (`config.rs:277`), so `forwarder_config` is
  `None` until the application fills it in.

## 5. Proofs

Every theorem holds for all values of the constants that meet the named
assumptions of its module: any number of traces, connections, batches,
downstreams, threads, any queue, channel and limit, any mix of faults. The
bounds of the runs are constants too and may be as large as one likes.

### Forwarding (`TraceForwardProofs`)

- `TypeCorrect`: `Spec => []TypeOK`. `TypeInv` adds that a handler holds traces
  exactly while it pushes them, without which `PushTrace` takes the head of an
  empty sequence.
- `AgencyCorrect`: `Spec => []Agency`. `Agency` is not inductive: that a
  reply finds its handler waiting depends on there having been one request,
  which depends on where the handler was when it sent it, and on the handshake
  being answered before a request. `ProtocolInv` states all of that per
  connection (`UpInv`, `DownInv`, `UnusedInv`, `HandshakeInv`).
- `OnePlaceCorrect`, `NothingVanishesCorrect`: every action moves the first
  traces of one place to the end of another, drops a place into `lost` or
  `truncated`, or takes a fresh trace. Such moves keep the places disjoint and
  complete for an arbitrary assignment of traces to places; each action is one
  of them. The inductive invariant is
  `IInv == TypeInv /\ ProtocolInv /\ BatchInv /\ Accounts`: the protocol part is
  needed because "the reply in flight" is a place only if there is at most one,
  and `BatchInv` because a batch replaced while not empty would vanish.
- `PromiseCorrect`: `Spec => ImplementsLossyQueue`, each step a step of
  `LossyQueue` or a stutter, from the same invariant.
- `DeliveredInOrderCorrect`: `OrderInv` lines the places of a connection up twice,
  from its replies back to the queue (`Leaving`), and from the consumer back to
  the reply in flight (`Arriving`), each line in the order of acceptance, with
  the traces of other connections between. The two meet in `replied`.
- `NonEmptyRepliesCorrect`, if `0 \notin RequestCounts` (with a count of 0 it is
  false, see the hazards): `FullInv` adds that a batch that is being drained or
  awaits its request is not empty.

### Log files (`LogRotationProofs`)

- `LogTypesAndMutex`: `LogTypeOK`, with exactly the mutex's holder inside
  `LogWriter`; the other proofs rest on it.
- `LogBatchesAreWhole`, `LogsReadAsWritten`, `LogSymlinkIsCurrent` from one
  invariant, `ContentInv`. A whole batch is not inductive: while it is written,
  `PartInv` says that its lines so far stand at the end of the handle's file and
  nowhere else, for which `JobInv` makes it the youngest batch. Order over files
  needs `YoungestInv`, that no file has a later name than the one being written.
- `LogWrittenFileStays`, if `OneWriterPerDir`: one name to a directory,
  `KeepFiles >= 2`, no age limit and no failing symlink; TLC refutes it without any
  one of them. `AgesInv` orders the files of a directory by name and by time at
  once; `NewestInv` says the file being written has no younger one but the one
  rotation is opening, and `DoomedInv` that what is to be removed does.
- `LogKeepsTheNewest`, under the same conditions: `SparedInv` says of a file that
  was removed, or that pruning has decided to remove, that `KeepFiles` files as
  young are neither. Removal happens without the mutex after the decision, so
  present files alone are not enough. That a removed or doomed file is not written
  to any more, which would make it younger than what was kept, is the previous
  theorem and its invariant; without its conditions it happens, and TLC refutes
  `KeepsTheNewest` with one kept file or with two names in a directory.

### Connections and nodes (`NodeRegistryProofs`)

- `RegistryTypes`, `RegistryHasNoGhosts`, `SessionsOnlyEndForCause` (an action
  property), from `RegInv`: `NodesInv` gives an id one entry and ties it to the
  session that will remove it, `DialerInv` gives a dialer one handler at a time, and `InboxInv`
  says that what a handler has yet to read was said in its own session.
- `RegistryListsTheConnected`, if `IdsAreOwn`: connections with one id belong to
  one dialer. This is what `registry_shared` shows to be needed.

### Re-forwarding (`ReForwarderProofs`)

- `ReForwarderTypes`, from `TypeInv`.
- `DownstreamsReadInOrder`: `SentInv` orders the broadcast batches and `HeldInv`
  puts what a downstream holds before all that its cursor has yet to reach, so
  that a lag, which moves the cursor forward, cannot bring anything back.
- `LagsLoseWholeBatches`: `WholeInv`, of what was sent and what is in hand at
  once, because a batch may be whole in neither.
- `DownstreamsThatKeepUpGetAll`: `OwedInv` equates what a downstream holds and
  will read with what matches since it joined. Filtering batch by batch and
  concatenating is shown to be filtering the concatenation.
- `TasksAreForwardedInOrder`: `LineInv`, of the line formed by what the forwarder
  took, its queue, what was lost with it or after it, and what the task has still
  to send. The line is all the task was given to forward unless it was cancelled,
  then a beginning of it. Nothing is lost before the forwarder returns, and its
  queue stays empty afterwards, so the lost traces are the end of the line.

### Dispatching (`DispatcherProofs`)

`LimitsNamed` and `SetupsTyped` are assumed of `Setups`: the namespaces and
frequencies of the limits are among the constants that bound the buckets, and
messages have the types that Rust gives them. TLC evaluates both.

- `LimiterCorrect`: `LimSpec => []AdmitsExactlyWithinRate`. The invariant is an
  equation: a bucket's tokens are the least headroom that any stretch of time
  ending now leaves, or the burst (`LevelOK`). Hence a message is refused only if
  it would exceed the rate over some stretch, and admitted only if over none.
- `DispatcherIsLimited`: `DispSpec => LimSpec`, every step of the dispatcher being
  a step of the limiter or a stutter; `DispatcherWithinRate` follows.
- `DataPointsAreFresh`: `StoreInv` says a name's value is from a dispatch after
  which none that began later has stored; `PointInv` that the answers so far
  refer to such dispatches. What makes it hold while threads overtake each other
  is that a dispatch ends after all that began before its end (`Kept`).
- `EveryBackendIsServed`: `Balanced`, that what a backend has taken of a message
  and what the thread has still to give it are what it is due, by the number of
  times its list names it; `Placed`, that the metrics still to record are the
  last of the message's; and `EkgInv`, that whatever the registry has is in a
  cache, without which a refused name would have no explanation. That the lookup
  takes the longest prefix is `GetOptionLongest`, by induction over the prefix.

### Metrics (`MetricsProofs`)

`NodesTyped` is assumed of `Responses` and `Batches`: a reported metric is of one
of the three kinds, a counter's value a number, a batch a sequence and the fields
of a trace finite. Nothing is assumed of names: any of them may collide.

- `CountersAreRight`, `GaugesAreRight` and `LabelsAreRight`, from `MetInv`, which
  says `NodeOK` of every node and what was reported to it. `CachesOK` is what
  keeps collisions apart: each cache knows families of its own kind only, a gauge
  or a counter under its own raw name, and every gauge and label family is in its
  cache, so that whoever finds a name taken without knowing it stays away.
  `CountersOK` adds that a counter which could not be registered never can be
  later, because families are never removed from a registry; hence a counter
  counts from its first value or not at all.
- `RoutesAreKept` (an action property): sessions in the registry have different
  ids, so what `shift_remove` takes out is the session itself, and the first
  node with a slug stays the first until it leaves.

### Encoding (`WireProofs`)

`MessagesTyped` is assumed of `Messages`: a message has the type that Rust gives
it, with any texts, any lengths of its lists and any number of entries in its
tables; TLC evaluates it. `WirePlan` says that the peer sends something. Nothing
is assumed of the chunks.

- What a decoder does is said of a decoder in a stream. `Sees(r, m, g, d)`: the
  stream goes on with `r`, its end `m` has not arrived, `g` has been read; if `m`
  is longer than `r`, the decoder stands beyond what has arrived and the input has
  ended. `Spells(kind, w, v)`: from `Sees(w \o r, m, g, d)` the decoder of that
  kind comes to `Sees(r, m, Append(g, v), ...)`, for all `r`, `m` and `g`. That is
  the round trip, the exact number of tokens, and the end of the input for every
  incomplete word, in one statement which composes: the word of a message is the
  words of its parts one after the other.
- Each `Encode` and `Decode` gets its `Spells...` lemma, from `SpellsText` to
  `SpellsTrace`, `SpellsTraceMessage`, `SpellsHandshake`, `SpellsDataPoint` and
  `SpellsEkg`: lists in both spellings, byte strings in chunks, a response's
  metrics in any order, and values of an unknown kind, which are skipped whole.
- Lists are the step by induction: `Items` decodes item after item until the
  count is reached, a break or the end of the input is met (`StopsThere` shows that
  these agree with a table of all steps), and `ItemsRead` follows the stream of
  words along with it. `SkipTwo` says of `Skip` that it leaves the value of an
  unknown kind behind and nothing else.
- `StreamIsAligned`, `MessagesReceivedAsSent`, `OnlyForeignRefused` and
  `ReceiverNeverStuck`, from `WireInv`: each message was written in one of its
  spellings and received in order (`SentAndGot`), and buffer and wire hold the
  rest. `ReceivedAsSent` alone is not inductive, since what is decoded next
  depends on the buffer standing at the beginning of a word, which is
  `StreamAligned`; and this one needs each decoder to take its own word only.
  `StandsHere` gives the decoder's answer in every state of the invariant: the
  message, if its word has arrived; an error, if it is foreign; else the end of
  the input.

### What is not proved

Liveness (`EveryTraceSettles`, `EverySendReturns`, `ReconnectsWhenNeeded`,
`BrokenSessionsLeave`, `RedialsAfterBreak`, `AnswersWhenAsked`,
`DeadDownstreamsLeave`) is model-checked only, since fairness and `ENABLED` are out
of TLAPS's reach here. All other properties of the runs that pass are theorems.

Induction is over numbers, in terms of sets (`InductionOnNat`, `Recursion` and
`SameSteps` of `SequenceLemmas`), which is enough for the recursive functions of
the models and for `FlattenSeq` and `SelectSeq` of the library. No message nests
lists without a bound, so nothing here needs induction over nested data.

## 6. Not modelled, and the plan

Not modelled for good: JSON and journal formatting, HTTP rendering, YAML parsing,
start-up of the binaries (pure functions and I/O), the length of pauses and
timeouts, and the bytes inside a CBOR token. An error of the listener's `accept`,
or the end of any other top-level task, ends the server: everything stops, and
there is nothing left to state about it.

All modules of the plan are written and proved about: forwarding, log files,
registry, re-forwarding, encoding, metrics, dispatching.
