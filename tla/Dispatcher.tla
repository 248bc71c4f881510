------------------------------- MODULE Dispatcher ------------------------------
(***************************************************************************)
(* The dispatcher (src/dispatcher/mod.rs) and what its backends share with *)
(* the rest of the program.  Threads dispatch concurrently: a message is   *)
(* filtered by severity, limited by its namespace's bucket, and handed to  *)
(* the configured backends one after the other.  The forwarder backend and *)
(* the tracing layer (src/tracer.rs) put it in the forwarder's queue, which*)
(* the forwarder empties; the datapoint backend stores it; the forwarder's *)
(* responder answers an acceptor's DataPoint requests from that store.     *)
(*                                                                         *)
(* A set-up is what the application decides before the first message: the  *)
(* configuration, the backends, the messages it has.  A message's texts are*)
(* abstracted to the number of its dispatch.                               *)
(***************************************************************************)
EXTENDS RateLimiter, TraceConfig, EkgBackend, FiniteSets

CONSTANTS
  Threads,
  Setups       \* what the application may do (its counts are bounds)

Keys == {"Forwarder", "StdoutColoured", "StdoutUncoloured", "StdoutMachine", "Ekg", "Datapoint"}
Stdouts == {"StdoutColoured", "StdoutUncoloured", "StdoutMachine"}
NodeInfo == <<"NodeInfo">>

VARIABLES
  setup,       \* what the application decided
  disp,        \* Dispatcher: config, and the keys of its backends
  call,        \* thread -> the dispatch it is in: what is left of it
  calls,       \* history: every dispatch, in the order they began
  queue,       \* the forwarder's queue: [to_namespace, to_severity, to_details, from]
  open,        \* whether the forwarder still holds the queue's other end
  ekg,         \* the EKG backend
  store,       \* DataPointStore: namespace -> the dispatch that wrote it
  point,       \* the DataPoint exchange in progress
  used         \* tracing events and DataPoint requests so far

dispVars == <<setup, disp, call, calls, queue, open, ekg, store, point, used>>
allVars  == <<limVars, dispVars>>

--------------------------------------------------------------------------------
(* The builder.                                                            *)

\* Every backend some entry of the configuration names; the default list, used
\* when no entry names any, is not looked at.
Mentioned(config) ==
  UNION {{config.options[ns].backends[i] : i \in DOMAIN config.options[ns].backends}
           : ns \in {ns \in DOMAIN config.options : "backends" \in DOMAIN config.options[ns]}}

with_default_backends(config, given) ==
  given \cup (Mentioned(config) \cap (Stdouts \cup {"Datapoint"}))

Config(s) == [into_trace_config(s.raw) EXCEPT !.forwarder = s.forwarder]

build(s) ==
  [config   |-> Config(s),
   backends |-> IF s.defaults THEN with_default_backends(Config(s), s.given) ELSE s.given]

\* The datapoint backend stores only if the application gave it a store.
Stores == "Datapoint" \in setup.given

NoCall  == [id |-> 0, left |-> <<>>, metrics |-> <<>>]
NoPoint == [left |-> <<>>, reply |-> <<>>, before |-> {}]

DispInit ==
  /\ LimInit
  /\ setup \in Setups
  /\ disp = build(setup)
  /\ call = [t \in Threads |-> NoCall]
  /\ calls = <<>>
  /\ queue = <<>>
  /\ open = (setup.forwarder # <<>>)
  /\ ekg = EkgNew
  /\ store = NoMap
  /\ point = NoPoint
  /\ used = [events |-> 0, requests |-> 0]

--------------------------------------------------------------------------------
(* Dispatcher::dispatch, first half: is the message let through?           *)

complete(ns) == ns.prefix \o ns.inner

\* Namespaces and Frequencies have every limited namespace and every limit.
ASSUME LimitsNamed ==
  \A s \in Setups : \A m \in s.messages :
    LET limit == limiter_for(Config(s), complete(m.namespace))
    IN  limit # <<>> => complete(m.namespace) \in Namespaces /\ limit[1] \in Frequencies

\* Every message's namespace, metrics and backends are Vecs, the backends those of
\* BackendConfig, and of the four kinds of metrics the labelled one has labels.
ASSUME SetupsTyped ==
  \A s \in Setups : \A m \in s.messages :
    /\ complete(m.namespace) \in Seq(Range(complete(m.namespace)))
    /\ backends_for(Config(s), complete(m.namespace)) \in Seq(Keys)
    /\ m.metrics \in Seq(Range(m.metrics))
    /\ \A x \in Range(m.metrics) :
         /\ x.kind \in {"IntM", "DoubleM", "CounterM", "PrometheusM"}
         /\ x.name \in Seq(Range(x.name)) /\ x.labels \in Seq(Range(x.labels))
         /\ x.values \in Seq(Range(x.values)) /\ Len(x.labels) = Len(x.values)
         /\ x.kind # "PrometheusM" => x.labels = <<>>

message_sev(m) == unwrap_or(m.severity, Debug)
Passes(m) == passes(severity_for(disp.config, complete(m.namespace)), message_sev(m))
Limit(m)  == limiter_for(disp.config, complete(m.namespace))

Idle(t) == call[t] = NoCall

\* The record of a dispatch: what became of it (reached: the backends that took
\* it; lost: refusals of the queue; metrics: outcome by metric; end: dispatches
\* begun when it ended).
Entry(m, outcome) ==
  [msg |-> m, outcome |-> outcome, reached |-> <<>>, lost |-> 0,
   metrics |-> <<>>, end |-> IF outcome = "running" THEN 0 ELSE Len(calls) + 1]

Begin(m, outcome) == calls' = Append(calls, Entry(m, outcome))

Filtered(m) ==
  /\ ~Passes(m)
  /\ Begin(m, "filtered")
  /\ UNCHANGED <<limVars, call>>

Limited(m) ==
  /\ Passes(m) /\ Limit(m) # <<>>
  /\ Refuse(complete(m.namespace), Limit(m)[1])
  /\ Begin(m, "limited")
  /\ UNCHANGED call

LetThrough(t, m) ==
  /\ Passes(m)
  /\ IF Limit(m) = <<>> THEN UNCHANGED limVars
     ELSE Admit(complete(m.namespace), Limit(m)[1])
  /\ Begin(m, "running")
  /\ call' = [call EXCEPT ![t] = [id      |-> Len(calls) + 1,
                                  left    |-> backends_for(disp.config, complete(m.namespace)),
                                  metrics |-> m.metrics]]

dispatch(t, m) ==
  /\ Idle(t) /\ Len(calls) < setup.dispatches
  /\ Filtered(m) \/ Limited(m) \/ LetThrough(t, m)
  /\ UNCHANGED <<setup, disp, queue, open, ekg, store, point, used>>

--------------------------------------------------------------------------------
(* Second half: the backends, one after the other.                         *)

Msg(t) == calls[call[t].id].msg
At(t, key) == call[t].left # <<>> /\ Head(call[t].left) = key

Advanced(c) == [c EXCEPT !.left = Tail(@)]

\* Whatever the backend returned, an error being logged only.
Advance(t) == call' = [call EXCEPT ![t] = Advanced(@)]

Reached(t, key) == calls' = [calls EXCEPT ![call[t].id].reached = Append(@, key)]

IsSkipped(t) ==
  \/ At(t, "Forwarder") /\ Msg(t).privacy = "Confidential"
  \/ Head(call[t].left) \notin disp.backends

Skip(t) ==
  /\ call[t].left # <<>> /\ IsSkipped(t)
  /\ Advance(t)
  /\ UNCHANGED <<limVars, setup, disp, calls, queue, open, ekg, store, point, used>>

ToStdout(t) ==
  /\ \E key \in Stdouts : At(t, key) /\ ~IsSkipped(t) /\ Reached(t, key)
  /\ Advance(t)
  /\ UNCHANGED <<limVars, setup, disp, queue, open, ekg, store, point, used>>

HasRoom ==
  open /\ Len(queue) < unwrap_or(setup.forwarder[1].queue_size, DefaultQueueSize)

ToForwarder(t) ==
  /\ At(t, "Forwarder") /\ ~IsSkipped(t)
  /\ IF HasRoom
     THEN /\ LET ns == complete(Msg(t).namespace)
             IN  queue' = Append(queue, [to_namespace |-> ns, to_severity |-> message_sev(Msg(t)),
                                         to_details |-> detail_for(disp.config, ns),
                                         from |-> call[t].id])
          /\ Reached(t, "Forwarder")
     ELSE /\ calls' = [calls EXCEPT ![call[t].id].lost = @ + 1]
          /\ UNCHANGED queue
  /\ Advance(t)
  /\ UNCHANGED <<limVars, setup, disp, open, ekg, store, point, used>>

\* Mutant: the store keeps the first value of a name.
put_KeepsFirst(st, name, id) == IF name \in DOMAIN st THEN st ELSE Put(st, name, id)

\* DataPointStore::put
put(st, name, id) == Put(st, name, id)

ToDatapoint(t) ==
  /\ At(t, "Datapoint") /\ ~IsSkipped(t)
  /\ IF Stores
     THEN /\ store' = put(store, complete(Msg(t).namespace), call[t].id)
          /\ Reached(t, "Datapoint")
     ELSE UNCHANGED <<store, calls>>
  /\ Advance(t)
  /\ UNCHANGED <<limVars, setup, disp, queue, open, ekg, point, used>>

Measured(c, out) ==
  [c EXCEPT !.metrics = Append(@, out),
            !.outcome = IF out = "panic" THEN "panicked" ELSE @,
            !.end = IF out = "panic" THEN Len(calls) ELSE @]

NextMetric(c) == [c EXCEPT !.metrics = Tail(@)]

\* One metric of the message; the caches are locked for each metric anew.  A
\* panic ends the task that dispatches, with the backends still to come.
RecordMetric(t) ==
  /\ At(t, "Ekg") /\ ~IsSkipped(t) /\ call[t].metrics # <<>>
  /\ LET m   == Head(call[t].metrics)
         out == Outcome(ekg, m)
     IN  /\ ekg' = record_metric(ekg, m)
         /\ calls' = [calls EXCEPT ![call[t].id] = Measured(@, out)]
         /\ call' = [call EXCEPT ![t] = IF out = "panic" THEN NoCall ELSE NextMetric(@)]
  /\ UNCHANGED <<limVars, setup, disp, queue, open, store, point, used>>

\* All recorded; a list that names the backend again records them again.
ToEkg(t) ==
  /\ At(t, "Ekg") /\ ~IsSkipped(t) /\ call[t].metrics = <<>>
  /\ Reached(t, "Ekg")
  /\ call' = [call EXCEPT ![t] = [Advanced(@) EXCEPT !.metrics = Msg(t).metrics]]
  /\ UNCHANGED <<limVars, setup, disp, queue, open, ekg, store, point, used>>

Return(t) ==
  /\ ~Idle(t) /\ call[t].left = <<>>
  /\ calls' = [calls EXCEPT ![call[t].id].outcome = "done", ![call[t].id].end = Len(calls)]
  /\ call' = [call EXCEPT ![t] = NoCall]
  /\ UNCHANGED <<limVars, setup, disp, queue, open, ekg, store, point, used>>

--------------------------------------------------------------------------------
(* The tracing layer, and the forwarder's end of the queue.                *)

level_to_severity(level) ==
  CASE level \in {"TRACE", "DEBUG"} -> Debug
    [] level = "INFO"  -> Info
    [] level = "WARN"  -> Warning
    [] level = "ERROR" -> Error

\* A Rust path keeps its parts; a dotted target loses its empty ones.
extract_namespace(prefix, target) ==
  prefix \o IF target.path THEN target.parts
            ELSE SelectSeq(target.parts, LAMBDA s : s # "")

on_event ==
  /\ used.events < setup.events
  /\ \E e \in setup.tracing :
       queue' = IF HasRoom
                THEN Append(queue, [to_namespace |-> extract_namespace(setup.prefix, e.target),
                                    to_severity |-> level_to_severity(e.level),
                                    to_details |-> "DNormal", from |-> 0])
                ELSE queue
  /\ used' = [used EXCEPT !.events = @ + 1]
  /\ UNCHANGED <<limVars, setup, disp, call, calls, open, ekg, store, point>>

\* What the forwarder does with the queue is TraceForward's subject.
ForwarderTakes ==
  /\ queue # <<>>
  /\ queue' = Tail(queue)
  /\ UNCHANGED <<limVars, setup, disp, call, calls, open, ekg, store, point, used>>

\* run()'s task is dropped: the receiver with it, and every later try_send fails.
ForwarderDropped ==
  /\ open /\ setup.may_drop
  /\ open' = FALSE
  /\ queue' = <<>>
  /\ UNCHANGED <<limVars, setup, disp, call, calls, ekg, store, point, used>>

--------------------------------------------------------------------------------
(* DataPoints: the acceptor's client and the forwarder's responder.        *)

StoredBy(i) == \E k \in DOMAIN calls[i].reached : calls[i].reached[k] = "Datapoint"

\* DataPointClient::request sends.  before (history): what was stored by then.
Request(names) ==
  /\ open /\ point = NoPoint
  /\ used.requests < setup.requests
  /\ point' = [NoPoint EXCEPT !.left = names, !.before = {i \in DOMAIN calls : StoredBy(i)}]
  /\ used' = [used EXCEPT !.requests = @ + 1]
  /\ UNCHANGED <<limVars, setup, disp, call, calls, queue, open, ekg, store>>

\* What the responder finds for a name: the node's own information whatever is
\* stored, else the store if the forwarder has one.
Found(name) ==
  IF name = NodeInfo THEN forwarder_config(disp.config)[1].node_name
  ELSE IF setup.responder_store /\ name \in DOMAIN store THEN <<store[name]>> ELSE <<>>

\* The responder looks the names up one by one, the store unlocked in between.
LookUp ==
  /\ point.left # <<>>
  /\ point' = [point EXCEPT !.left = Tail(@), !.reply = Append(@, <<Head(point.left), Found(Head(point.left))>>)]
  /\ UNCHANGED <<limVars, setup, disp, call, calls, queue, open, ekg, store, used>>

\* The client has its reply.
Receive ==
  /\ point.left = <<>> /\ point.reply # <<>>
  /\ point' = NoPoint
  /\ UNCHANGED <<limVars, setup, disp, call, calls, queue, open, ekg, store, used>>

--------------------------------------------------------------------------------
Deliver(t) ==
  Skip(t) \/ ToStdout(t) \/ ToForwarder(t) \/ ToDatapoint(t) \/ RecordMetric(t) \/ ToEkg(t) \/ Return(t)

Clock == Tick /\ now < setup.ticks /\ UNCHANGED dispVars

DispNext ==
  \/ Clock \/ on_event \/ ForwarderTakes \/ ForwarderDropped \/ LookUp \/ Receive
  \/ \E t \in Threads : Deliver(t) \/ \E m \in setup.messages : dispatch(t, m)
  \/ \E names \in setup.asked : Request(names)

DispSpec == DispInit /\ [][DispNext]_allVars

--------------------------------------------------------------------------------
(* What is promised, against a lookup that states the longest prefix.      *)

Governing(ns, kind) ==
  LET prefixes == {n \in 0..Len(ns) : Sets(disp.config, SubSeq(ns, 1, n), kind)}
      longest  == CHOOSE n \in prefixes : \A k \in prefixes : k <= n
  IN  IF prefixes = {} THEN <<>> ELSE <<disp.config.options[SubSeq(ns, 1, longest)][kind]>>

Times(seq, x) == Cardinality({i \in DOMAIN seq : seq[i] = x})

\* How often a backend must take the message.
Due(m, key) ==
  IF \/ key \notin disp.backends
     \/ key = "Forwarder" /\ m.privacy = "Confidential"
     \/ key = "Datapoint" /\ ~Stores
  THEN 0
  ELSE Times(unwrap_or(Governing(complete(m.namespace), "backends"), DefaultBackends), key)

Taken(c, key) == Times(c.reached, key) + IF key = "Forwarder" THEN c.lost ELSE 0

\* Some other metric was registered under this one's sanitised name.
NameTaken(metric) ==
  LET Clash(names) == \E n \in names : sanitise_name(n) = sanitise_name(metric.name)
  IN  IF metric.kind = "CounterM" THEN Clash(ekg.counters \ {metric.name}) \/ Clash(DOMAIN ekg.gauges)
      ELSE Clash(DOMAIN ekg.gauges \ {metric.name}) \/ Clash(ekg.counters)

\* Why a metric was not recorded: its name, or other labels under its name.
Explained(metric, outcome) ==
  CASE outcome = "ok"    -> TRUE
    [] outcome = "error" -> NameTaken(metric) \/ ~CanRegister(EkgNew, metric.name)
    [] outcome = "panic" -> Len(ekg.gauges[metric.name]) # Len(metric.values)

\* mod.rs:86-177: a message is dropped for its severity exactly when the longest
\* prefix that sets one says so; a dispatch that ended handed it to every backend
\* the longest prefix with backends lists, once each, whatever the others did: a
\* full queue costs the forwarder's copy only, a confidential message never gets
\* to the queue, and what a metric's name costs is that metric, or a panic.
EveryBackendServed ==
  \A i \in DOMAIN calls :
    LET c == calls[i]
        severity == unwrap_or(Governing(complete(c.msg.namespace), "severity"), Warning)
    IN  /\ (c.outcome = "filtered") <=> ~passes(severity, message_sev(c.msg))
        /\ \A key \in Keys :
             IF c.outcome = "done" THEN Taken(c, key) = Due(c.msg, key) ELSE Taken(c, key) <= Due(c.msg, key)
        /\ \A k \in DOMAIN c.metrics :
             Explained(c.msg.metrics[1 + ((k - 1) % Len(c.msg.metrics))], c.metrics[k])
        /\ c.outcome = "panicked" => c.metrics[Len(c.metrics)] = "panic"

\* Dispatch j began after dispatch i had ended.
After(j, i) == calls[i].end # 0 /\ j > calls[i].end

\* datapoint.rs:3: the store has the most recent value of a name.  With threads
\* that means: whatever a reply says of a name was stored under that name, and no
\* dispatch stored there before the request that began after that one ended;
\* NodeInfo is the node's own, whatever is stored under that name.
RepliesAreFresh ==
  \A k \in DOMAIN point.reply :
    LET name   == point.reply[k][1]
        value  == point.reply[k][2]
        before == {i \in point.before : complete(calls[i].msg.namespace) = name}
    IN  IF name = NodeInfo THEN value = disp.config.node_name
        ELSE IF value = <<>> THEN before = {} \/ ~setup.responder_store
        ELSE /\ complete(calls[value[1]].msg.namespace) = name /\ StoredBy(value[1])
             /\ \A j \in before : ~After(j, value[1])
================================================================================
