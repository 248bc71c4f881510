-------------------------------- MODULE Metrics --------------------------------
(***************************************************************************)
(* The metrics of the connected nodes (src/server/ekg.rs, trace_handler.rs,*)
(* node.rs, prometheus.rs).  Every session of a node has a Prometheus      *)
(* registry of its own.  Two tasks fill it: the EKG poller, with the       *)
(* counters, gauges and labels the node reports, and the trace task, with  *)
(* a gauge for each numeric field of a trace.  Both keep caches of what    *)
(* they registered, and a name that is taken is an error they only log.    *)
(* The HTTP routes read the registries.                                    *)
(*                                                                         *)
(* A name is a sequence of characters, because the names are what collides.*)
(* Requests, pauses and the text format are left out; a response is        *)
(* applied metric by metric, in the order of a HashMap, that is in any.    *)
(***************************************************************************)
EXTENDS Integers, Sequences, FiniteSets, SequencesExt, FiniteSetsExt

CONSTANTS
  Sessions,      \* the connections of nodes
  IdOf,          \* session -> node id
  NameOf,        \* session -> display name
  Responses,     \* session -> what its node may answer a poll with
  Batches,       \* session -> the batches of traces it may send
  I64Max,        \* the largest i64 (a bound)
  MaxPolls,      \* polls of a session that are answered (a bound)
  MaxBatches     \* batches of a session (a bound)

ASSUME MetricsBounds ==
  /\ I64Max \in Nat \ {0} /\ MaxPolls \in Nat /\ MaxBatches \in Nat
  /\ DOMAIN IdOf = Sessions /\ DOMAIN NameOf = Sessions

\* A metric is one of three kinds, a counter's value an i64; a batch is a Vec.
ASSUME NodesTyped ==
  \A s \in Sessions :
    /\ \A r \in Responses[s] : \A name \in DOMAIN r :
         /\ r[name][1] \in {"counter", "gauge", "label"}
         /\ r[name][1] = "counter" => r[name][2] \in Int
    /\ \A traces \in Batches[s] :
         /\ traces \in Seq(Range(traces))
         /\ \A trace \in Range(traces) : IsFiniteSet(DOMAIN trace.fields)

VARIABLES
  nodes,     \* TracerState::nodes: the sessions registered, in insertion order
  node,      \* session -> its registry and the caches of its two tasks
  pending,   \* session -> metrics of the last response not applied yet
  polls,     \* session -> responses so far
  batches,   \* session -> batches so far
  seen       \* history: session -> (kind, name) -> values applied, in order

metVars == <<nodes, node, pending, polls, batches, seen>>

--------------------------------------------------------------------------------
(* Names.                                                                  *)

Letters == {"a", "b", "c", "d", "f", "i", "n", "o"}
Digits  == {"7"}
Lower(ch) == IF ch = "A" THEN "a" ELSE ch
IsAlphanumeric(ch) == Lower(ch) \in Letters \cup Digits

sanitise_name(n) == [i \in DOMAIN n |-> IF IsAlphanumeric(n[i]) \/ n[i] = "_" THEN n[i] ELSE "_"]

\* What prometheus::Opts accepts, of a sanitised name.
ValidName(n) == n # <<>> /\ n[1] \notin Digits

slugify(n) ==
  LET raw == [i \in DOMAIN n |-> IF IsAlphanumeric(n[i]) THEN Lower(n[i]) ELSE "-"]
      result == FoldLeft(LAMBDA r, ch : IF ch = "-" /\ (r = <<>> \/ Last(r) = "-")
                                        THEN r ELSE Append(r, ch), <<>>, raw)
      trimmed == IF result # <<>> /\ Last(result) = "-" THEN Front(result) ELSE result
  IN IF trimmed = <<>> THEN <<"x">> ELSE trimmed

SlugOf == [s \in Sessions |-> slugify(NameOf[s])]     \* NodeState::slug

--------------------------------------------------------------------------------
(* One node's registry.  A family is one registered name: its kind, the    *)
(* metric that registered it, and its samples by label value.              *)

NoFunction == [x \in {} |-> x]
Put(f, k, v) == [x \in DOMAIN f \cup {k} |-> IF x = k THEN v ELSE f[x]]

NewNode == [families |-> NoFunction, gauge_cache |-> {}, counter_cache |-> {},
            label_gauge_cache |-> {}, trace_gauge_cache |-> {}, counter_values |-> NoFunction]

NoLabel == "none"

\* Registry::register refuses a name that is taken, whatever its kind.
CanRegister(n, family) == ValidName(family) /\ family \notin DOMAIN n.families

\* The get_or_create functions: the cache that knows key already, or a new
\* family, or an error, which leaves n as it is.
Known(n, cache, key) == key \in n[cache]
Created(n, cache, key, family, kind, by) ==
  [n EXCEPT !.families = Put(@, family, [kind |-> kind, by |-> by, samples |-> NoFunction]),
            ![cache] = @ \cup {key}]
GetOrCreate(n, cache, key, family, kind, by) ==
  IF Known(n, cache, key) THEN n
  ELSE IF CanRegister(n, family) THEN Created(n, cache, key, family, kind, by)
  ELSE n

SetSample(n, family, label, v) ==
  [n EXCEPT !.families[family].samples = Put(@, label, v)]

Max0(x) == IF x > 0 THEN x ELSE 0
saturating_sub(x, y) ==
  IF x - y > I64Max THEN I64Max ELSE IF x - y < -I64Max - 1 THEN -I64Max - 1 ELSE x - y

Sample(n, family) ==
  IF NoLabel \in DOMAIN n.families[family].samples THEN n.families[family].samples[NoLabel] ELSE 0

Remember_Growth(n, name, v) ==
  IF name \in DOMAIN n.counter_values /\ n.counter_values[name] > v THEN n
  ELSE [n EXCEPT !.counter_values = Put(@, name, v)]
Remember(n, name, v) == [n EXCEPT !.counter_values = Put(@, name, v)]

UpdateCounter(n, name, v) ==
  LET family == sanitise_name(name)
      m == GetOrCreate(n, "counter_cache", name, family, "counter", name)
      prev == IF name \in DOMAIN m.counter_values THEN m.counter_values[name] ELSE 0
      delta == Max0(saturating_sub(v, prev))
  IN IF ~Known(m, "counter_cache", name) THEN n
     ELSE Remember(IF delta > 0 THEN SetSample(m, family, NoLabel, Sample(m, family) + delta) ELSE m,
                   name, v)

GaugeKey_Sanitised(name) == sanitise_name(name)
GaugeKey(name) == name

UpdateGauge(n, name, v) ==
  LET family == sanitise_name(name)
      m == GetOrCreate(n, "gauge_cache", GaugeKey(name), family, "gauge", name)
  IN IF ~Known(m, "gauge_cache", GaugeKey(name)) THEN n ELSE SetSample(m, family, NoLabel, v)

InfoSuffix == <<"_", "i", "n", "f", "o">>
InfoName(name) == sanitise_name(name \o InfoSuffix)

LabelKey_Raw(name) == name
LabelKey(name) == InfoName(name)

UpdateLabel(n, name, text) ==
  LET m == GetOrCreate(n, "label_gauge_cache", LabelKey(name), InfoName(name), "label", name)
  IN IF ~Known(m, "label_gauge_cache", LabelKey(name)) THEN n
     ELSE SetSample(m, InfoName(name), text, 1)

update_metric(n, name, value) ==
  CASE value[1] = "counter" -> UpdateCounter(n, name, value[2])
    [] value[1] = "gauge"   -> UpdateGauge(n, name, value[2])
    [] value[1] = "label"   -> UpdateLabel(n, name, value[2])

Join(namespace) ==
  IF namespace = <<>> THEN <<>>
  ELSE FoldLeft(LAMBDA r, seg : r \o <<"_">> \o seg, Head(namespace), Tail(namespace))

\* A trace is its namespace and the fields of its JSON object, number or not.
PushField(n, trace, field) ==
  LET prefix == Join(trace.namespace)
      family == sanitise_name(prefix \o <<"_">> \o field)
      m == GetOrCreate(n, "trace_gauge_cache", family, family, "trace", family)
  IN IF prefix = <<>> \/ trace.fields[field][1] # "number" \/ ~Known(m, "trace_gauge_cache", family)
     THEN n ELSE SetSample(m, family, NoLabel, trace.fields[field][2])

PushTrace(n, trace) ==
  LET fields == SetToSeq(DOMAIN trace.fields)
      after[i \in 0..Len(fields)] ==
        IF i = 0 THEN n ELSE PushField(after[i - 1], trace, fields[i])
  IN  after[Len(fields)]

push_trace_metrics(n, traces) ==
  LET after[i \in 0..Len(traces)] == IF i = 0 THEN n ELSE PushTrace(after[i - 1], traces[i])
  IN  after[Len(traces)]

--------------------------------------------------------------------------------
(* Sessions and readers.                                                   *)

MetInit ==
  /\ nodes = <<>>
  /\ node = [s \in Sessions |-> NewNode]
  /\ pending = [s \in Sessions |-> NoFunction]
  /\ polls = [s \in Sessions |-> 0]
  /\ batches = [s \in Sessions |-> 0]
  /\ seen = [s \in Sessions |-> NoFunction]

Registered == Range(nodes)

ShiftRemove_Swaps(s) ==
  LET i == CHOOSE i \in DOMAIN nodes : nodes[i] = s
  IN Front([nodes EXCEPT ![i] = Last(nodes)])
\* IndexMap::shift_remove: the others keep their order.
ShiftRemove(s) == RemoveAt(nodes, CHOOSE i \in DOMAIN nodes : IdOf[nodes[i]] = IdOf[s])

\* The node is registered and its tasks start, with nothing cached.  A second
\* session of an id that is still registered is left to NodeRegistry.
Register(s) ==
  /\ \A t \in Registered : IdOf[t] # IdOf[s]
  /\ nodes' = Append(nodes, s)            \* IndexMap::insert of a new key
  /\ node' = [node EXCEPT ![s] = NewNode]
  /\ pending' = [pending EXCEPT ![s] = NoFunction]
  /\ polls' = [polls EXCEPT ![s] = 0]
  /\ batches' = [batches EXCEPT ![s] = 0]
  /\ seen' = [seen EXCEPT ![s] = NoFunction]

\* A task has ended; what the others still do reaches a registry no route finds.
Deregister(s) ==
  /\ s \in Registered
  /\ nodes' = ShiftRemove(s)
  /\ node' = [node EXCEPT ![s] = NewNode]
  /\ pending' = [pending EXCEPT ![s] = NoFunction]
  /\ seen' = [seen EXCEPT ![s] = NoFunction]
  /\ UNCHANGED <<polls, batches>>

\* poll_once receives a response
PollAnswered(s) ==
  /\ s \in Registered /\ pending[s] = NoFunction /\ polls[s] < MaxPolls
  /\ \E metrics \in Responses[s] : pending' = [pending EXCEPT ![s] = metrics]
  /\ polls' = [polls EXCEPT ![s] = @ + 1]
  /\ UNCHANGED <<nodes, node, batches, seen>>

\* update_registry, one metric
ApplyMetric(s) ==
  /\ s \in Registered
  /\ \E name \in DOMAIN pending[s] :
       LET value == pending[s][name]
           key   == <<value[1], name>>
           old   == IF key \in DOMAIN seen[s] THEN seen[s][key] ELSE <<>>
       IN /\ node' = [node EXCEPT ![s] = update_metric(@, name, value)]
          /\ pending' = [pending EXCEPT ![s] = [k \in DOMAIN @ \ {name} |-> @[k]]]
          /\ seen' = [seen EXCEPT ![s] = Put(@, key, Append(old, value[2]))]
  /\ UNCHANGED <<nodes, polls, batches>>

\* handle_traces, after the batch was logged and forwarded
PushTraces(s) ==
  /\ s \in Registered /\ batches[s] < MaxBatches
  /\ \E traces \in Batches[s] : node' = [node EXCEPT ![s] = push_trace_metrics(@, traces)]
  /\ batches' = [batches EXCEPT ![s] = @ + 1]
  /\ UNCHANGED <<nodes, pending, polls, seen>>

SessionStep(s) ==
  Register(s) \/ Deregister(s) \/ PollAnswered(s) \/ ApplyMetric(s) \/ PushTraces(s)

MetNext == \E s \in Sessions : SessionStep(s)

MetSpec == MetInit /\ [][MetNext]_metVars

StaticRoutes == {<<"m", "e", "t", "r", "i", "c", "s">>, <<"t", "a", "r", "g", "e", "t", "s">>}

\* The first registered node with the slug: none or one session.
find_by_slug(slug) ==
  LET hits == {i \in DOMAIN nodes : SlugOf[nodes[i]] = slug}
  IN  {nodes[i] : i \in {i \in hits : \A j \in hits : i <= j}}

\* GET /{slug}: whose metrics are served; the static routes come first.
handle_node_metrics(slug) == IF slug \in StaticRoutes THEN {} ELSE find_by_slug(slug)

--------------------------------------------------------------------------------
\* The rises of a counter that starts at 0 and takes the values of h.
Rises(h) ==
  LET risen[i \in 0..Len(h)] ==
        IF i = 0 THEN 0
        ELSE risen[i - 1] + Max0(saturating_sub(h[i], IF i = 1 THEN 0 ELSE h[i - 1]))
  IN  risen[Len(h)]

\* A counter that is exported counts what the node's counter has grown since
\* the session began: all of its rises, also those after it was reset to a
\* lower value, none of its falls, each of them once. (UpdateCounter)
CountersCountGrowth ==
  \A s \in Registered : \A name \in node[s].counter_cache :
    Sample(node[s], sanitise_name(name)) = Rises(seen[s][<<"counter", name>>])

\* Names that become equal when sanitised never share a gauge: it belongs to
\* the metric that registered it and shows the last value of that metric, no
\* matter what the others report. (get_or_create_gauge)
GaugesAreNotShared ==
  \A s \in Registered : \A f \in DOMAIN node[s].families :
    LET family == node[s].families[f]
    IN family.kind = "gauge" => Sample(node[s], f) = Last(seen[s][<<"gauge", family.by>>])

\* The text a label was last reported with is shown, unless its name was taken
\* by a metric that is no label; every text shown was reported by a label of
\* that name. (UpdateLabel)
LabelsAreShown ==
  \A s \in Registered : \A key \in DOMAIN seen[s] :
    LET f == InfoName(key[2])
        taken == ~ValidName(f) \/ (f \in DOMAIN node[s].families /\ node[s].families[f].kind # "label")
        alike == {k \in DOMAIN seen[s] : k[1] = "label" /\ InfoName(k[2]) = f}
    IN key[1] = "label" /\ ~taken =>
         /\ f \in DOMAIN node[s].families
         /\ Last(seen[s][key]) \in DOMAIN node[s].families[f].samples
         /\ DOMAIN node[s].families[f].samples \subseteq UNION {Range(seen[s][k]) : k \in alike}

\* While a node stays connected, no other node takes over the route it is
\* served at: not one that connects later under a name with the same slug, and
\* not when a third one leaves. (register, deregister, find_by_slug)
NodeKeepsItsRoute ==
  [][\A slug \in Range(SlugOf) : \A s \in handle_node_metrics(slug) :
       s \in Registered' => handle_node_metrics(slug)' = {s}]_metVars
================================================================================
