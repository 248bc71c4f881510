------------------------------ MODULE EkgBackend -------------------------------
(***************************************************************************)
(* The dispatcher's EKG backend (src/dispatcher/backend/ekg.rs): one       *)
(* Prometheus registry, a cache of gauges (with labels or without) and a   *)
(* cache of counters.  Operators from the backend's state to its next.     *)
(* Metric names are sequences of characters, because they are what         *)
(* collides; label names are distinct and valid.  Doubles are integers.    *)
(***************************************************************************)
EXTENDS Integers, Sequences

NoMap == [x \in {} |-> x]
Put(f, k, v) == [x \in DOMAIN f \cup {k} |-> IF x = k THEN v ELSE f[x]]

EkgNew == [gauges |-> NoMap,       \* name -> its label names
           counters |-> {},        \* names
           registered |-> {},      \* names the registry knows, as sanitised
           samples |-> NoMap]      \* <<name, label values>> -> value

Letters == {"a", "b"}     \* the alphanumeric characters in use, digits aside
Digits  == {"7"}
sanitise_name(name) ==
  [i \in DOMAIN name |-> IF name[i] \in Letters \cup Digits \cup {"_"} THEN name[i] ELSE "_"]

\* GaugeVec::new and Registry::register succeed for a well-formed name that no
\* other metric has.
CanRegister(ekg, name) ==
  LET n == sanitise_name(name)
  IN  n # <<>> /\ n[1] \notin Digits /\ n \notin ekg.registered

Known(ekg, metric) ==
  metric.name \in IF metric.kind = "CounterM" THEN ekg.counters ELSE DOMAIN ekg.gauges

get_or_create(ekg, metric) ==
  IF Known(ekg, metric) THEN ekg
  ELSE LET reg == [ekg EXCEPT !.registered = @ \cup {sanitise_name(metric.name)}]
       IN  IF metric.kind = "CounterM" THEN [reg EXCEPT !.counters = @ \cup {metric.name}]
           ELSE [reg EXCEPT !.gauges = Put(@, metric.name, metric.labels)]

\* with_label_values panics unless it gets one value per label name; the cache
\* is by name only, so the gauge found may have other labels.
Arity(ekg, metric) ==
  IF metric.kind = "CounterM" THEN 0 ELSE Len(get_or_create(ekg, metric).gauges[metric.name])

Outcome(ekg, metric) ==
  CASE ~Known(ekg, metric) /\ ~CanRegister(ekg, metric.name) -> "error"
    [] Known(ekg, metric) \/ CanRegister(ekg, metric.name) ->
         IF Arity(ekg, metric) = Len(metric.values) THEN "ok" ELSE "panic"

\* A gauge is set (to 1 with labels), a counter grows by its value or by one.
Sample(old, metric) ==
  CASE metric.kind \in {"IntM", "DoubleM"} -> metric.value
    [] metric.kind = "CounterM"            -> old + IF metric.value = <<>> THEN 1 ELSE metric.value[1]
    [] metric.kind = "PrometheusM"         -> 1

record_metric(ekg, metric) ==
  CASE Outcome(ekg, metric) = "error" -> ekg
    [] Outcome(ekg, metric) = "panic" -> get_or_create(ekg, metric)
    [] Outcome(ekg, metric) = "ok"    ->
         LET key == <<metric.name, metric.values>>
             old == IF key \in DOMAIN ekg.samples THEN ekg.samples[key] ELSE 0
         IN  [get_or_create(ekg, metric) EXCEPT !.samples = Put(@, key, Sample(old, metric))]
================================================================================
