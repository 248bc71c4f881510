---------------------------- MODULE MetricsProofs ----------------------------
(***************************************************************************)
(* What a node's metrics show, for any number of nodes, any names, however *)
(* they collide, and any sequence of responses and traces; and the route a *)
(* node is served at.                                                      *)
(***************************************************************************)
EXTENDS Metrics, SequenceLemmas

IsFamily(n, f, kind) == f \in DOMAIN n.families /\ n.families[f].kind = kind

(* The two record types.                                                   *)
FamiliesOK(families) ==
  /\ families = [f \in DOMAIN families |-> families[f]]
  /\ \A f \in DOMAIN families :
       families[f] = [kind |-> families[f].kind, by |-> families[f].by, samples |-> families[f].samples]

ShapeOK(n) ==
  /\ n = [families |-> n.families, gauge_cache |-> n.gauge_cache,
          counter_cache |-> n.counter_cache, label_gauge_cache |-> n.label_gauge_cache,
          trace_gauge_cache |-> n.trace_gauge_cache, counter_values |-> n.counter_values]
  /\ FamiliesOK(n.families)

(* A cache knows families of its own kind, and only what is registered.    *)
CachesOK(n) ==
  /\ \A name \in n.gauge_cache :
       /\ IsFamily(n, sanitise_name(name), "gauge")
       /\ n.families[sanitise_name(name)].by = name
  /\ \A name \in n.counter_cache :
       /\ IsFamily(n, sanitise_name(name), "counter")
       /\ n.families[sanitise_name(name)].by = name
  /\ \A f \in n.label_gauge_cache : IsFamily(n, f, "label")
  /\ \A f \in n.trace_gauge_cache : IsFamily(n, f, "trace")
  /\ \A f \in DOMAIN n.families :
       /\ IsFamily(n, f, "gauge") =>
            n.families[f].by \in n.gauge_cache /\ sanitise_name(n.families[f].by) = f
       /\ IsFamily(n, f, "label") => f \in n.label_gauge_cache

Key(kind, name) == <<kind, name>>

(* A gauge shows the last value of the metric it belongs to.               *)
GaugesOK(n, h) ==
  \A f \in DOMAIN n.families :
    IsFamily(n, f, "gauge") =>
      /\ Key("gauge", n.families[f].by) \in DOMAIN h
      /\ Sample(n, f) = Last(h[Key("gauge", n.families[f].by)])

(* The texts that labels of family f were reported with.                   *)
TextsOf(h, f) ==
  UNION {Range(h[k]) : k \in {k \in DOMAIN h : k[1] = "label" /\ InfoName(k[2]) = f}}

(* A label whose name could be had is shown.                               *)
LabelsOK(n, h) ==
  /\ \A key \in DOMAIN h :
       LET f == InfoName(key[2])
       IN  key[1] = "label" /\ ValidName(f) =>
             /\ f \in DOMAIN n.families
             /\ IsFamily(n, f, "label") => Last(h[key]) \in DOMAIN n.families[f].samples
  /\ \A f \in DOMAIN n.families :
       IsFamily(n, f, "label") => DOMAIN n.families[f].samples \subseteq TextsOf(h, f)

(* A counter counts from the first value on, since a name that could not   *)
(* be had then never can.                                                  *)
CountersOK(n, h) ==
  /\ DOMAIN n.counter_values = n.counter_cache
  /\ \A name \in n.counter_cache :
       LET key == Key("counter", name)
       IN  /\ key \in DOMAIN h
           /\ n.counter_values[name] = Last(h[key])
           /\ Sample(n, sanitise_name(name)) = Rises(h[key])
  /\ \A key \in DOMAIN h :
       key[1] = "counter" /\ key[2] \notin n.counter_cache => ~CanRegister(n, sanitise_name(key[2]))

(* What was seen is a list of values, for a counter of numbers.            *)
SeenOK(h) ==
  \A key \in DOMAIN h :
    /\ key = Key(key[1], key[2])
    /\ h[key] \in Seq(Range(h[key])) /\ h[key] # << >>
    /\ key[1] = "counter" => h[key] \in Seq(Int)

NodeOK(n, h) ==
  ShapeOK(n) /\ CachesOK(n) /\ GaugesOK(n, h) /\ LabelsOK(n, h) /\ CountersOK(n, h) /\ SeenOK(h)

-----------------------------------------------------------------------------
(* What an update does to a node                                           *)

(* The samples of a family, or of one not registered yet.                  *)
Samples(n, f) == IF f \in DOMAIN n.families THEN n.families[f].samples ELSE NoFunction

(* Family f is there for what was reported, or made for it.                *)
Gains(n, m, f, kind, by, samples) ==
  /\ ShapeOK(m)
  /\ m.families = Put(n.families, f, [kind |-> kind, by |-> by, samples |-> samples])
  /\ \/ IsFamily(n, f, kind) /\ n.families[f].by = by
     \/ CanRegister(n, f)

SameCaches(n, m) ==
  /\ m.gauge_cache = n.gauge_cache /\ m.counter_cache = n.counter_cache
  /\ m.label_gauge_cache = n.label_gauge_cache /\ m.trace_gauge_cache = n.trace_gauge_cache
  /\ m.counter_values = n.counter_values

(* The later entry counts.                                                 *)
LEMMA PutTwice ==
  ASSUME NEW f, NEW k, NEW v, NEW w
  PROVE  Put(Put(f, k, v), k, w) = Put(f, k, w)
  BY DEF Put

(* What was there already.                                                 *)
LEMMA PutAgain ==
  ASSUME NEW f, f = [x \in DOMAIN f |-> f[x]], NEW k \in DOMAIN f
  PROVE  Put(f, k, f[k]) = f
  <1>1. DOMAIN f \cup {k} = DOMAIN f
    OBVIOUS
  <1>2. [x \in DOMAIN f |-> IF x = k THEN f[k] ELSE f[x]] = [x \in DOMAIN f |-> f[x]]
    OBVIOUS
  <1> QED
    BY <1>1, <1>2 DEF Put

(* One more family.                                                        *)
LEMMA PutFamily ==
  ASSUME NEW F, FamiliesOK(F), NEW f, NEW kind, NEW by, NEW ss
  PROVE  FamiliesOK(Put(F, f, [kind |-> kind, by |-> by, samples |-> ss]))
  <1>1. PICK fam : fam = [kind |-> kind, by |-> by, samples |-> ss]
    OBVIOUS
  <1>2. PICK G : G = Put(F, f, fam)
    OBVIOUS
  <1>3. G[f] = fam /\ (\A g \in DOMAIN F \ {f} : G[g] = F[g]) /\ DOMAIN G = DOMAIN F \cup {f}
    BY <1>2 DEF Put
  <1>4. G[f] = [kind |-> G[f].kind, by |-> G[f].by, samples |-> G[f].samples]
    BY <1>1, <1>3
  <1>5. \A g \in DOMAIN G \ {f} :
          G[g] = [kind |-> G[g].kind, by |-> G[g].by, samples |-> G[g].samples]
    BY <1>3 DEF FamiliesOK
  <1>6. G = [g \in DOMAIN G |-> G[g]]
    BY <1>2 DEF Put
  <1> QED
    BY <1>1, <1>2, <1>4, <1>5, <1>6 DEF FamiliesOK

(* A new value of a family that is there.                                  *)
LEMMA SampleSet ==
  ASSUME NEW c, ShapeOK(c), NEW f \in DOMAIN c.families, NEW l, NEW v, NEW m, m = SetSample(c, f, l, v)
  PROVE  /\ ShapeOK(m) /\ SameCaches(c, m)
         /\ m.families = Put(c.families, f, [kind |-> c.families[f].kind, by |-> c.families[f].by,
                                             samples |-> Put(c.families[f].samples, l, v)])
  <1> DEFINE F == c.families
             fam == [kind |-> F[f].kind, by |-> F[f].by, samples |-> Put(F[f].samples, l, v)]
             G == [F EXCEPT ![f].samples = Put(@, l, v)]
  <1>1. m = [c EXCEPT !.families = G]
    BY DEF SetSample
  <1>2. m.families = G /\ SameCaches(c, m)
    BY <1>1 DEF ShapeOK, SameCaches
  <1>3. G = Put(F, f, fam)
    <2>1. F[f] = [kind |-> F[f].kind, by |-> F[f].by, samples |-> F[f].samples]
      BY DEF ShapeOK, FamiliesOK
    <2>2. [F[f] EXCEPT !.samples = Put(@, l, v)] = fam
      BY <2>1
    <2>3. G = [F EXCEPT ![f] = [F[f] EXCEPT !.samples = Put(@, l, v)]]
      OBVIOUS
    <2>4. G = [F EXCEPT ![f] = fam]
      BY <2>2, <2>3
    <2> HIDE DEF G, fam
    <2> QED
      BY <2>4 DEF Put
  <1>4. FamiliesOK(Put(F, f, fam))
    BY PutFamily DEF ShapeOK
  <1>5. m = [families |-> m.families, gauge_cache |-> m.gauge_cache,
             counter_cache |-> m.counter_cache, label_gauge_cache |-> m.label_gauge_cache,
             trace_gauge_cache |-> m.trace_gauge_cache, counter_values |-> m.counter_values]
    BY <1>1 DEF ShapeOK
  <1> QED
    BY <1>2, <1>3, <1>4, <1>5 DEF ShapeOK

(* A family that was made and then got a value.                            *)
LEMMA SampledNew ==
  ASSUME NEW n, ShapeOK(n), NEW f, CanRegister(n, f), NEW kind, NEW by, NEW c, ShapeOK(c),
         c.families = Put(n.families, f, [kind |-> kind, by |-> by, samples |-> NoFunction]),
         NEW l, NEW v, NEW m, m = SetSample(c, f, l, v)
  PROVE  Gains(n, m, f, kind, by, Put(Samples(n, f), l, v)) /\ SameCaches(c, m)
  <1>1. PICK new : new = [kind |-> kind, by |-> by, samples |-> NoFunction]
    OBVIOUS
  <1>2. PICK fam : fam = [kind |-> kind, by |-> by, samples |-> Put(NoFunction, l, v)]
    OBVIOUS
  <1>3. f \in DOMAIN c.families /\ c.families[f] = new
    BY <1>1 DEF Put
  <1>4. new.kind = kind /\ new.by = by /\ new.samples = NoFunction
    BY <1>1
  <1>5. ShapeOK(m) /\ SameCaches(c, m) /\ m.families = Put(c.families, f, fam)
    BY <1>2, <1>3, <1>4, SampleSet
  <1>6. m.families = Put(n.families, f, fam)
    BY <1>1, <1>5, PutTwice
  <1>7. Samples(n, f) = NoFunction
    BY DEF CanRegister, Samples
  <1> QED
    BY <1>2, <1>5, <1>6, <1>7 DEF Gains

(* And one that was there already.                                         *)
LEMMA SampledOld ==
  ASSUME NEW n, ShapeOK(n), NEW f, NEW kind, IsFamily(n, f, kind),
         NEW l, NEW v, NEW m, m = SetSample(n, f, l, v)
  PROVE  Gains(n, m, f, kind, n.families[f].by, Put(Samples(n, f), l, v)) /\ SameCaches(n, m)
  BY SampleSet DEF IsFamily, Samples, Gains

(* A gauge of the poller.                                                  *)
LEMMA GaugeUpdated ==
  ASSUME NEW n, ShapeOK(n), CachesOK(n), NEW name, NEW v, NEW m, m = UpdateGauge(n, name, v),
         NEW f, f = sanitise_name(name)
  PROVE  \/ m = n /\ name \notin n.gauge_cache /\ ~CanRegister(n, f)
         \/ /\ Gains(n, m, f, "gauge", name, Put(Samples(n, f), NoLabel, v))
            /\ m.gauge_cache = n.gauge_cache \cup {name}
            /\ m.counter_cache = n.counter_cache /\ m.label_gauge_cache = n.label_gauge_cache
            /\ m.trace_gauge_cache = n.trace_gauge_cache /\ m.counter_values = n.counter_values
  <1>1. CASE name \in n.gauge_cache
    <2>1. GetOrCreate(n, "gauge_cache", name, f, "gauge", name) = n
      BY <1>1 DEF GetOrCreate, Known
    <2>2. m = SetSample(n, f, NoLabel, v)
      BY <1>1, <2>1 DEF UpdateGauge, GaugeKey, Known
    <2>3. IsFamily(n, f, "gauge") /\ n.families[f].by = name
      BY <1>1 DEF CachesOK
    <2> QED
      BY <1>1, <2>2, <2>3, SampledOld DEF SameCaches
  <1>2. CASE name \notin n.gauge_cache /\ ~CanRegister(n, f)
    BY <1>2 DEF UpdateGauge, GaugeKey, GetOrCreate, Known
  <1>3. CASE name \notin n.gauge_cache /\ CanRegister(n, f)
    <2>1. PICK c : c = Created(n, "gauge_cache", name, f, "gauge", name)
      OBVIOUS
    <2>2. GetOrCreate(n, "gauge_cache", name, f, "gauge", name) = c
      BY <1>3, <2>1 DEF GetOrCreate, Known
    <2>3. /\ c.families = Put(n.families, f, [kind |-> "gauge", by |-> name, samples |-> NoFunction])
          /\ c.gauge_cache = n.gauge_cache \cup {name}
          /\ c.counter_cache = n.counter_cache /\ c.label_gauge_cache = n.label_gauge_cache
          /\ c.trace_gauge_cache = n.trace_gauge_cache /\ c.counter_values = n.counter_values
      BY <2>1 DEF Created, ShapeOK
    <2>4. ShapeOK(c)
      BY <2>1, <2>3, PutFamily DEF ShapeOK, Created
    <2>5. m = SetSample(c, f, NoLabel, v)
      BY <2>2, <2>3 DEF UpdateGauge, GaugeKey, Known
    <2>6. Gains(n, m, f, "gauge", name, Put(Samples(n, f), NoLabel, v)) /\ SameCaches(c, m)
      BY <1>3, <2>3, <2>4, <2>5, SampledNew
    <2> QED
      BY <2>3, <2>6 DEF SameCaches
  <1> QED
    BY <1>1, <1>2, <1>3

(* A label of the poller; its gauge has one sample for each text.          *)
LEMMA LabelUpdated ==
  ASSUME NEW n, ShapeOK(n), CachesOK(n), NEW name, NEW v, NEW m, m = UpdateLabel(n, name, v),
         NEW f, f = InfoName(name)
  PROVE  \/ m = n /\ f \notin n.label_gauge_cache /\ ~CanRegister(n, f)
         \/ /\ \E by : Gains(n, m, f, "label", by, Put(Samples(n, f), v, 1))
            /\ m.label_gauge_cache = n.label_gauge_cache \cup {f}
            /\ m.counter_cache = n.counter_cache /\ m.gauge_cache = n.gauge_cache
            /\ m.trace_gauge_cache = n.trace_gauge_cache /\ m.counter_values = n.counter_values
  <1>1. CASE f \in n.label_gauge_cache
    <2>1. GetOrCreate(n, "label_gauge_cache", f, f, "label", name) = n
      BY <1>1 DEF GetOrCreate, Known
    <2>2. m = SetSample(n, f, v, 1)
      BY <1>1, <2>1 DEF UpdateLabel, LabelKey, Known
    <2>3. IsFamily(n, f, "label")
      BY <1>1 DEF CachesOK
    <2> QED
      BY <1>1, <2>2, <2>3, SampledOld DEF SameCaches
  <1>2. CASE f \notin n.label_gauge_cache /\ ~CanRegister(n, f)
    BY <1>2 DEF UpdateLabel, LabelKey, GetOrCreate, Known
  <1>3. CASE f \notin n.label_gauge_cache /\ CanRegister(n, f)
    <2>1. PICK c : c = Created(n, "label_gauge_cache", f, f, "label", name)
      OBVIOUS
    <2>2. GetOrCreate(n, "label_gauge_cache", f, f, "label", name) = c
      BY <1>3, <2>1 DEF GetOrCreate, Known
    <2>3. /\ c.families = Put(n.families, f, [kind |-> "label", by |-> name, samples |-> NoFunction])
          /\ c.label_gauge_cache = n.label_gauge_cache \cup {f}
          /\ c.counter_cache = n.counter_cache /\ c.gauge_cache = n.gauge_cache
          /\ c.trace_gauge_cache = n.trace_gauge_cache /\ c.counter_values = n.counter_values
      BY <2>1 DEF Created, ShapeOK
    <2>4. ShapeOK(c)
      BY <2>1, <2>3, PutFamily DEF ShapeOK, Created
    <2>5. m = SetSample(c, f, v, 1)
      BY <2>2, <2>3 DEF UpdateLabel, LabelKey, Known
    <2>6. Gains(n, m, f, "label", name, Put(Samples(n, f), v, 1)) /\ SameCaches(c, m)
      BY <1>3, <2>3, <2>4, <2>5, SampledNew
    <2> QED
      BY <2>3, <2>6 DEF SameCaches
  <1> QED
    BY <1>1, <1>2, <1>3

(* A field of a trace.                                                     *)
LEMMA FieldPushed ==
  ASSUME NEW n, ShapeOK(n), CachesOK(n), NEW trace, NEW field, NEW m, m = PushField(n, trace, field)
  PROVE  \/ m = n
         \/ \E f, by, ss :
              /\ Gains(n, m, f, "trace", by, ss)
              /\ m.trace_gauge_cache = n.trace_gauge_cache \cup {f}
              /\ m.counter_cache = n.counter_cache /\ m.gauge_cache = n.gauge_cache
              /\ m.label_gauge_cache = n.label_gauge_cache /\ m.counter_values = n.counter_values
  <1>1. PICK f : f = sanitise_name(Join(trace.namespace) \o <<"_">> \o field)
    OBVIOUS
  <1>2. PICK v : v = trace.fields[field][2]
    OBVIOUS
  <1>3. PICK c : c = GetOrCreate(n, "trace_gauge_cache", f, f, "trace", f)
    OBVIOUS
  <1>4. m = n \/ (m = SetSample(c, f, NoLabel, v) /\ f \in c.trace_gauge_cache)
    BY <1>1, <1>2, <1>3 DEF PushField, Known
  <1>5. CASE m = SetSample(c, f, NoLabel, v) /\ f \in n.trace_gauge_cache
    <2>1. c = n /\ IsFamily(n, f, "trace")
      BY <1>3, <1>5 DEF GetOrCreate, Known, CachesOK
    <2> QED
      BY <1>5, <2>1, SampledOld DEF SameCaches
  <1>6. CASE m = SetSample(c, f, NoLabel, v) /\ f \notin n.trace_gauge_cache
             /\ f \in c.trace_gauge_cache
    <2>1. CanRegister(n, f) /\ c = Created(n, "trace_gauge_cache", f, f, "trace", f)
      BY <1>3, <1>6 DEF GetOrCreate, Known
    <2>2. /\ c.families = Put(n.families, f, [kind |-> "trace", by |-> f, samples |-> NoFunction])
          /\ c.trace_gauge_cache = n.trace_gauge_cache \cup {f}
          /\ c.counter_cache = n.counter_cache /\ c.gauge_cache = n.gauge_cache
          /\ c.label_gauge_cache = n.label_gauge_cache /\ c.counter_values = n.counter_values
      BY <2>1 DEF Created, ShapeOK
    <2>3. ShapeOK(c)
      BY <2>1, <2>2, PutFamily DEF ShapeOK, Created
    <2>4. Gains(n, m, f, "trace", f, Put(Samples(n, f), NoLabel, v)) /\ SameCaches(c, m)
      BY <1>6, <2>1, <2>2, <2>3, SampledNew
    <2> QED
      BY <2>2, <2>4 DEF SameCaches
  <1> QED
    BY <1>4, <1>5, <1>6

(* How much a counter goes up, and its samples after that.                 *)
Rise(v, prev) == Max0(saturating_sub(v, prev))
Value(n, f) == IF NoLabel \in DOMAIN Samples(n, f) THEN Samples(n, f)[NoLabel] ELSE 0
Raised(n, f, d) == IF d > 0 THEN Put(Samples(n, f), NoLabel, Value(n, f) + d) ELSE Samples(n, f)
Before(n, name) == IF name \in DOMAIN n.counter_values THEN n.counter_values[name] ELSE 0

(* A counter of the poller.                                                *)
LEMMA CounterUpdated ==
  ASSUME NEW n, ShapeOK(n), CachesOK(n), NEW name, NEW v, NEW m, m = UpdateCounter(n, name, v),
         NEW f, f = sanitise_name(name)
  PROVE  \/ m = n /\ name \notin n.counter_cache /\ ~CanRegister(n, f)
         \/ /\ Gains(n, m, f, "counter", name, Raised(n, f, Rise(v, Before(n, name))))
            /\ m.counter_cache = n.counter_cache \cup {name}
            /\ m.counter_values = Put(n.counter_values, name, v)
            /\ m.gauge_cache = n.gauge_cache /\ m.label_gauge_cache = n.label_gauge_cache
            /\ m.trace_gauge_cache = n.trace_gauge_cache
            /\ name \in n.counter_cache \/ CanRegister(n, f)
  <1>1. CASE name \notin n.counter_cache /\ ~CanRegister(n, f)
    BY <1>1 DEF UpdateCounter, GetOrCreate, Known
  <1>2. CASE name \in n.counter_cache \/ CanRegister(n, f)
    <2>1. PICK c : c = GetOrCreate(n, "counter_cache", name, f, "counter", name)
      OBVIOUS
    <2>2. PICK d : d = Rise(v, Before(n, name))
      OBVIOUS
    <2>3. /\ ShapeOK(c) /\ f \in DOMAIN c.families
          /\ c.families[f] = [kind |-> "counter", by |-> name, samples |-> Samples(n, f)]
          /\ \A fam : Put(c.families, f, fam) = Put(n.families, f, fam)
          /\ c.counter_cache = n.counter_cache \cup {name} /\ c.counter_values = n.counter_values
          /\ c.gauge_cache = n.gauge_cache /\ c.label_gauge_cache = n.label_gauge_cache
          /\ c.trace_gauge_cache = n.trace_gauge_cache
          /\ (IsFamily(n, f, "counter") /\ n.families[f].by = name) \/ CanRegister(n, f)
      <3>1. CASE name \in n.counter_cache
        <4>1. c = n
          BY <2>1, <3>1 DEF GetOrCreate, Known
        <4>2. IsFamily(n, f, "counter") /\ n.families[f].by = name
          BY <3>1 DEF CachesOK
        <4>3. c.families[f] = [kind |-> "counter", by |-> name, samples |-> Samples(n, f)]
          BY <4>1, <4>2 DEF ShapeOK, FamiliesOK, IsFamily, Samples
        <4> QED
          BY <3>1, <4>1, <4>2, <4>3 DEF IsFamily
      <3>2. CASE name \notin n.counter_cache /\ CanRegister(n, f)
        <4>1. c = Created(n, "counter_cache", name, f, "counter", name)
          BY <2>1, <3>2 DEF GetOrCreate, Known
        <4>2. PICK new : new = [kind |-> "counter", by |-> name, samples |-> NoFunction]
          OBVIOUS
        <4>3. /\ c.families = Put(n.families, f, new) /\ c.counter_cache = n.counter_cache \cup {name}
              /\ c.label_gauge_cache = n.label_gauge_cache /\ c.gauge_cache = n.gauge_cache
              /\ c.trace_gauge_cache = n.trace_gauge_cache /\ c.counter_values = n.counter_values
          BY <4>1, <4>2 DEF Created, ShapeOK
        <4>4. ShapeOK(c)
          BY <4>1, <4>2, <4>3, PutFamily DEF ShapeOK, Created
        <4>5. Samples(n, f) = NoFunction
          BY <3>2 DEF CanRegister, Samples
        <4>6. f \in DOMAIN c.families /\ c.families[f] = new
          BY <4>3 DEF Put
        <4>7. \A fam : Put(c.families, f, fam) = Put(n.families, f, fam)
          BY <4>3, PutTwice
        <4> QED
          BY <3>2, <4>2, <4>3, <4>4, <4>5, <4>6, <4>7
      <3> QED
        BY <1>2, <3>1, <3>2
    <2>4. m = Remember(IF d > 0 THEN SetSample(c, f, NoLabel, Sample(c, f) + d) ELSE c, name, v)
      BY <2>1, <2>2, <2>3 DEF UpdateCounter, Rise, Before, Known
    <2>5. Sample(c, f) = Value(n, f)
      BY <2>3 DEF Sample, Value
    <2>6. PICK ss : ss = Raised(n, f, d)
      OBVIOUS
    <2>7. PICK e : e = IF d > 0 THEN SetSample(c, f, NoLabel, Sample(c, f) + d) ELSE c
      OBVIOUS
    <2>8. /\ ShapeOK(e) /\ SameCaches(c, e)
          /\ e.families = Put(n.families, f, [kind |-> "counter", by |-> name, samples |-> ss])
      <3>1. CASE d > 0
        <4>1. ss = Put(Samples(n, f), NoLabel, Sample(c, f) + d)
          BY <2>5, <2>6, <3>1 DEF Raised
        <4>2. e = SetSample(c, f, NoLabel, Sample(c, f) + d)
          BY <2>7, <3>1
        <4> QED
          BY <2>3, <4>1, <4>2, SampleSet
      <3>2. CASE ~(d > 0)
        <4>1. ss = Samples(n, f) /\ e = c
          BY <2>6, <2>7, <3>2 DEF Raised
        <4>2. c.families = Put(c.families, f, c.families[f])
          <5>1. c.families = [g \in DOMAIN c.families |-> c.families[g]]
            BY <2>3 DEF ShapeOK, FamiliesOK
          <5> QED
            BY <2>3, <5>1, PutAgain
        <4> QED
          BY <2>3, <4>1, <4>2 DEF SameCaches
      <3> QED
        BY <3>1, <3>2
    <2>9. m = [e EXCEPT !.counter_values = Put(@, name, v)]
      BY <2>4, <2>7 DEF Remember
    <2>10. /\ m.families = e.families /\ m.counter_values = Put(e.counter_values, name, v)
           /\ m.gauge_cache = e.gauge_cache /\ m.counter_cache = e.counter_cache
           /\ m.label_gauge_cache = e.label_gauge_cache /\ m.trace_gauge_cache = e.trace_gauge_cache
      BY <2>8, <2>9 DEF ShapeOK
    <2>11. ShapeOK(m)
      BY <2>8, <2>9, <2>10 DEF ShapeOK
    <2>12. Gains(n, m, f, "counter", name, ss)
      BY <2>3, <2>8, <2>10, <2>11 DEF Gains
    <2> QED
      BY <1>2, <2>2, <2>3, <2>6, <2>8, <2>10, <2>12 DEF SameCaches
  <1> QED
    BY <1>1, <1>2

-----------------------------------------------------------------------------
(* What stays as it was                                                    *)

(* Families stay, with their kind and their owner; only f gets a value.    *)
LEMMA GainsFacts ==
  ASSUME NEW n, NEW m, NEW f, NEW kind, NEW by, NEW ss, Gains(n, m, f, kind, by, ss)
  PROVE  /\ IsFamily(m, f, kind) /\ m.families[f].by = by /\ m.families[f].samples = ss
         /\ DOMAIN m.families = DOMAIN n.families \cup {f}
         /\ \A g \in DOMAIN n.families \ {f} : m.families[g] = n.families[g]
         /\ f \in DOMAIN n.families => IsFamily(n, f, kind) /\ n.families[f].by = by
         /\ \A g : CanRegister(m, g) => CanRegister(n, g)
  <1>1. PICK fam : fam = [kind |-> kind, by |-> by, samples |-> ss]
    OBVIOUS
  <1>2. m.families = Put(n.families, f, fam)
    BY <1>1 DEF Gains
  <1>3. /\ DOMAIN m.families = DOMAIN n.families \cup {f} /\ m.families[f] = fam
        /\ \A g \in DOMAIN n.families \ {f} : m.families[g] = n.families[g]
    BY <1>2 DEF Put
  <1>4. fam.kind = kind /\ fam.by = by /\ fam.samples = ss
    BY <1>1
  <1>5. f \in DOMAIN n.families => IsFamily(n, f, kind) /\ n.families[f].by = by
    BY DEF Gains, CanRegister
  <1>6. \A g : CanRegister(m, g) => CanRegister(n, g)
    BY <1>3 DEF CanRegister
  <1> QED
    BY <1>3, <1>4, <1>5, <1>6 DEF IsFamily

(* Families of other kinds are the same.                                   *)
LEMMA OtherKinds ==
  ASSUME NEW n, NEW m, NEW f, NEW kind, NEW by, NEW ss, Gains(n, m, f, kind, by, ss),
         NEW other, other # kind
  PROVE  \A g : /\ IsFamily(m, g, other) <=> IsFamily(n, g, other)
                /\ IsFamily(n, g, other) => g # f /\ m.families[g] = n.families[g]
  BY GainsFacts DEF IsFamily

(* What is known of it, by its kind.                                       *)
CacheGains(n, m, f, kind, by) ==
  /\ m.gauge_cache = n.gauge_cache \cup (IF kind = "gauge" THEN {by} ELSE {})
  /\ m.counter_cache = n.counter_cache \cup (IF kind = "counter" THEN {by} ELSE {})
  /\ m.label_gauge_cache = n.label_gauge_cache \cup (IF kind = "label" THEN {f} ELSE {})
  /\ m.trace_gauge_cache = n.trace_gauge_cache \cup (IF kind = "trace" THEN {f} ELSE {})
  /\ kind \in {"gauge", "counter"} => sanitise_name(by) = f

(* The caches stay right.                                                  *)
LEMMA CachesStay ==
  ASSUME NEW n, NEW m, NEW f, NEW kind \in {"gauge", "counter", "label", "trace"}, NEW by, NEW ss,
         CachesOK(n), Gains(n, m, f, kind, by, ss), CacheGains(n, m, f, kind, by)
  PROVE  CachesOK(m)
  <1>1. /\ IsFamily(m, f, kind) /\ m.families[f].by = by
        /\ DOMAIN m.families = DOMAIN n.families \cup {f}
        /\ \A g \in DOMAIN n.families \ {f} : m.families[g] = n.families[g]
        /\ f \in DOMAIN n.families => IsFamily(n, f, kind) /\ n.families[f].by = by
    BY GainsFacts
  <1>2. \A g \in DOMAIN n.families :
          /\ \A k : IsFamily(n, g, k) => IsFamily(m, g, k)
          /\ m.families[g].by = n.families[g].by
    BY <1>1 DEF IsFamily
  <1>3. ASSUME NEW name \in m.gauge_cache
        PROVE  /\ IsFamily(m, sanitise_name(name), "gauge")
               /\ m.families[sanitise_name(name)].by = name
    <2>1. CASE name \in n.gauge_cache
      BY <1>2, <2>1 DEF CachesOK, IsFamily
    <2>2. CASE name \notin n.gauge_cache
      BY <1>1, <1>3, <2>2 DEF CacheGains
    <2> QED
      BY <2>1, <2>2
  <1>4. ASSUME NEW name \in m.counter_cache
        PROVE  /\ IsFamily(m, sanitise_name(name), "counter")
               /\ m.families[sanitise_name(name)].by = name
    <2>1. CASE name \in n.counter_cache
      BY <1>2, <2>1 DEF CachesOK, IsFamily
    <2>2. CASE name \notin n.counter_cache
      BY <1>1, <1>4, <2>2 DEF CacheGains
    <2> QED
      BY <2>1, <2>2
  <1>5. \A g \in m.label_gauge_cache : IsFamily(m, g, "label")
    BY <1>1, <1>2 DEF CachesOK, CacheGains, IsFamily
  <1>6. \A g \in m.trace_gauge_cache : IsFamily(m, g, "trace")
    BY <1>1, <1>2 DEF CachesOK, CacheGains, IsFamily
  <1>7. ASSUME NEW g \in DOMAIN m.families
        PROVE  /\ IsFamily(m, g, "gauge") =>
                    m.families[g].by \in m.gauge_cache /\ sanitise_name(m.families[g].by) = g
               /\ IsFamily(m, g, "label") => g \in m.label_gauge_cache
    <2>1. CASE g = f
      BY <1>1, <2>1 DEF CacheGains, IsFamily
    <2>2. CASE g # f
      BY <1>1, <1>7, <2>2 DEF CachesOK, CacheGains, IsFamily
    <2> QED
      BY <2>1, <2>2
  <1> QED
    BY <1>3, <1>4, <1>5, <1>6, <1>7 DEF CachesOK

(* The histories agree on the metrics of a kind.                           *)
Alike(h, k, kind) ==
  \A key : key[1] = kind => /\ key \in DOMAIN h <=> key \in DOMAIN k
                            /\ key \in DOMAIN h => k[key] = h[key]

(* Gauges are not changed by metrics of another kind.                      *)
LEMMA GaugesStay ==
  ASSUME NEW n, NEW m, NEW f, NEW kind, kind # "gauge", NEW by, NEW ss, Gains(n, m, f, kind, by, ss),
         NEW h, NEW k, Alike(h, k, "gauge"), GaugesOK(n, h)
  PROVE  GaugesOK(m, k)
  <1> SUFFICES ASSUME NEW g, IsFamily(m, g, "gauge")
               PROVE  /\ Key("gauge", m.families[g].by) \in DOMAIN k
                      /\ Sample(m, g) = Last(k[Key("gauge", m.families[g].by)])
    BY DEF GaugesOK
  <1>1. IsFamily(n, g, "gauge") /\ m.families[g] = n.families[g]
    BY OtherKinds
  <1>2. PICK key : key = Key("gauge", n.families[g].by)
    OBVIOUS
  <1>3. key \in DOMAIN h /\ Sample(n, g) = Last(h[key])
    BY <1>1, <1>2 DEF GaugesOK, IsFamily
  <1>4. key \in DOMAIN k /\ k[key] = h[key]
    BY <1>2, <1>3 DEF Alike, Key
  <1>5. Sample(m, g) = Sample(n, g)
    BY <1>1 DEF Sample
  <1> QED
    BY <1>1, <1>2, <1>3, <1>4, <1>5

(* Nor are labels.                                                         *)
LEMMA LabelsStay ==
  ASSUME NEW n, NEW m, NEW f, NEW kind, kind # "label", NEW by, NEW ss, Gains(n, m, f, kind, by, ss),
         NEW h, NEW k, Alike(h, k, "label"), LabelsOK(n, h)
  PROVE  LabelsOK(m, k)
  <1>1. \A g : IsFamily(m, g, "label") => IsFamily(n, g, "label") /\ m.families[g] = n.families[g]
    BY OtherKinds
  <1>2. ASSUME NEW key \in DOMAIN k, key[1] = "label", NEW g, g = InfoName(key[2]), ValidName(g)
        PROVE  /\ g \in DOMAIN m.families
               /\ IsFamily(m, g, "label") => Last(k[key]) \in DOMAIN m.families[g].samples
    <2>1. key \in DOMAIN h /\ k[key] = h[key]
      BY <1>2 DEF Alike
    <2>2. /\ g \in DOMAIN n.families
          /\ IsFamily(n, g, "label") => Last(h[key]) \in DOMAIN n.families[g].samples
      BY <1>2, <2>1 DEF LabelsOK
    <2>3. g \in DOMAIN m.families
      BY <2>2, GainsFacts
    <2> QED
      BY <1>1, <2>1, <2>2, <2>3
  <1>3. ASSUME NEW g, IsFamily(m, g, "label")
        PROVE  DOMAIN m.families[g].samples \subseteq TextsOf(k, g)
    <2>1. DOMAIN m.families[g].samples \subseteq TextsOf(h, g)
      BY <1>1, <1>3 DEF LabelsOK, IsFamily
    <2>2. TextsOf(h, g) \subseteq TextsOf(k, g)
      BY DEF TextsOf, Alike
    <2> QED
      BY <2>1, <2>2
  <1> QED
    BY <1>2, <1>3 DEF LabelsOK, IsFamily

(* Nor counters.                                                           *)
LEMMA CountersStay ==
  ASSUME NEW n, NEW m, NEW f, NEW kind, kind # "counter", NEW by, NEW ss, Gains(n, m, f, kind, by, ss),
         CachesOK(n), m.counter_cache = n.counter_cache, m.counter_values = n.counter_values,
         NEW h, NEW k, Alike(h, k, "counter"), CountersOK(n, h)
  PROVE  CountersOK(m, k)
  <1>1. DOMAIN m.counter_values = m.counter_cache
    BY DEF CountersOK
  <1>2. ASSUME NEW name \in m.counter_cache, NEW key, key = Key("counter", name)
        PROVE  /\ key \in DOMAIN k /\ m.counter_values[name] = Last(k[key])
               /\ Sample(m, sanitise_name(name)) = Rises(k[key])
    <2>1. /\ key \in DOMAIN h /\ m.counter_values[name] = Last(h[key])
          /\ Sample(n, sanitise_name(name)) = Rises(h[key])
      BY <1>2 DEF CountersOK
    <2>2. key \in DOMAIN k /\ k[key] = h[key]
      BY <1>2, <2>1 DEF Alike, Key
    <2>3. IsFamily(n, sanitise_name(name), "counter")
      BY DEF CachesOK
    <2>4. m.families[sanitise_name(name)] = n.families[sanitise_name(name)]
      BY <2>3, OtherKinds
    <2>5. Sample(m, sanitise_name(name)) = Sample(n, sanitise_name(name))
      BY <2>4 DEF Sample
    <2> QED
      BY <2>1, <2>2, <2>5
  <1>3. ASSUME NEW key \in DOMAIN k, key[1] = "counter", key[2] \notin m.counter_cache
        PROVE  ~CanRegister(m, sanitise_name(key[2]))
    <2>1. key \in DOMAIN h
      BY <1>3 DEF Alike
    <2>2. ~CanRegister(n, sanitise_name(key[2]))
      BY <1>3, <2>1 DEF CountersOK
    <2> QED
      BY <2>2, GainsFacts
  <1> QED
    BY <1>1, <1>2, <1>3 DEF CountersOK

-----------------------------------------------------------------------------
(* The rises of a counter                                                  *)

From(h, i) == IF i = 1 THEN 0 ELSE h[i - 1]

(* R adds up the rises of h.                                               *)
AddsUp(R, h) ==
  /\ R \in [0..Len(h) -> Int] /\ R[0] = 0 /\ R[Len(h)] = Rises(h)
  /\ \A i \in 1..Len(h) : R[i] = R[i - 1] + Rise(h[i], From(h, i))

(* Rises adds up one rise after the other.                                 *)
LEMMA RisesSteps ==
  ASSUME NEW h \in Seq(Int)
  PROVE  \E R : AddsUp(R, h)
  <1> DEFINE N == Len(h)
             rise(i) == Rise(h[i], From(h, i))
             add(n, r) == IF n + 1 \in 1..N THEN r + rise(n + 1) ELSE r
             step == [a \in Nat \X Int |-> add(a[1], a[2])]
             sum(G) == [i \in 0..N |-> IF i = 0 THEN 0 ELSE G[i - 1] + rise(i)]
  <1>1. N \in Nat /\ \A i \in 1..N : rise(i) \in Int
    <2>1. N \in Nat /\ \A i \in 1..N : h[i] \in Int /\ From(h, i) \in Int
      BY LenProperties, ElementOfSeq DEF From
    <2>2. \A x, y \in Int : Rise(x, y) \in Int
      BY MetricsBounds DEF Rise, Max0, saturating_sub
    <2> QED
      BY <2>1, <2>2
  <1> HIDE DEF rise
  <1>2. step \in [Nat \X Int -> Int] /\ \A n \in Nat, r \in Int : step[<<n, r>>] = add(n, r)
    BY <1>1
  <1>3. PICK F : Iterates(F, Int, 0, step)
    <2> DEFINE V == Int
               v == 0
    <2>1. v \in V /\ step \in [Nat \X V -> V]
      BY <1>2
    <2> HIDE DEF step, V, v
    <2>2. \E F : Iterates(F, V, v, step)
      BY <2>1, Recursion
    <2> QED
      BY <2>2 DEF V, v
  <1>4. /\ F \in [Nat -> Int] /\ F[0] = 0
        /\ \A i \in 1..N : i - 1 \in 0..N /\ i \in 0..N /\ F[i] = F[i - 1] + rise(i)
    <2>1. F \in [Nat -> Int] /\ F[0] = 0 /\ \A n \in Nat : F[n + 1] = step[<<n, F[n]>>]
      BY <1>3 DEF Iterates
    <2> HIDE DEF step
    <2>2. ASSUME NEW i \in 1..N
          PROVE  i - 1 \in 0..N /\ i \in 0..N /\ F[i] = F[i - 1] + rise(i)
      <3>1. i - 1 \in Nat /\ (i - 1) + 1 = i /\ i - 1 \in 0..N /\ i \in 0..N
        BY <1>1
      <3>2. F[i] = step[<<i - 1, F[i - 1]>>] /\ F[i - 1] \in Int
        BY <2>1, <3>1
      <3> QED
        BY <1>2, <3>1, <3>2
    <2> QED
      BY <2>1, <2>2
  <1> DEFINE G == [i \in 0..N |-> F[i]]
             H == CHOOSE f : f = sum(f)
  <1>5. G \in [0..N -> Int] /\ G[0] = 0 /\ \A i \in 1..N : G[i] = G[i - 1] + rise(i)
    <2>1. G \in [0..N -> Int] /\ G[0] = 0
      BY <1>1, <1>4
    <2>2. \A i \in 1..N : G[i] = F[i] /\ G[i - 1] = F[i - 1]
      BY <1>4
    <2> HIDE DEF G
    <2> QED
      BY <1>4, <2>1, <2>2
  <1>6. G = sum(G)
    <2>1. \A i \in 0..N : i = 0 \/ i \in 1..N
      BY <1>1
    <2>2. \A i \in 0..N : F[i] = IF i = 0 THEN 0 ELSE G[i - 1] + rise(i)
      BY <1>4, <1>5, <2>1
    <2> QED
      BY <2>2
  <1>7. H = sum(H)
    <2> HIDE DEF G, sum
    <2> QED
      BY <1>6
  <1>8. Rises(h) = H[N]
    BY DEF Rises, Rise, From, rise
  <1> HIDE DEF H
  <1>9. H[0] = 0 /\ \A i \in 1..N : H[i] = H[i - 1] + rise(i)
    <2>1. sum(H)[0] = 0 /\ \A i \in 1..N : sum(H)[i] = H[i - 1] + rise(i)
      BY <1>1, <1>4
    <2> HIDE DEF sum
    <2> QED
      BY <1>7, <2>1
  <1> HIDE DEF G, N
  <1>10. Agree(G, H, N)
    BY <1>1, <1>5, <1>9, SameSteps
  <1>11. N \in 0..N
    BY <1>1
  <1>12. G[N] = Rises(h)
    BY <1>8, <1>10, <1>11 DEF Agree
  <1> QED
    BY <1>5, <1>12 DEF AddsUp, rise, N

(* One value more, and the counter has risen by what that is more than the *)
(* last.                                                                   *)
LEMMA RisesAppend ==
  ASSUME NEW h \in Seq(Int), NEW v \in Int
  PROVE  /\ Rises(h) \in Int
         /\ Rises(Append(h, v)) = Rises(h) + Rise(v, IF h = << >> THEN 0 ELSE Last(h))
  <1> DEFINE t == Append(h, v)
             n == Len(h)
  <1>1. /\ t \in Seq(Int) /\ n \in Nat /\ Len(t) = n + 1 /\ t[n + 1] = v
        /\ \A i \in 1..n : t[i] = h[i]
    BY AppendProperties, LenProperties
  <1>2. PICK R : AddsUp(R, h)
    BY RisesSteps
  <1>3. PICK T : AddsUp(T, t)
    BY <1>1, RisesSteps
  <1> HIDE DEF t
  <1>4. /\ T[0] = 0 /\ T[n + 1] = Rises(t)
        /\ \A i \in 1..(n + 1) : T[i] = T[i - 1] + Rise(t[i], From(t, i))
    BY <1>1, <1>3 DEF AddsUp
  <1>5. /\ R[0] = 0 /\ R[n] = Rises(h) /\ R[n] \in Int
        /\ \A i \in 1..n : R[i] = R[i - 1] + Rise(h[i], From(h, i))
    BY <1>1, <1>2 DEF AddsUp
  <1> HIDE DEF n
  <1>6. ASSUME NEW i \in 1..n
        PROVE  t[i] = h[i] /\ From(t, i) = From(h, i) /\ i \in 1..(n + 1)
    <2>1. i = 1 \/ i - 1 \in 1..n
      BY <1>1
    <2> QED
      BY <1>1, <2>1 DEF From
  <1>7. \A i \in 1..n : R[i - 1] = T[i - 1] => R[i] = T[i]
    BY <1>4, <1>5, <1>6
  <1>8. Agree(R, T, n)
    BY <1>1, <1>4, <1>5, <1>7, SameSteps
  <1>9. T[n] = Rises(h)
    BY <1>1, <1>5, <1>8 DEF Agree
  <1>10. From(t, n + 1) = IF h = << >> THEN 0 ELSE Last(h)
    <2>1. h = << >> <=> n = 0
      BY EmptySeq DEF n
    <2>2. n # 0 => From(t, n + 1) = h[n]
      BY <1>1 DEF From
    <2>3. n = 0 => From(t, n + 1) = 0
      BY DEF From
    <2> QED
      BY <2>1, <2>2, <2>3 DEF Last, n
  <1>11. Rises(t) = T[n] + Rise(t[n + 1], From(t, n + 1))
    <2>1. n + 1 \in 1..(n + 1) /\ (n + 1) - 1 = n
      BY <1>1
    <2> QED
      BY <1>4, <2>1
  <1> QED
    BY <1>1, <1>5, <1>9, <1>10, <1>11 DEF t

(* A counter nobody has reported has not risen.                            *)
LEMMA RisesEmpty == Rises(<< >>) = 0
  <1>1. << >> \in Seq(Int) /\ Len(<< >>) = 0
    BY EmptySeq
  <1>2. PICK R : AddsUp(R, << >>)
    BY <1>1, RisesSteps
  <1> QED
    BY <1>1, <1>2 DEF AddsUp

-----------------------------------------------------------------------------
(* A metric is applied                                                     *)

(* A value more of what was seen.                                          *)
Noted(h, key, v) == Put(h, key, Append(IF key \in DOMAIN h THEN h[key] ELSE << >>, v))

(* It is the last one, and none is forgotten.                              *)
LEMMA NotedFacts ==
  ASSUME NEW h, SeenOK(h), NEW kind, NEW name, NEW v, kind = "counter" => v \in Int,
         NEW key, key = Key(kind, name), NEW k, k = Noted(h, key, v)
  PROVE  /\ SeenOK(k) /\ DOMAIN k = DOMAIN h \cup {key}
         /\ \A x \in DOMAIN h \ {key} : k[x] = h[x]
         /\ Last(k[key]) = v /\ v \in Range(k[key])
         /\ \A x \in DOMAIN h : Range(h[x]) \subseteq Range(k[x])
  <1>1. PICK old : old = IF key \in DOMAIN h THEN h[key] ELSE << >>
    OBVIOUS
  <1>2. /\ DOMAIN k = DOMAIN h \cup {key} /\ k[key] = Append(old, v)
        /\ \A x \in DOMAIN h \ {key} : k[x] = h[x]
    BY <1>1 DEF Noted, Put
  <1>3. key = Key(key[1], key[2]) /\ key[1] = kind /\ key[2] = name
    BY DEF Key
  <1>4. old \in Seq(Range(old)) /\ (kind = "counter" => old \in Seq(Int))
    BY <1>1, <1>3, EmptySeq DEF SeenOK
  <1>5. /\ Append(old, v) \in Seq(Range(old) \cup {v})
        /\ Range(Append(old, v)) = Range(old) \cup {v}
        /\ Append(old, v) # << >> /\ Last(Append(old, v)) = v
    <2> DEFINE S == Range(old) \cup {v}
    <2>1. old \in Seq(S) /\ v \in S
      BY <1>4, SeqMonotonic
    <2> HIDE DEF S
    <2>2. Range(Append(old, v)) = Range(old) \cup {v}
      BY <2>1, RangeAppend
    <2>3. /\ Append(old, v) \in Seq(S) /\ Append(old, v) # << >>
          /\ Len(Append(old, v)) = Len(old) + 1 /\ Append(old, v)[Len(old) + 1] = v
      BY <2>1, AppendProperties
    <2> QED
      BY <2>2, <2>3 DEF Last, S
  <1>6. kind = "counter" => k[key] \in Seq(Int)
    BY <1>2, <1>4, AppendProperties
  <1>7. SeenOK(k)
    <2> SUFFICES ASSUME NEW x \in DOMAIN k
                 PROVE  /\ x = Key(x[1], x[2])
                        /\ k[x] \in Seq(Range(k[x])) /\ k[x] # << >>
                        /\ x[1] = "counter" => k[x] \in Seq(Int)
      BY DEF SeenOK
    <2>1. CASE x = key
      BY <1>2, <1>3, <1>5, <1>6, <2>1
    <2>2. CASE x # key
      <3>1. x \in DOMAIN h /\ k[x] = h[x]
        BY <1>2, <2>2
      <3> QED
        BY <3>1 DEF SeenOK
    <2> QED
      BY <2>1, <2>2
  <1>8. \A x \in DOMAIN h : Range(h[x]) \subseteq Range(k[x])
    BY <1>1, <1>2, <1>5
  <1> QED
    BY <1>2, <1>5, <1>7, <1>8

(* The histories of other kinds are the same.                              *)
LEMMA NotedAlike ==
  ASSUME NEW h, NEW kind, NEW name, NEW v, NEW k, k = Noted(h, Key(kind, name), v),
         NEW other, other # kind
  PROVE  Alike(h, k, other)
  BY DEF Noted, Key, Alike, Put

(* The poller's gauge is what its metric was last.                         *)
LEMMA GaugeApplied ==
  ASSUME NEW n, NEW h, NodeOK(n, h), NEW name, NEW v, NEW m, m = UpdateGauge(n, name, v),
         NEW k, k = Noted(h, Key("gauge", name), v)
  PROVE  NodeOK(m, k)
  <1>1. PICK f : f = sanitise_name(name)
    OBVIOUS
  <1>2. PICK key : key = Key("gauge", name)
    OBVIOUS
  <1>3. /\ ShapeOK(n) /\ CachesOK(n) /\ GaugesOK(n, h) /\ LabelsOK(n, h) /\ CountersOK(n, h) /\ SeenOK(h)
    BY DEF NodeOK
  <1>4. /\ SeenOK(k) /\ DOMAIN k = DOMAIN h \cup {key}
        /\ \A x \in DOMAIN h \ {key} : k[x] = h[x]
        /\ Last(k[key]) = v
    BY <1>2, <1>3, NotedFacts
  <1>5. Alike(h, k, "label") /\ Alike(h, k, "counter")
    BY NotedAlike
  <1>6. \A by : Key("gauge", by) = key <=> by = name
    BY <1>2 DEF Key
  <1>7. CASE m = n /\ name \notin n.gauge_cache /\ ~CanRegister(n, f)
    <2>1. GaugesOK(n, k)
      <3> SUFFICES ASSUME NEW g \in DOMAIN n.families, IsFamily(n, g, "gauge"), NEW by, by = n.families[g].by
                   PROVE  Key("gauge", by) \in DOMAIN k /\ Sample(n, g) = Last(k[Key("gauge", by)])
        BY DEF GaugesOK
      <3>1. by \in n.gauge_cache
        BY <1>3 DEF CachesOK
      <3>2. Key("gauge", by) \in DOMAIN h \ {key} /\ Sample(n, g) = Last(h[Key("gauge", by)])
        BY <1>3, <1>6, <1>7, <3>1 DEF GaugesOK
      <3> QED
        BY <1>4, <3>2
    <2>2. LabelsOK(n, k)
      BY <1>3, <1>5 DEF LabelsOK, Alike, TextsOf
    <2>3. CountersOK(n, k)
      BY <1>3, <1>5 DEF CountersOK, Alike, Key
    <2> QED
      BY <1>3, <1>4, <1>7, <2>1, <2>2, <2>3 DEF NodeOK
  <1>8. CASE /\ Gains(n, m, f, "gauge", name, Put(Samples(n, f), NoLabel, v))
             /\ m.gauge_cache = n.gauge_cache \cup {name}
             /\ m.counter_cache = n.counter_cache /\ m.label_gauge_cache = n.label_gauge_cache
             /\ m.trace_gauge_cache = n.trace_gauge_cache /\ m.counter_values = n.counter_values
    <2>1. PICK ss : ss = Put(Samples(n, f), NoLabel, v)
      OBVIOUS
    <2>2. Gains(n, m, f, "gauge", name, ss) /\ ShapeOK(m)
      BY <1>8, <2>1 DEF Gains
    <2>3. CacheGains(n, m, f, "gauge", name)
      BY <1>1, <1>8 DEF CacheGains
    <2>4. CachesOK(m)
      BY <1>3, <2>2, <2>3, CachesStay
    <2>5. /\ m.families[f].by = name /\ m.families[f].samples = ss
          /\ DOMAIN m.families = DOMAIN n.families \cup {f}
          /\ \A g \in DOMAIN n.families \ {f} : m.families[g] = n.families[g]
      BY <2>2, GainsFacts
    <2>6. Sample(m, f) = v
      BY <2>1, <2>5 DEF Put, Sample
    <2>7. GaugesOK(m, k)
      <3> SUFFICES ASSUME NEW g \in DOMAIN m.families, IsFamily(m, g, "gauge"), NEW by, by = m.families[g].by
                   PROVE  Key("gauge", by) \in DOMAIN k /\ Sample(m, g) = Last(k[Key("gauge", by)])
        BY DEF GaugesOK
      <3>1. CASE g = f
        BY <1>4, <1>6, <2>5, <2>6, <3>1
      <3>2. CASE g # f
        <4>1. g \in DOMAIN n.families /\ m.families[g] = n.families[g]
          BY <2>5, <3>2
        <4>2. IsFamily(n, g, "gauge") /\ by = n.families[g].by /\ Sample(m, g) = Sample(n, g)
          BY <4>1 DEF IsFamily, Sample
        <4>3. sanitise_name(by) = g
          BY <1>3, <4>1, <4>2 DEF CachesOK
        <4>4. Key("gauge", by) \in DOMAIN h \ {key} /\ Sample(n, g) = Last(h[Key("gauge", by)])
          BY <1>1, <1>3, <1>6, <3>2, <4>1, <4>2, <4>3 DEF GaugesOK
        <4> QED
          BY <1>4, <4>2, <4>4
      <3> QED
        BY <3>1, <3>2
    <2>8. LabelsOK(m, k)
      BY <1>3, <1>5, <2>2, LabelsStay
    <2>9. CountersOK(m, k)
      BY <1>3, <1>5, <1>8, <2>2, CountersStay
    <2> QED
      BY <1>4, <2>2, <2>4, <2>7, <2>8, <2>9 DEF NodeOK
  <1> QED
    BY <1>1, <1>3, <1>7, <1>8, GaugeUpdated

(* A label shows its new text, beside the earlier ones.                    *)
LEMMA LabelApplied ==
  ASSUME NEW n, NEW h, NodeOK(n, h), NEW name, NEW v, NEW m, m = UpdateLabel(n, name, v),
         NEW k, k = Noted(h, Key("label", name), v)
  PROVE  NodeOK(m, k)
  <1>1. PICK f : f = InfoName(name)
    OBVIOUS
  <1>2. PICK key : key = Key("label", name)
    OBVIOUS
  <1>3. /\ ShapeOK(n) /\ CachesOK(n) /\ GaugesOK(n, h) /\ LabelsOK(n, h) /\ CountersOK(n, h) /\ SeenOK(h)
    BY DEF NodeOK
  <1>4. /\ SeenOK(k) /\ DOMAIN k = DOMAIN h \cup {key}
        /\ \A x \in DOMAIN h \ {key} : k[x] = h[x]
        /\ Last(k[key]) = v /\ v \in Range(k[key])
        /\ \A x \in DOMAIN h : Range(h[x]) \subseteq Range(k[x])
    BY <1>2, <1>3, NotedFacts
  <1>5. Alike(h, k, "gauge") /\ Alike(h, k, "counter")
    BY NotedAlike
  <1>6. key[1] = "label" /\ key[2] = name
    BY <1>2 DEF Key
  <1>7. /\ \A g : TextsOf(h, g) \subseteq TextsOf(k, g)
        /\ v \in TextsOf(k, f)
    BY <1>1, <1>4, <1>6 DEF TextsOf
  <1>8. CASE m = n /\ f \notin n.label_gauge_cache /\ ~CanRegister(n, f)
    <2>1. GaugesOK(n, k)
      BY <1>3, <1>5 DEF GaugesOK, Alike, Key
    <2>2. LabelsOK(n, k)
      <3>1. ASSUME NEW x \in DOMAIN k, x[1] = "label", NEW g, g = InfoName(x[2]), ValidName(g)
            PROVE  /\ g \in DOMAIN n.families
                   /\ IsFamily(n, g, "label") => Last(k[x]) \in DOMAIN n.families[g].samples
        <4>1. CASE x = key
          <5>1. g = f /\ f \in DOMAIN n.families
            BY <1>1, <1>6, <1>8, <3>1, <4>1 DEF CanRegister
          <5>2. ~IsFamily(n, f, "label")
            BY <1>3, <1>8, <5>1 DEF CachesOK
          <5> QED
            BY <5>1, <5>2
        <4>2. CASE x # key
          BY <1>3, <1>4, <3>1, <4>2 DEF LabelsOK
        <4> QED
          BY <4>1, <4>2
      <3>2. \A g \in DOMAIN n.families :
              IsFamily(n, g, "label") => DOMAIN n.families[g].samples \subseteq TextsOf(k, g)
        BY <1>3, <1>7 DEF LabelsOK
      <3> QED
        BY <3>1, <3>2 DEF LabelsOK
    <2>3. CountersOK(n, k)
      BY <1>3, <1>5 DEF CountersOK, Alike, Key
    <2> QED
      BY <1>3, <1>4, <1>8, <2>1, <2>2, <2>3 DEF NodeOK
  <1>9. CASE /\ \E by : Gains(n, m, f, "label", by, Put(Samples(n, f), v, 1))
             /\ m.label_gauge_cache = n.label_gauge_cache \cup {f}
             /\ m.counter_cache = n.counter_cache /\ m.gauge_cache = n.gauge_cache
             /\ m.trace_gauge_cache = n.trace_gauge_cache /\ m.counter_values = n.counter_values
    <2>1. PICK ss : ss = Put(Samples(n, f), v, 1)
      OBVIOUS
    <2>2. PICK by : Gains(n, m, f, "label", by, ss)
      BY <1>9, <2>1
    <2>3. CacheGains(n, m, f, "label", by)
      BY <1>1, <1>9 DEF CacheGains
    <2>4. CachesOK(m) /\ ShapeOK(m)
      BY <1>3, <2>2, <2>3, CachesStay DEF Gains
    <2>5. /\ IsFamily(m, f, "label") /\ m.families[f].samples = ss
          /\ DOMAIN m.families = DOMAIN n.families \cup {f}
          /\ \A g \in DOMAIN n.families \ {f} : m.families[g] = n.families[g]
          /\ f \in DOMAIN n.families => IsFamily(n, f, "label")
      BY <2>2, GainsFacts
    <2>6. /\ DOMAIN ss = DOMAIN Samples(n, f) \cup {v}
          /\ f \in DOMAIN n.families => Samples(n, f) = n.families[f].samples
          /\ f \notin DOMAIN n.families => DOMAIN Samples(n, f) = {}
      BY <2>1 DEF Put, Samples, NoFunction
    <2>7. LabelsOK(m, k)
      <3>1. ASSUME NEW x \in DOMAIN k, x[1] = "label", NEW g, g = InfoName(x[2]), ValidName(g)
            PROVE  /\ g \in DOMAIN m.families
                   /\ IsFamily(m, g, "label") => Last(k[x]) \in DOMAIN m.families[g].samples
        <4>1. CASE x = key
          BY <1>1, <1>4, <1>6, <2>5, <2>6, <3>1, <4>1
        <4>2. CASE x # key
          <5>1. x \in DOMAIN h /\ k[x] = h[x]
            BY <1>4, <4>2
          <5>2. /\ g \in DOMAIN n.families
                /\ IsFamily(n, g, "label") => Last(h[x]) \in DOMAIN n.families[g].samples
            BY <1>3, <3>1, <5>1 DEF LabelsOK
          <5>3. CASE g = f
            BY <2>5, <2>6, <5>1, <5>2, <5>3
          <5>4. CASE g # f
            BY <2>5, <5>1, <5>2, <5>4 DEF IsFamily
          <5> QED
            BY <5>3, <5>4
        <4> QED
          BY <4>1, <4>2
      <3>2. ASSUME NEW g \in DOMAIN m.families, IsFamily(m, g, "label")
            PROVE  DOMAIN m.families[g].samples \subseteq TextsOf(k, g)
        <4>1. CASE g = f
          <5>1. DOMAIN Samples(n, f) \subseteq TextsOf(h, f)
            BY <1>3, <2>5, <2>6 DEF LabelsOK
          <5> QED
            BY <1>7, <2>5, <2>6, <4>1, <5>1
        <4>2. CASE g # f
          <5>1. g \in DOMAIN n.families /\ m.families[g] = n.families[g] /\ IsFamily(n, g, "label")
            BY <2>5, <3>2, <4>2 DEF IsFamily
          <5>2. DOMAIN n.families[g].samples \subseteq TextsOf(h, g)
            BY <1>3, <5>1 DEF LabelsOK
          <5> QED
            BY <1>7, <5>1, <5>2
        <4> QED
          BY <4>1, <4>2
      <3> QED
        BY <3>1, <3>2 DEF LabelsOK
    <2>8. GaugesOK(m, k)
      BY <1>3, <1>5, <2>2, GaugesStay
    <2>9. CountersOK(m, k)
      BY <1>3, <1>5, <1>9, <2>2, CountersStay
    <2> QED
      BY <1>4, <2>4, <2>7, <2>8, <2>9 DEF NodeOK
  <1> QED
    BY <1>1, <1>3, <1>8, <1>9, LabelUpdated

(* A counter goes up by what the node's has grown since the last poll.     *)
LEMMA CounterApplied ==
  ASSUME NEW n, NEW h, NodeOK(n, h), NEW name, NEW v \in Int, NEW m, m = UpdateCounter(n, name, v),
         NEW k, k = Noted(h, Key("counter", name), v)
  PROVE  NodeOK(m, k)
  <1>1. PICK f : f = sanitise_name(name)
    OBVIOUS
  <1>2. PICK key : key = Key("counter", name)
    OBVIOUS
  <1>3. /\ ShapeOK(n) /\ CachesOK(n) /\ GaugesOK(n, h) /\ LabelsOK(n, h) /\ CountersOK(n, h) /\ SeenOK(h)
    BY DEF NodeOK
  <1>4. /\ SeenOK(k) /\ DOMAIN k = DOMAIN h \cup {key}
        /\ \A x \in DOMAIN h \ {key} : k[x] = h[x]
        /\ Last(k[key]) = v
    BY <1>2, <1>3, NotedFacts
  <1>5. Alike(h, k, "gauge") /\ Alike(h, k, "label")
    BY NotedAlike
  <1>6. key[1] = "counter" /\ key[2] = name /\ \A x : Key("counter", x) = key <=> x = name
    BY <1>2 DEF Key
  <1>7. CASE m = n /\ name \notin n.counter_cache /\ ~CanRegister(n, f)
    <2>1. GaugesOK(n, k)
      BY <1>3, <1>5 DEF GaugesOK, Alike, Key
    <2>2. LabelsOK(n, k)
      BY <1>3, <1>5 DEF LabelsOK, Alike, TextsOf
    <2>3. CountersOK(n, k)
      <3>1. ASSUME NEW x \in n.counter_cache, NEW y, y = Key("counter", x)
            PROVE  /\ y \in DOMAIN k /\ n.counter_values[x] = Last(k[y])
                   /\ Sample(n, sanitise_name(x)) = Rises(k[y])
        <4>1. y # key
          BY <1>6, <1>7, <3>1
        <4> QED
          BY <1>3, <1>4, <3>1, <4>1 DEF CountersOK
      <3>2. ASSUME NEW x \in DOMAIN k, x[1] = "counter", x[2] \notin n.counter_cache
            PROVE  ~CanRegister(n, sanitise_name(x[2]))
        <4>1. CASE x = key
          BY <1>1, <1>6, <1>7, <4>1
        <4>2. CASE x # key
          BY <1>3, <1>4, <3>2, <4>2 DEF CountersOK
        <4> QED
          BY <4>1, <4>2
      <3> QED
        BY <1>3, <3>1, <3>2 DEF CountersOK
    <2> QED
      BY <1>3, <1>4, <1>7, <2>1, <2>2, <2>3 DEF NodeOK
  <1>8. CASE /\ Gains(n, m, f, "counter", name, Raised(n, f, Rise(v, Before(n, name))))
             /\ m.counter_cache = n.counter_cache \cup {name}
             /\ m.counter_values = Put(n.counter_values, name, v)
             /\ m.gauge_cache = n.gauge_cache /\ m.label_gauge_cache = n.label_gauge_cache
             /\ m.trace_gauge_cache = n.trace_gauge_cache
             /\ name \in n.counter_cache \/ CanRegister(n, f)
    <2>1. PICK d : d = Rise(v, Before(n, name))
      OBVIOUS
    <2>2. PICK ss : ss = Raised(n, f, d)
      OBVIOUS
    <2>3. Gains(n, m, f, "counter", name, ss)
      BY <1>8, <2>1, <2>2
    <2>4. CacheGains(n, m, f, "counter", name)
      BY <1>1, <1>8 DEF CacheGains
    <2>5. CachesOK(m) /\ ShapeOK(m)
      BY <1>3, <2>3, <2>4, CachesStay DEF Gains
    <2>6. /\ IsFamily(m, f, "counter") /\ m.families[f].samples = ss
          /\ DOMAIN m.families = DOMAIN n.families \cup {f}
          /\ \A g \in DOMAIN n.families \ {f} : m.families[g] = n.families[g]
          /\ \A g : CanRegister(m, g) => CanRegister(n, g)
      BY <2>3, GainsFacts
    <2>7. PICK old : old = IF key \in DOMAIN h THEN h[key] ELSE << >>
      OBVIOUS
    <2>8. /\ old \in Seq(Int) /\ k[key] = Append(old, v)
          /\ Before(n, name) = IF old = << >> THEN 0 ELSE Last(old)
          /\ Value(n, f) = Rises(old)
      <3>1. k[key] = Append(old, v)
        BY <1>2, <2>7 DEF Noted, Put
      <3>2. CASE name \in n.counter_cache
        <4>1. /\ key \in DOMAIN h /\ n.counter_values[name] = Last(h[key])
              /\ name \in DOMAIN n.counter_values /\ Sample(n, f) = Rises(h[key])
          BY <1>1, <1>2, <1>3, <3>2 DEF CountersOK
        <4>2. old \in Seq(Int) /\ old # << >> /\ old = h[key]
          BY <1>3, <1>6, <2>7, <4>1 DEF SeenOK
        <4>3. f \in DOMAIN n.families
          BY <1>1, <1>3, <3>2 DEF CachesOK, IsFamily
        <4>4. Value(n, f) = Sample(n, f)
          BY <4>3 DEF Value, Sample, Samples
        <4>5. Before(n, name) = Last(old)
          BY <4>1, <4>2 DEF Before
        <4> QED
          BY <3>1, <4>1, <4>2, <4>4, <4>5
      <3>3. CASE name \notin n.counter_cache
        <4>1. CanRegister(n, f) /\ name \notin DOMAIN n.counter_values
          BY <1>3, <1>8, <3>3 DEF CountersOK
        <4>2. key \notin DOMAIN h
          BY <1>1, <1>3, <1>6, <3>3, <4>1 DEF CountersOK
        <4>3. old = << >> /\ Before(n, name) = 0
          BY <2>7, <4>1, <4>2 DEF Before
        <4>4. Value(n, f) = 0
          BY <4>1 DEF Value, Samples, CanRegister, NoFunction
        <4> QED
          BY <3>1, <4>3, <4>4, EmptySeq, RisesEmpty
      <3> QED
        BY <3>2, <3>3
    <2>9. Rises(k[key]) = Value(n, f) + d /\ Value(n, f) \in Int /\ d \in Nat
      <3>1. Rises(old) \in Int /\ Rises(Append(old, v)) = Rises(old) + d
        BY <2>1, <2>8, RisesAppend
      <3>2. d \in Nat
        <4>1. Before(n, name) \in Int
          BY <2>8, ElementOfSeq, LenProperties, EmptySeq DEF Last
        <4> QED
          BY <2>1, <4>1, MetricsBounds DEF Rise, Max0, saturating_sub
      <3> QED
        BY <2>8, <3>1, <3>2
    <2>10. Sample(m, f) = Rises(k[key])
      <3>1. CASE d > 0
        <4>1. NoLabel \in DOMAIN ss /\ ss[NoLabel] = Value(n, f) + d
          BY <2>2, <3>1 DEF Raised, Put
        <4> QED
          BY <2>6, <2>9, <4>1 DEF Sample
      <3>2. CASE ~(d > 0)
        <4>1. ss = Samples(n, f) /\ d = 0
          BY <2>2, <2>9, <3>2 DEF Raised
        <4>2. Sample(m, f) = Value(n, f)
          BY <2>6, <4>1 DEF Sample, Value
        <4> QED
          BY <2>9, <4>1, <4>2
      <3> QED
        BY <3>1, <3>2
    <2>11. CountersOK(m, k)
      <3>1. DOMAIN m.counter_values = m.counter_cache /\ m.counter_values[name] = v
        BY <1>3, <1>8 DEF CountersOK, Put
      <3>2. ASSUME NEW x \in m.counter_cache, NEW y, y = Key("counter", x)
            PROVE  /\ y \in DOMAIN k /\ m.counter_values[x] = Last(k[y])
                   /\ Sample(m, sanitise_name(x)) = Rises(k[y])
        <4>1. CASE x = name
          BY <1>1, <1>2, <1>4, <2>10, <3>1, <3>2, <4>1
        <4>2. CASE x # name
          <5>1. x \in n.counter_cache /\ m.counter_values[x] = n.counter_values[x]
            BY <1>3, <1>8, <3>2, <4>2 DEF CountersOK, Put
          <5>2. y # key
            BY <1>6, <3>2, <4>2
          <5>3. /\ y \in DOMAIN h /\ n.counter_values[x] = Last(h[y])
                /\ Sample(n, sanitise_name(x)) = Rises(h[y])
            BY <1>3, <3>2, <5>1 DEF CountersOK
          <5>4. y \in DOMAIN k /\ k[y] = h[y]
            BY <1>4, <5>2, <5>3
          <5>5. sanitise_name(x) \in DOMAIN n.families /\ n.families[sanitise_name(x)].by = x
            BY <1>3, <5>1 DEF CachesOK, IsFamily
          <5>6. sanitise_name(x) # f
            <6>1. m.families[f].by = name /\ (f \in DOMAIN n.families => n.families[f].by = name)
              BY <2>3, GainsFacts
            <6> QED
              BY <4>2, <5>5, <6>1
          <5>7. Sample(m, sanitise_name(x)) = Sample(n, sanitise_name(x))
            BY <2>6, <5>5, <5>6 DEF Sample
          <5> QED
            BY <5>1, <5>3, <5>4, <5>7
        <4> QED
          BY <4>1, <4>2
      <3>3. ASSUME NEW x \in DOMAIN k, x[1] = "counter", x[2] \notin m.counter_cache
            PROVE  ~CanRegister(m, sanitise_name(x[2]))
        <4>1. x # key /\ x[2] \notin n.counter_cache
          BY <1>6, <1>8, <3>3
        <4>2. ~CanRegister(n, sanitise_name(x[2]))
          BY <1>3, <1>4, <3>3, <4>1 DEF CountersOK
        <4> QED
          BY <2>6, <4>2
      <3> QED
        BY <3>1, <3>2, <3>3 DEF CountersOK
    <2>12. GaugesOK(m, k)
      BY <1>3, <1>5, <2>3, GaugesStay
    <2>13. LabelsOK(m, k)
      BY <1>3, <1>5, <2>3, LabelsStay
    <2> QED
      BY <1>4, <2>5, <2>11, <2>12, <2>13 DEF NodeOK
  <1> QED
    BY <1>1, <1>3, <1>7, <1>8, CounterUpdated

(* A field of a trace touches none of the poller's metrics.                *)
LEMMA FieldApplied ==
  ASSUME NEW n, NEW h, NodeOK(n, h), NEW trace, NEW field, NEW m, m = PushField(n, trace, field)
  PROVE  NodeOK(m, h)
  <1>1. /\ ShapeOK(n) /\ CachesOK(n) /\ GaugesOK(n, h) /\ LabelsOK(n, h) /\ CountersOK(n, h) /\ SeenOK(h)
    BY DEF NodeOK
  <1>2. ASSUME NEW f, NEW by, NEW ss, Gains(n, m, f, "trace", by, ss),
               m.trace_gauge_cache = n.trace_gauge_cache \cup {f},
               m.counter_cache = n.counter_cache, m.gauge_cache = n.gauge_cache,
               m.label_gauge_cache = n.label_gauge_cache, m.counter_values = n.counter_values
        PROVE  NodeOK(m, h)
    <2>1. CacheGains(n, m, f, "trace", by)
      BY <1>2 DEF CacheGains
    <2>2. CachesOK(m) /\ ShapeOK(m)
      BY <1>1, <1>2, <2>1, CachesStay DEF Gains
    <2>3. Alike(h, h, "gauge") /\ Alike(h, h, "label") /\ Alike(h, h, "counter")
      BY DEF Alike
    <2>4. GaugesOK(m, h)
      BY <1>1, <1>2, <2>3, GaugesStay
    <2>5. LabelsOK(m, h)
      BY <1>1, <1>2, <2>3, LabelsStay
    <2>6. CountersOK(m, h)
      BY <1>1, <1>2, <2>3, CountersStay
    <2> QED
      BY <1>1, <2>2, <2>4, <2>5, <2>6 DEF NodeOK
  <1> QED
    BY <1>1, <1>2, FieldPushed

-----------------------------------------------------------------------------
(* Traces: many fields one after the other                                 *)

(* The fields of a trace have an order and an end.                         *)
LEMMA SetToSeqFacts ==
  ASSUME NEW S, IsFiniteSet(S)
  PROVE  SetToSeq(S) \in Seq(S) /\ Len(SetToSeq(S)) \in Nat
  <1> DEFINE N == Cardinality(S)
  <1>1. N \in Nat
    BY FS_CardinalityType
  <1>2. ExistsBijection(1..N, S)
    BY FS_CardinalityType
  <1>3. \E f \in [1..N -> S] : IsInjective(f)
    BY <1>2 DEF ExistsBijection, Bijection, Injection, IsInjective
  <1>4. SetToSeq(S) \in [1..N -> S]
    BY <1>3 DEF SetToSeq
  <1>5. SetToSeq(S) \in Seq(S)
    BY <1>1, <1>4, SeqDef
  <1> QED
    BY <1>5, LenProperties

(* A trace, that is all of its fields.                                     *)
LEMMA TracePushed ==
  ASSUME NEW n, NEW h, NodeOK(n, h), NEW trace, IsFiniteSet(DOMAIN trace.fields)
  PROVE  NodeOK(PushTrace(n, trace), h)
  <1> DEFINE fields == SetToSeq(DOMAIN trace.fields)
             N == Len(fields)
             push(x, i) == PushField(x, trace, fields[i])
             table(G, k) == [i \in 0..k |-> IF i = 0 THEN n ELSE push(G[i - 1], i)]
             T == CHOOSE G : G = table(G, N)
             P == {k \in Nat : \E G : G = table(G, k)}
             Q == {k \in Nat : k <= N => NodeOK(T[k], h)}
  <1>1. N \in Nat
    BY SetToSeqFacts
  <1>2. \A x : \A i \in 1..N : NodeOK(x, h) => NodeOK(push(x, i), h)
    BY FieldApplied
  <1>3. PushTrace(n, trace) = T[N]
    BY DEF PushTrace
  <1> HIDE DEF push, N
  <1>4. 0 \in P
    <2>1. PICK G : G = [i \in 0..0 |-> n]
      OBVIOUS
    <2>2. G = table(G, 0)
      BY <2>1
    <2> HIDE DEF table
    <2> QED
      BY <2>2
  <1>5. ASSUME NEW k \in Nat, k \in P
        PROVE  k + 1 \in P
    <2>1. PICK G : G = table(G, k)
      BY <1>5
    <2>2. PICK H : H = [i \in 0..(k + 1) |-> IF i = k + 1 THEN push(G[k], i) ELSE G[i]]
      OBVIOUS
    <2>3. \A i \in 0..(k + 1) : H[i] = IF i = 0 THEN n ELSE push(H[i - 1], i)
      <3> SUFFICES ASSUME NEW i \in 0..(k + 1) PROVE H[i] = IF i = 0 THEN n ELSE push(H[i - 1], i)
        OBVIOUS
      <3>1. CASE i = k + 1
        <4>1. H[i] = push(G[k], i) /\ i - 1 = k /\ k \in 0..(k + 1) /\ k # k + 1
          BY <2>2, <3>1
        <4>2. H[k] = G[k]
          BY <2>2, <4>1
        <4> QED
          BY <3>1, <4>1, <4>2
      <3>2. CASE i = 0
        <4>1. G[0] = n
          BY <2>1
        <4> QED
          BY <2>2, <3>2, <4>1
      <3>3. CASE i \in 1..k
        <4>1. /\ i \in 0..k /\ i - 1 \in 0..(k + 1) /\ i # 0 /\ i # k + 1 /\ i - 1 # k + 1
          BY <3>3
        <4>2. G[i] = push(G[i - 1], i)
          BY <2>1, <4>1
        <4>3. H[i] = G[i] /\ H[i - 1] = G[i - 1]
          BY <2>2, <4>1
        <4> QED
          BY <4>1, <4>2, <4>3
      <3> QED
        BY <3>1, <3>2, <3>3
    <2>4. H = table(H, k + 1)
      BY <2>2, <2>3
    <2> HIDE DEF table
    <2> QED
      BY <2>4
  <1>6. T = table(T, N)
    <2> HIDE DEF table
    <2>1. Nat \subseteq P
      <3> HIDE DEF P
      <3> QED
        BY <1>4, <1>5, InductionOnNat
    <2> QED
      BY <1>1, <2>1
  <1> HIDE DEF T
  <1>7. 0 \in Q
    <2>1. T[0] = n
      BY <1>1, <1>6
    <2> QED
      BY <2>1
  <1>8. ASSUME NEW k \in Nat, k \in Q
        PROVE  k + 1 \in Q
    <2> SUFFICES ASSUME k + 1 <= N PROVE NodeOK(T[k + 1], h)
      OBVIOUS
    <2>1. k + 1 \in 1..N /\ k + 1 \in 0..N /\ k + 1 # 0 /\ (k + 1) - 1 = k /\ k <= N
      BY <1>1
    <2>2. T[k + 1] = push(T[k], k + 1)
      BY <1>6, <2>1
    <2> QED
      BY <1>2, <1>8, <2>1, <2>2
  <1>9. Nat \subseteq Q
    <2> HIDE DEF Q
    <2> QED
      BY <1>7, <1>8, InductionOnNat
  <1> QED
    BY <1>1, <1>3, <1>9

(* A batch of traces.                                                      *)
LEMMA TracesPushed ==
  ASSUME NEW n, NEW h, NodeOK(n, h), NEW s \in Sessions, NEW traces \in Batches[s]
  PROVE  NodeOK(push_trace_metrics(n, traces), h)
  <1> DEFINE N == Len(traces)
             push(x, i) == PushTrace(x, traces[i])
             table(G, k) == [i \in 0..k |-> IF i = 0 THEN n ELSE push(G[i - 1], i)]
             T == CHOOSE G : G = table(G, N)
             P == {k \in Nat : \E G : G = table(G, k)}
             Q == {k \in Nat : k <= N => NodeOK(T[k], h)}
  <1>1. N \in Nat /\ \A i \in 1..N : IsFiniteSet(DOMAIN traces[i].fields)
    BY NodesTyped, LenProperties, ElementOfSeq
  <1>2. \A x : \A i \in 1..N : NodeOK(x, h) => NodeOK(push(x, i), h)
    BY <1>1, TracePushed
  <1>3. push_trace_metrics(n, traces) = T[N]
    BY DEF push_trace_metrics
  <1> HIDE DEF push, N
  <1>4. 0 \in P
    <2>1. PICK G : G = [i \in 0..0 |-> n]
      OBVIOUS
    <2>2. G = table(G, 0)
      BY <2>1
    <2> HIDE DEF table
    <2> QED
      BY <2>2
  <1>5. ASSUME NEW k \in Nat, k \in P
        PROVE  k + 1 \in P
    <2>1. PICK G : G = table(G, k)
      BY <1>5
    <2>2. PICK H : H = [i \in 0..(k + 1) |-> IF i = k + 1 THEN push(G[k], i) ELSE G[i]]
      OBVIOUS
    <2>3. \A i \in 0..(k + 1) : H[i] = IF i = 0 THEN n ELSE push(H[i - 1], i)
      <3> SUFFICES ASSUME NEW i \in 0..(k + 1) PROVE H[i] = IF i = 0 THEN n ELSE push(H[i - 1], i)
        OBVIOUS
      <3>1. CASE i = k + 1
        <4>1. H[i] = push(G[k], i) /\ i - 1 = k /\ k \in 0..(k + 1) /\ k # k + 1
          BY <2>2, <3>1
        <4>2. H[k] = G[k]
          BY <2>2, <4>1
        <4> QED
          BY <3>1, <4>1, <4>2
      <3>2. CASE i = 0
        <4>1. G[0] = n
          BY <2>1
        <4> QED
          BY <2>2, <3>2, <4>1
      <3>3. CASE i \in 1..k
        <4>1. /\ i \in 0..k /\ i - 1 \in 0..(k + 1) /\ i # 0 /\ i # k + 1 /\ i - 1 # k + 1
          BY <3>3
        <4>2. G[i] = push(G[i - 1], i)
          BY <2>1, <4>1
        <4>3. H[i] = G[i] /\ H[i - 1] = G[i - 1]
          BY <2>2, <4>1
        <4> QED
          BY <4>1, <4>2, <4>3
      <3> QED
        BY <3>1, <3>2, <3>3
    <2>4. H = table(H, k + 1)
      BY <2>2, <2>3
    <2> HIDE DEF table
    <2> QED
      BY <2>4
  <1>6. T = table(T, N)
    <2> HIDE DEF table
    <2>1. Nat \subseteq P
      <3> HIDE DEF P
      <3> QED
        BY <1>4, <1>5, InductionOnNat
    <2> QED
      BY <1>1, <2>1
  <1> HIDE DEF T
  <1>7. 0 \in Q
    <2>1. T[0] = n
      BY <1>1, <1>6
    <2> QED
      BY <2>1
  <1>8. ASSUME NEW k \in Nat, k \in Q
        PROVE  k + 1 \in Q
    <2> SUFFICES ASSUME k + 1 <= N PROVE NodeOK(T[k + 1], h)
      OBVIOUS
    <2>1. k + 1 \in 1..N /\ k + 1 \in 0..N /\ k + 1 # 0 /\ (k + 1) - 1 = k /\ k <= N
      BY <1>1
    <2>2. T[k + 1] = push(T[k], k + 1)
      BY <1>6, <2>1
    <2> QED
      BY <1>2, <1>8, <2>1, <2>2
  <1>9. Nat \subseteq Q
    <2> HIDE DEF Q
    <2> QED
      BY <1>7, <1>8, InductionOnNat
  <1> QED
    BY <1>1, <1>3, <1>9

-----------------------------------------------------------------------------
(* The invariant                                                           *)

(* What a response holds.                                                  *)
ReportOK(metrics) ==
  \A name \in DOMAIN metrics :
    /\ metrics[name][1] \in {"counter", "gauge", "label"}
    /\ metrics[name][1] = "counter" => metrics[name][2] \in Int

(* Which the nodes are: no two sessions of one id.                         *)
NodesOK(q) ==
  /\ q \in Seq(Sessions)
  /\ \A i, j \in 1..Len(q) : IdOf[q[i]] = IdOf[q[j]] => i = j

TablesOK ==
  /\ node = [s \in Sessions |-> node[s]]
  /\ pending = [s \in Sessions |-> pending[s]]
  /\ seen = [s \in Sessions |-> seen[s]]

AllNodesOK ==
  \A s \in Sessions : ReportOK(pending[s]) /\ NodeOK(node[s], seen[s])

MetInv == NodesOK(nodes) /\ TablesOK /\ AllNodesOK

(* A node that has just connected.                                         *)
LEMMA NewNodeOK == NodeOK(NewNode, NoFunction) /\ ReportOK(NoFunction)
  <1>1. DOMAIN NoFunction = {}
    BY DEF NoFunction
  <1>2. /\ NewNode.families = NoFunction /\ NewNode.gauge_cache = {} /\ NewNode.counter_cache = {}
        /\ NewNode.label_gauge_cache = {} /\ NewNode.trace_gauge_cache = {}
        /\ NewNode.counter_values = NoFunction
    BY DEF NewNode
  <1>3. ShapeOK(NewNode)
    BY <1>1, <1>2 DEF ShapeOK, FamiliesOK, NewNode, NoFunction
  <1>4. CachesOK(NewNode)
    BY <1>1, <1>2 DEF CachesOK
  <1>5. /\ GaugesOK(NewNode, NoFunction) /\ LabelsOK(NewNode, NoFunction)
        /\ CountersOK(NewNode, NoFunction) /\ SeenOK(NoFunction)
    BY <1>1, <1>2 DEF GaugesOK, LabelsOK, CountersOK, SeenOK
  <1>6. ReportOK(NoFunction)
    BY <1>1 DEF ReportOK
  <1> QED
    BY <1>3, <1>4, <1>5, <1>6 DEF NodeOK

(* A metric of any kind.                                                   *)
LEMMA MetricApplied ==
  ASSUME NEW n, NEW h, NodeOK(n, h), NEW name, NEW value,
         value[1] \in {"counter", "gauge", "label"}, value[1] = "counter" => value[2] \in Int
  PROVE  NodeOK(update_metric(n, name, value), Noted(h, Key(value[1], name), value[2]))
  <1>1. CASE value[1] = "counter"
    <2>1. update_metric(n, name, value) = UpdateCounter(n, name, value[2])
      BY <1>1 DEF update_metric
    <2> QED
      BY <1>1, <2>1, CounterApplied
  <1>2. CASE value[1] = "gauge"
    <2>1. update_metric(n, name, value) = UpdateGauge(n, name, value[2])
      BY <1>2 DEF update_metric
    <2> QED
      BY <1>2, <2>1, GaugeApplied
  <1>3. CASE value[1] = "label"
    <2>1. update_metric(n, name, value) = UpdateLabel(n, name, value[2])
      BY <1>3 DEF update_metric
    <2> QED
      BY <1>3, <2>1, LabelApplied
  <1> QED
    BY <1>1, <1>2, <1>3

(* A node that leaves is taken out, and the others stay.                   *)
LEMMA NodeRemoved ==
  ASSUME NodesOK(nodes), NEW s \in Sessions, s \in Registered
  PROVE  /\ NodesOK(ShiftRemove(s))
         /\ \E k \in 1..Len(nodes) : nodes[k] = s /\ ShiftRemove(s) = RemoveAt(nodes, k)
  <1> DEFINE k == CHOOSE i \in DOMAIN nodes : IdOf[nodes[i]] = IdOf[s]
  <1>1. /\ nodes \in Seq(Sessions) /\ Len(nodes) \in Nat /\ DOMAIN nodes = 1..Len(nodes)
        /\ \E i \in 1..Len(nodes) : nodes[i] = s
    BY RangeIndexed DEF NodesOK, Registered
  <1>2. k \in 1..Len(nodes) /\ IdOf[nodes[k]] = IdOf[s]
    BY <1>1
  <1>3. nodes[k] = s
    BY <1>1, <1>2 DEF NodesOK
  <1>4. ShiftRemove(s) = RemoveAt(nodes, k)
    BY DEF ShiftRemove
  <1> HIDE DEF k
  <1>5. PICK r : r = RemoveAt(nodes, k)
    OBVIOUS
  <1>6. /\ r \in Seq(Sessions) /\ Len(r) = Len(nodes) - 1
        /\ \A j \in 1..(Len(nodes) - 1) : r[j] = IF j < k THEN nodes[j] ELSE nodes[j + 1]
    BY <1>1, <1>2, <1>5, RemoveAtFacts
  <1>7. ASSUME NEW i \in 1..Len(r), NEW j \in 1..Len(r), IdOf[r[i]] = IdOf[r[j]]
        PROVE  i = j
    <2>1. PICK a, b : /\ a = (IF i < k THEN i ELSE i + 1)
                      /\ b = (IF j < k THEN j ELSE j + 1)
      OBVIOUS
    <2>2. a \in 1..Len(nodes) /\ b \in 1..Len(nodes) /\ r[i] = nodes[a] /\ r[j] = nodes[b]
      BY <1>1, <1>2, <1>6, <2>1
    <2>3. a = b
      BY <1>7, <2>2 DEF NodesOK
    <2> QED
      BY <1>1, <1>2, <1>6, <2>1, <2>3
  <1> QED
    BY <1>2, <1>3, <1>4, <1>5, <1>6, <1>7 DEF NodesOK

(* A node that connects is the last.                                       *)
LEMMA NodeAdded ==
  ASSUME NodesOK(nodes), NEW s \in Sessions, \A t \in Registered : IdOf[t] # IdOf[s]
  PROVE  NodesOK(Append(nodes, s))
  <1>1. PICK r : r = Append(nodes, s)
    OBVIOUS
  <1>2. /\ nodes \in Seq(Sessions) /\ Len(nodes) \in Nat
        /\ \A i \in 1..Len(nodes) : nodes[i] \in Registered
    BY RangeIndexed DEF NodesOK, Registered
  <1>3. /\ r \in Seq(Sessions) /\ Len(r) = Len(nodes) + 1 /\ r[Len(nodes) + 1] = s
        /\ \A i \in 1..Len(nodes) : r[i] = nodes[i]
    BY <1>1, <1>2, AppendProperties
  <1>4. ASSUME NEW i \in 1..Len(r), NEW j \in 1..Len(r), IdOf[r[i]] = IdOf[r[j]]
        PROVE  i = j
    <2>1. CASE i \in 1..Len(nodes) /\ j \in 1..Len(nodes)
      BY <1>3, <1>4, <2>1 DEF NodesOK
    <2>2. CASE i = Len(nodes) + 1 /\ j \in 1..Len(nodes)
      BY <1>2, <1>3, <1>4, <2>2
    <2>3. CASE j = Len(nodes) + 1 /\ i \in 1..Len(nodes)
      BY <1>2, <1>3, <1>4, <2>3
    <2>4. CASE i = Len(nodes) + 1 /\ j = Len(nodes) + 1
      BY <2>4
    <2> QED
      BY <1>2, <1>3, <2>1, <2>2, <2>3, <2>4
  <1> QED
    BY <1>1, <1>3, <1>4 DEF NodesOK

(* No node is there at the start.                                          *)
LEMMA MetInvInit == MetInit => MetInv
  <1> SUFFICES ASSUME MetInit PROVE MetInv
    OBVIOUS
  <1>1. NodesOK(nodes)
    BY EmptySeq DEF MetInit, NodesOK
  <1>2. TablesOK
    BY DEF MetInit, TablesOK
  <1>3. AllNodesOK
    BY NewNodeOK DEF MetInit, AllNodesOK
  <1> QED
    BY <1>1, <1>2, <1>3 DEF MetInv

(* A metric is applied to one node, a batch to another, and nodes come and *)
(* go: the rest of the nodes stay as they are.                             *)
LEMMA MetInvNext == MetInv /\ [MetNext]_metVars => MetInv'
  <1> SUFFICES ASSUME MetInv, [MetNext]_metVars PROVE MetInv'
    OBVIOUS
  <1>1. NodesOK(nodes) /\ TablesOK /\ AllNodesOK
    BY DEF MetInv
  <1>2. ASSUME NEW s \in Sessions, Register(s)
        PROVE  MetInv'
    <2>1. /\ nodes' = Append(nodes, s) /\ node' = [node EXCEPT ![s] = NewNode]
          /\ pending' = [pending EXCEPT ![s] = NoFunction] /\ seen' = [seen EXCEPT ![s] = NoFunction]
          /\ \A t \in Registered : IdOf[t] # IdOf[s]
      BY <1>2 DEF Register
    <2>2. NodesOK(nodes')
      BY <1>1, <2>1, NodeAdded
    <2>3. TablesOK'
      BY <1>1, <2>1 DEF TablesOK
    <2>4. AllNodesOK'
      BY <1>1, <2>1, NewNodeOK DEF AllNodesOK, TablesOK
    <2> QED
      BY <2>2, <2>3, <2>4 DEF MetInv, NodesOK
  <1>3. ASSUME NEW s \in Sessions, Deregister(s)
        PROVE  MetInv'
    <2>1. /\ nodes' = ShiftRemove(s) /\ node' = [node EXCEPT ![s] = NewNode] /\ s \in Registered
          /\ pending' = [pending EXCEPT ![s] = NoFunction] /\ seen' = [seen EXCEPT ![s] = NoFunction]
      BY <1>3 DEF Deregister
    <2>2. NodesOK(nodes')
      BY <1>1, <2>1, NodeRemoved
    <2>3. TablesOK'
      BY <1>1, <2>1 DEF TablesOK
    <2>4. AllNodesOK'
      BY <1>1, <2>1, NewNodeOK DEF AllNodesOK, TablesOK
    <2> QED
      BY <2>2, <2>3, <2>4 DEF MetInv, NodesOK
  <1>4. ASSUME NEW s \in Sessions, PollAnswered(s)
        PROVE  MetInv'
    <2>1. PICK metrics \in Responses[s] :
            /\ pending' = [pending EXCEPT ![s] = metrics]
            /\ nodes' = nodes /\ node' = node /\ seen' = seen
      BY <1>4 DEF PollAnswered
    <2>2. ReportOK(metrics)
      BY NodesTyped DEF ReportOK
    <2>3. TablesOK'
      BY <1>1, <2>1 DEF TablesOK
    <2>4. AllNodesOK'
      BY <1>1, <2>1, <2>2 DEF AllNodesOK, TablesOK
    <2> QED
      BY <1>1, <2>1, <2>3, <2>4 DEF MetInv, NodesOK
  <1>5. ASSUME NEW s \in Sessions, ApplyMetric(s)
        PROVE  MetInv'
    <2>1. PICK name \in DOMAIN pending[s] :
            LET value == pending[s][name]
                key   == <<value[1], name>>
                old   == IF key \in DOMAIN seen[s] THEN seen[s][key] ELSE << >>
            IN  /\ node' = [node EXCEPT ![s] = update_metric(@, name, value)]
                /\ pending' = [pending EXCEPT ![s] = [k \in DOMAIN @ \ {name} |-> @[k]]]
                /\ seen' = [seen EXCEPT ![s] = Put(@, key, Append(old, value[2]))]
      BY <1>5 DEF ApplyMetric
    <2>2. nodes' = nodes
      BY <1>5 DEF ApplyMetric
    <2>3. PICK value : value = pending[s][name]
      OBVIOUS
    <2>4. PICK n, h : n = update_metric(node[s], name, value) /\ h = Noted(seen[s], Key(value[1], name), value[2])
      OBVIOUS
    <2>5. PICK rest : rest = [k \in DOMAIN pending[s] \ {name} |-> pending[s][k]]
      OBVIOUS
    <2>6. node' = [node EXCEPT ![s] = n]
      BY <2>1, <2>3, <2>4
    <2>7. seen' = [seen EXCEPT ![s] = h]
      BY <2>1, <2>3, <2>4 DEF Noted, Key
    <2>8. pending' = [pending EXCEPT ![s] = rest]
      BY <2>1, <2>5
    <2>9. ReportOK(pending[s]) /\ NodeOK(node[s], seen[s])
      BY <1>1 DEF AllNodesOK
    <2>10. ReportOK(rest)
      BY <2>5, <2>9 DEF ReportOK
    <2>11. NodeOK(n, h)
      <3>1. value[1] \in {"counter", "gauge", "label"} /\ (value[1] = "counter" => value[2] \in Int)
        BY <2>3, <2>9 DEF ReportOK
      <3> QED
        BY <2>4, <2>9, <3>1, MetricApplied
    <2>12. TablesOK'
      BY <1>1, <2>6, <2>7, <2>8 DEF TablesOK
    <2>13. AllNodesOK'
      BY <1>1, <2>6, <2>7, <2>8, <2>10, <2>11 DEF AllNodesOK, TablesOK
    <2> QED
      BY <1>1, <2>2, <2>12, <2>13 DEF MetInv, NodesOK
  <1>6. ASSUME NEW s \in Sessions, PushTraces(s)
        PROVE  MetInv'
    <2>1. PICK traces \in Batches[s] :
            /\ node' = [node EXCEPT ![s] = push_trace_metrics(@, traces)]
            /\ nodes' = nodes /\ pending' = pending /\ seen' = seen
      BY <1>6 DEF PushTraces
    <2>2. PICK n : n = push_trace_metrics(node[s], traces)
      OBVIOUS
    <2>3. node' = [node EXCEPT ![s] = n]
      BY <2>1, <2>2
    <2>4. NodeOK(n, seen[s])
      BY <1>1, <2>2, TracesPushed DEF AllNodesOK
    <2>5. TablesOK'
      BY <1>1, <2>1, <2>3 DEF TablesOK
    <2>6. AllNodesOK'
      BY <1>1, <2>1, <2>3, <2>4 DEF AllNodesOK, TablesOK
    <2> QED
      BY <1>1, <2>1, <2>5, <2>6 DEF MetInv, NodesOK
  <1>7. CASE UNCHANGED metVars
    BY <1>1, <1>7 DEF metVars, MetInv, NodesOK, TablesOK, AllNodesOK
  <1> QED
    BY <1>2, <1>3, <1>4, <1>5, <1>6, <1>7 DEF MetNext, SessionStep

(* So it always holds.                                                     *)
LEMMA MetInvariant == MetSpec => []MetInv
  BY MetInvInit, MetInvNext, PTL DEF MetSpec

-----------------------------------------------------------------------------
(* What the routes show                                                    *)

(* A counter that is exported counts what the node's has grown.            *)
THEOREM CountersAreRight == MetSpec => []CountersCountGrowth
  <1>1. ASSUME MetInv
        PROVE  CountersCountGrowth
    <2>1. \A s \in Registered : s \in Sessions
      BY <1>1, RangeIndexed, ElementOfSeq DEF Registered, MetInv, NodesOK
    <2>2. ASSUME NEW s \in Sessions, NEW name \in node[s].counter_cache
          PROVE  Sample(node[s], sanitise_name(name)) = Rises(seen[s][<<"counter", name>>])
      <3>1. CountersOK(node[s], seen[s])
        BY <1>1 DEF MetInv, AllNodesOK, NodeOK
      <3> QED
        BY <3>1 DEF CountersOK, Key
    <2> QED
      BY <2>1, <2>2 DEF CountersCountGrowth
  <1> QED
    BY <1>1, MetInvariant, PTL

(* A gauge shows the last value of the metric that it belongs to, however  *)
(* many others have the same sanitised name.                               *)
THEOREM GaugesAreRight == MetSpec => []GaugesAreNotShared
  <1>1. ASSUME MetInv
        PROVE  GaugesAreNotShared
    <2> SUFFICES ASSUME NEW s \in Sessions, NEW f \in DOMAIN node[s].families,
                        node[s].families[f].kind = "gauge"
                 PROVE  Sample(node[s], f) = Last(seen[s][<<"gauge", node[s].families[f].by>>])
      BY SMTT(30), <1>1, RangeIndexed, ElementOfSeq DEF GaugesAreNotShared, Registered, MetInv, NodesOK
    <2>1. GaugesOK(node[s], seen[s])
      BY <1>1 DEF MetInv, AllNodesOK, NodeOK
    <2> QED
      BY <2>1 DEF GaugesOK, IsFamily, Key
  <1> QED
    BY <1>1, MetInvariant, PTL

(* A label's last text is shown unless its name was taken, and no text is  *)
(* that no label of the name was reported with.                            *)
THEOREM LabelsAreRight == MetSpec => []LabelsAreShown
  <1>1. ASSUME MetInv
        PROVE  LabelsAreShown
    <2>1. \A s \in Registered : s \in Sessions
      BY <1>1, RangeIndexed, ElementOfSeq DEF Registered, MetInv, NodesOK
    <2>2. ASSUME NEW s \in Sessions, NEW key \in DOMAIN seen[s], NEW f, f = InfoName(key[2]),
                 key[1] = "label", ValidName(f),
                 ~(f \in DOMAIN node[s].families /\ node[s].families[f].kind # "label")
          PROVE  /\ f \in DOMAIN node[s].families
                 /\ Last(seen[s][key]) \in DOMAIN node[s].families[f].samples
                 /\ DOMAIN node[s].families[f].samples \subseteq
                      UNION {Range(seen[s][k]) :
                             k \in {k \in DOMAIN seen[s] : k[1] = "label" /\ InfoName(k[2]) = f}}
      <3>1. LabelsOK(node[s], seen[s])
        BY <1>1 DEF MetInv, AllNodesOK, NodeOK
      <3>2. f \in DOMAIN node[s].families
        BY <2>2, <3>1 DEF LabelsOK
      <3>3. IsFamily(node[s], f, "label")
        BY <2>2, <3>2 DEF IsFamily
      <3>4. Last(seen[s][key]) \in DOMAIN node[s].families[f].samples
        BY <2>2, <3>1, <3>3 DEF LabelsOK
      <3>5. DOMAIN node[s].families[f].samples \subseteq TextsOf(seen[s], f)
        BY <3>1, <3>2, <3>3 DEF LabelsOK
      <3> QED
        BY <3>2, <3>4, <3>5 DEF TextsOf
    <2> QED
      <3> SUFFICES ASSUME NEW s \in Registered, NEW key \in DOMAIN seen[s]
                   PROVE  key[1] = "label"
                          /\ ~(~ValidName(InfoName(key[2]))
                               \/ (InfoName(key[2]) \in DOMAIN node[s].families
                                   /\ node[s].families[InfoName(key[2])].kind # "label")) =>
                            /\ InfoName(key[2]) \in DOMAIN node[s].families
                            /\ Last(seen[s][key]) \in DOMAIN node[s].families[InfoName(key[2])].samples
                            /\ DOMAIN node[s].families[InfoName(key[2])].samples \subseteq
                                 UNION {Range(seen[s][k]) :
                                        k \in {k \in DOMAIN seen[s] :
                                                 k[1] = "label" /\ InfoName(k[2]) = InfoName(key[2])}}
        BY DEF LabelsAreShown
      <3> QED
        BY <2>1, <2>2
  <1> QED
    BY <1>1, MetInvariant, PTL

-----------------------------------------------------------------------------
(* The routes                                                              *)

(* The i-th of q is the first with the slug.                               *)
FirstAt(q, slug, i) ==
  /\ i \in 1..Len(q) /\ SlugOf[q[i]] = slug
  /\ \A j \in 1..(i - 1) : SlugOf[q[j]] # slug

ServedOf(q, slug) ==
  LET hits == {i \in DOMAIN q : SlugOf[q[i]] = slug}
  IN  {q[i] : i \in {i \in hits : \A j \in hits : i <= j}}

(* The first is the one that is served.                                    *)
LEMMA FirstIsServed ==
  ASSUME NEW q \in Seq(Sessions), NEW slug
  PROVE  /\ \A i : FirstAt(q, slug, i) => ServedOf(q, slug) = {q[i]}
         /\ \A s \in ServedOf(q, slug) : \E i : FirstAt(q, slug, i) /\ q[i] = s
  <1> DEFINE hits == {i \in DOMAIN q : SlugOf[q[i]] = slug}
  <1>1. Len(q) \in Nat /\ DOMAIN q = 1..Len(q)
    BY LenProperties
  <1>2. ASSUME NEW i, FirstAt(q, slug, i)
        PROVE  ServedOf(q, slug) = {q[i]}
    <2>1. i \in hits /\ i \in 1..Len(q)
      BY <1>1, <1>2 DEF FirstAt
    <2>2. \A j \in hits : i <= j
      BY <1>1, <1>2, <2>1 DEF FirstAt
    <2>3. \A j \in hits : (\A k \in hits : j <= k) => j = i
      BY <1>1, <2>1, <2>2
    <2>4. {j \in hits : \A k \in hits : j <= k} = {i}
      BY <2>1, <2>2, <2>3
    <2> QED
      BY <2>4 DEF ServedOf
  <1>3. ASSUME NEW s \in ServedOf(q, slug)
        PROVE  \E i : FirstAt(q, slug, i) /\ q[i] = s
    <2>1. PICK i \in hits : (\A j \in hits : i <= j) /\ q[i] = s
      BY <1>3 DEF ServedOf
    <2>2. FirstAt(q, slug, i)
      BY <1>1, <2>1 DEF FirstAt
    <2> QED
      BY <2>1, <2>2
  <1> QED
    BY <1>2, <1>3

(* A node is served at its route for as long as it stays.                  *)
THEOREM RoutesAreKept == MetSpec => NodeKeepsItsRoute
  <1>1. ASSUME MetInv, [MetNext]_metVars, NEW slug, NEW s \in find_by_slug(slug), s \in Registered'
        PROVE  find_by_slug(slug)' = {s}
    <2>1. /\ NodesOK(nodes) /\ nodes \in Seq(Sessions) /\ Len(nodes) \in Nat
          /\ \A i \in 1..Len(nodes) : nodes[i] \in Registered
      BY <1>1, RangeIndexed DEF MetInv, NodesOK, Registered
    <2>2. NodesOK(nodes') /\ nodes' \in Seq(Sessions)
      BY <1>1, MetInvNext DEF MetInv, NodesOK
    <2>3. find_by_slug(slug) = ServedOf(nodes, slug) /\ find_by_slug(slug)' = ServedOf(nodes', slug)
      BY DEF find_by_slug, ServedOf
    <2>4. PICK i : FirstAt(nodes, slug, i) /\ nodes[i] = s
      BY <1>1, <2>1, <2>3, FirstIsServed
    <2>5. SUFFICES \E j : FirstAt(nodes', slug, j) /\ nodes'[j] = s
      BY <2>2, <2>3, FirstIsServed
    <2>6. CASE nodes' = nodes
      BY <2>4, <2>6
    <2>7. ASSUME NEW t \in Sessions, Register(t)
          PROVE  \E j : FirstAt(nodes', slug, j) /\ nodes'[j] = s
      <3>1. nodes' = Append(nodes, t)
        BY <2>7 DEF Register
      <3>2. PICK r : r = nodes'
        OBVIOUS
      <3>3. Len(r) = Len(nodes) + 1 /\ \A k \in 1..Len(nodes) : r[k] = nodes[k]
        BY <2>1, <3>1, <3>2, AppendProperties
      <3>4. FirstAt(r, slug, i) /\ r[i] = s
        BY <2>1, <2>4, <3>3 DEF FirstAt
      <3> QED
        BY <3>2, <3>4
    <2>8. ASSUME NEW t \in Sessions, Deregister(t)
          PROVE  \E j : FirstAt(nodes', slug, j) /\ nodes'[j] = s
      <3>1. nodes' = ShiftRemove(t) /\ t \in Registered
        BY <2>8 DEF Deregister
      <3>2. PICK k \in 1..Len(nodes) : nodes' = RemoveAt(nodes, k)
        BY <2>1, <3>1, NodeRemoved
      <3>3. PICK r : r = nodes'
        OBVIOUS
      <3>4. /\ Len(r) = Len(nodes) - 1
            /\ \A j \in 1..(Len(nodes) - 1) : r[j] = IF j < k THEN nodes[j] ELSE nodes[j + 1]
        BY <2>1, <3>2, <3>3, RemoveAtFacts
      <3>5. i \in 1..Len(nodes) /\ SlugOf[nodes[i]] = slug /\ \A j \in 1..(i - 1) : SlugOf[nodes[j]] # slug
        BY <2>4 DEF FirstAt
      <3>6. CASE i < k
        <4>1. FirstAt(r, slug, i) /\ r[i] = s
          BY <2>1, <2>4, <3>4, <3>5, <3>6 DEF FirstAt
        <4> QED
          BY <3>3, <4>1
      <3>7. CASE i > k
        <4>1. i - 1 \in 1..Len(r) /\ r[i - 1] = nodes[i]
          BY <2>1, <3>4, <3>5, <3>7
        <4>2. \A j \in 1..((i - 1) - 1) : SlugOf[r[j]] # slug
          <5> SUFFICES ASSUME NEW j \in 1..((i - 1) - 1) PROVE SlugOf[r[j]] # slug
            OBVIOUS
          <5>1. j \in 1..(i - 1) /\ j + 1 \in 1..(i - 1) /\ j \in 1..(Len(nodes) - 1)
            BY <2>1, <3>5
          <5>2. r[j] = nodes[j] \/ r[j] = nodes[j + 1]
            BY <3>4, <5>1
          <5> QED
            BY <3>5, <5>1, <5>2
        <4>3. FirstAt(r, slug, i - 1) /\ r[i - 1] = s
          BY <2>4, <3>5, <4>1, <4>2 DEF FirstAt
        <4> QED
          BY <3>3, <4>3
      <3>8. CASE i = k
        <4>1. PICK j \in 1..Len(r) : r[j] = s
          BY <1>1, <2>2, <3>3, RangeIndexed DEF Registered
        <4>2. PICK a : a = IF j < k THEN j ELSE j + 1
          OBVIOUS
        <4>3. a \in 1..Len(nodes) /\ a # k /\ nodes[a] = s
          BY <2>1, <3>4, <4>1, <4>2
        <4>4. nodes[k] = s
          BY <2>4, <3>8
        <4> QED
          BY <2>1, <4>3, <4>4 DEF NodesOK
      <3> QED
        BY <2>1, <3>5, <3>6, <3>7, <3>8
    <2>9. CASE UNCHANGED metVars
      BY <2>6, <2>9 DEF metVars
    <2>10. ASSUME NEW t \in Sessions, PollAnswered(t) \/ ApplyMetric(t) \/ PushTraces(t)
           PROVE  nodes' = nodes
      BY <2>10 DEF PollAnswered, ApplyMetric, PushTraces
    <2> QED
      BY <1>1, <2>6, <2>7, <2>8, <2>9, <2>10 DEF MetNext, SessionStep
  <1>2. ASSUME MetInv, [MetNext]_metVars
        PROVE  \A slug \in Range(SlugOf) : \A s \in handle_node_metrics(slug) :
                 s \in Registered' => handle_node_metrics(slug)' = {s}
    BY <1>1, <1>2 DEF handle_node_metrics
  <1> QED
    BY <1>2, MetInvariant, PTL DEF MetSpec, NodeKeepsItsRoute
=============================================================================
