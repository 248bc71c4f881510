------------------------------ MODULE TraceConfig ------------------------------
(***************************************************************************)
(* The trace configuration (src/dispatcher/config.rs): how a parsed YAML   *)
(* document becomes options by namespace, and how the dispatcher looks an  *)
(* option up.  An optional value is <<>> or <<v>>.  A namespace is a       *)
(* sequence of names; a YAML key is the sequence its split at the dots     *)
(* gives, <<"">> for the empty key.  Backend strings come trimmed.         *)
(***************************************************************************)
EXTENDS Integers, Sequences, SequencesExt

unwrap_or(o, default) == IF o = <<>> THEN default ELSE o[1]

Severities == 0..7     \* Debug, Info, Notice, Warning, Error, Critical, Alert, Emergency
Debug   == 0
Info    == 1
Warning == 3
Error   == 4
SILENCE == -1

\* SeverityF::passes
passes(filter, sev) == filter # SILENCE /\ sev >= filter

BackendOf ==
  [s \in {"Forwarder", "EKGBackend", "DatapointBackend", "Stdout HumanFormatColoured",
          "Stdout HumanFormatUncoloured", "Stdout MachineFormat"} |->
     CASE s = "Forwarder"                    -> "Forwarder"
       [] s = "EKGBackend"                   -> "Ekg"
       [] s = "DatapointBackend"             -> "Datapoint"
       [] s = "Stdout HumanFormatColoured"   -> "StdoutColoured"
       [] s = "Stdout HumanFormatUncoloured" -> "StdoutUncoloured"
       [] s = "Stdout MachineFormat"         -> "StdoutMachine"]

\* A string that names no backend is dropped with a warning.
parse_backends(strings) ==
  LET known == SelectSeq(strings, LAMBDA s : s \in DOMAIN BackendOf)
  IN  [i \in DOMAIN known |-> BackendOf[known[i]]]

\* The options one YAML entry sets: the kinds it has, each with its value.
\* Backends that are all unknown count as none given.
ConfigOptions(raw) ==
  LET bks   == parse_backends(raw.backends)
      given == [severity |-> raw.severity, detail |-> raw.detail,
                backends |-> IF bks = <<>> THEN <<>> ELSE <<bks>>, limiter |-> raw.max_frequency]
  IN  [k \in {k \in DOMAIN given : given[k] # <<>>} |-> given[k][1]]

NsKey(key) == IF key = <<"">> THEN <<>> ELSE key

into_trace_config(raw) ==
  LET set == {k \in DOMAIN raw.trace_options : DOMAIN ConfigOptions(raw.trace_options[k]) # {}}
  IN  [options   |-> [ns \in {NsKey(k) : k \in set} |->
                        ConfigOptions(raw.trace_options[CHOOSE k \in set : NsKey(k) = ns])],
       forwarder |-> <<>>,
       node_name |-> raw.node_name]

--------------------------------------------------------------------------------
(* Lookup: the longest prefix of the namespace that sets this kind.        *)

Sets(config, ns, kind) == ns \in DOMAIN config.options /\ kind \in DOMAIN config.options[ns]

\* Mutant: stops at the longest prefix that has any entry.
get_option_FirstEntry(config, ns, kind) ==
  LET at[n \in 0..Len(ns)] ==
        LET key == SubSeq(ns, 1, n)
        IN  IF key \in DOMAIN config.options
            THEN IF Sets(config, key, kind) THEN <<config.options[key][kind]>> ELSE <<>>
            ELSE IF n = 0 THEN <<>> ELSE at[n - 1]
  IN  at[Len(ns)]

get_option(config, ns, kind) ==
  LET at[n \in 0..Len(ns)] ==
        LET key == SubSeq(ns, 1, n)
        IN  IF Sets(config, key, kind) THEN <<config.options[key][kind]>>
            ELSE IF n = 0 THEN <<>> ELSE at[n - 1]
  IN  at[Len(ns)]

DefaultBackends == <<"StdoutMachine", "Ekg", "Forwarder">>

severity_for(config, ns) == unwrap_or(get_option(config, ns, "severity"), Warning)
detail_for(config, ns)   == unwrap_or(get_option(config, ns, "detail"), "DNormal")
backends_for(config, ns) == unwrap_or(get_option(config, ns, "backends"), DefaultBackends)
limiter_for(config, ns)  == get_option(config, ns, "limiter")

DefaultQueueSize == 1000

\* Socket path and reconnect delay, also copied here, concern the forwarder only.
forwarder_config(config) ==
  IF config.forwarder = <<>> THEN <<>>
  ELSE <<[queue_size |-> unwrap_or(config.forwarder[1].queue_size, DefaultQueueSize),
          node_name  |-> config.node_name]>>
================================================================================
