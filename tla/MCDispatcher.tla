----------------------------- MODULE MCDispatcher ------------------------------
(***************************************************************************)
(* Set-ups, each around one hazard: the rate limits of a namespace, of a   *)
(* child that inherits one, and one below a message a second; delivery     *)
(* through prefixes, a queue of one and a confidential message; metrics    *)
(* whose names and labels clash; data points under concurrent requests.    *)
(***************************************************************************)
EXTENDS Dispatcher

CONSTANTS t1, t2
MCThreads == {t1, t2}
MCSymmetry == Permutations(MCThreads)

Ns(inner) == [prefix |-> <<>>, inner |-> inner]
Message(ns, sev, metrics) ==
  [namespace |-> ns, severity |-> sev, privacy |-> "Public", metrics |-> metrics]
Raw(sev, backends, freq) ==
  [severity |-> sev, detail |-> <<>>, backends |-> backends, max_frequency |-> freq]
Metric(kind, name, labels, value) ==
  [kind |-> kind, name |-> name, labels |-> labels, values |-> [i \in DOMAIN labels |-> "v"], value |-> value]

A   == <<"A">>
AB  == <<"A", "B">>
ABC == <<"A", "B", "C">>
S   == <<"S">>
MCNamespaces == {A, AB, S}

Quiet ==      \* a set-up in which nothing but dispatches happens
  [raw |-> [trace_options |-> [k \in {} |-> 0], node_name |-> <<>>], forwarder |-> <<>>, given |-> {},
   defaults |-> TRUE, responder_store |-> FALSE, messages |-> {}, dispatches |-> 0, ticks |-> 0,
   tracing |-> {}, prefix |-> <<>>, events |-> 0, may_drop |-> FALSE, asked |-> {}, requests |-> 0]

Limits ==
  [Quiet EXCEPT
     !.raw.trace_options = [k \in {A, S} |-> Raw(<<Debug>>, <<"Forwarder">>, <<IF k = A THEN 3 ELSE 1>>)],
     !.messages = {Message(Ns(ns), <<Info>>, <<>>) : ns \in {A, AB}},
     !.dispatches = 5, !.ticks = 4]

BelowOne == [Limits EXCEPT !.messages = {Message(Ns(S), <<Info>>, <<>>)}, !.dispatches = 3]

Delivery ==
  [Quiet EXCEPT
     !.raw.trace_options =
        [k \in {<<"">>, A, AB, S} |->
           CASE k = <<"">> -> Raw(<<Info>>, <<"Stdout MachineFormat", "Bogus", "EKGBackend", "Forwarder">>, <<>>)
             [] k = A  -> Raw(<<>>, <<"Forwarder", "Stdout HumanFormatUncoloured", "DatapointBackend">>, <<>>)
             [] k = AB -> Raw(<<Debug>>, <<>>, <<>>)
             [] k = S  -> Raw(<<SILENCE>>, <<"Bogus">>, <<>>)],
     !.forwarder = <<[queue_size |-> <<1>>]>>, !.given = {"Forwarder"},
     !.messages = {Message(Ns(ABC), <<>>, <<>>), Message(Ns(S), <<Error>>, <<>>),
                   Message([prefix |-> A, inner |-> <<>>], <<Info>>, <<>>), Message(Ns(<<>>), <<Info>>, <<>>),
                   [Message(Ns(A), <<Error>>, <<>>) EXCEPT !.privacy = "Confidential"]},
     !.dispatches = 3, !.events = 1, !.prefix = A, !.may_drop = TRUE,
     !.tracing = {[level |-> "DEBUG", target |-> [path |-> FALSE, parts |-> <<"", "B">>]],
                  [level |-> "WARN",  target |-> [path |-> TRUE, parts |-> <<"b", "c">>]]}]

a_b  == <<"a", ".", "b">>
a__b == <<"a", "_", "b">>
Clashes ==
  [Quiet EXCEPT
     !.raw.trace_options = [k \in {<<"">>} |-> Raw(<<Debug>>, <<"EKGBackend", "Stdout MachineFormat">>, <<>>)],
     !.given = {"Ekg"}, !.dispatches = 3,
     !.messages = {Message(Ns(S), <<>>, ms) :
        ms \in {<<Metric("IntM", a_b, <<>>, 5), Metric("CounterM", <<"b">>, <<>>, <<2>>)>>,
                <<Metric("PrometheusM", a_b, <<"l">>, 0), Metric("DoubleM", <<"7">>, <<>>, 1)>>,
                <<Metric("CounterM", a__b, <<>>, <<>>), Metric("CounterM", <<"b">>, <<>>, <<>>)>>}}]

Points ==
  [Quiet EXCEPT
     !.raw = [trace_options |-> [k \in {<<"">>} |-> Raw(<<Debug>>, <<"DatapointBackend">>, <<>>)],
              node_name |-> <<"node">>],
     !.forwarder = <<[queue_size |-> <<>>]>>, !.given = {"Datapoint"}, !.responder_store = TRUE,
     !.messages = {Message(Ns(ns), <<>>, <<>>) : ns \in {A, NodeInfo}}, !.dispatches = 4,
     !.asked = {<<A, NodeInfo>>, <<A>>}, !.requests = 2]

MCSetups == {Limits, BelowOne, Delivery, Clashes, Points,
             [Points EXCEPT !.responder_store = FALSE, !.raw.node_name = <<>>, !.dispatches = 2]}
================================================================================
