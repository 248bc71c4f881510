-------------------------------- MODULE MCWire --------------------------------
(***************************************************************************)
(* Messages for Wire: every constructor of the four protocols, with lists  *)
(* of no, one and two elements, absent and present optional fields, the    *)
(* first and the last value of each enumeration and the limits of widths.  *)
(***************************************************************************)
EXTENDS Wire

Trace(human, ns, sev, det, nanos) ==
  [human |-> human, machine |-> "m", namespace |-> ns, severity |-> sev, details |-> det,
   time |-> <<17, nanos>>, hostname |-> "h", thread |-> "t"]

TraceA == Trace(<<>>, <<"a", "b">>, 0, 0, 0)
TraceB == Trace(<<"x">>, <<>>, SeverityMax, DetailMax, 999)

MCMessages ==
  [trace     |-> {Foreign, Done,
                  [is |-> "Request", blocking |-> TRUE, count |-> 65535],
                  [is |-> "Reply", traces |-> <<>>],
                  [is |-> "Reply", traces |-> <<TraceB>>],
                  [is |-> "Reply", traces |-> <<TraceA, TraceB>>]},
   handshake |-> {Foreign, [is |-> "Propose", versions |-> version_table_v1(42)],
                  [is |-> "Propose", versions |-> version_table_v1(0) @@ (2 :> 7)],
                  [is |-> "Accept", version |-> 1, magic |-> 42],
                  [is |-> "Refuse", versions |-> <<>>], [is |-> "Refuse", versions |-> <<1, 2>>]},
   datapoint |-> {Foreign, Done,
                  [is |-> "Request", names |-> <<>>], [is |-> "Request", names |-> <<"a", "b">>],
                  [is |-> "Reply", items |-> <<>>],
                  [is |-> "Reply", items |-> <<<<"a", <<>>>>, <<"b", <<<<1, 2>>>>>>>>],
                  [is |-> "Reply", items |-> <<<<"a", <<<<>>>>>>>>]},
   ekg       |-> {Foreign, Done, [is |-> "Req", all |-> TRUE], [is |-> "Req", all |-> FALSE],
                  [is |-> "Resp", metrics |-> <<>>],
                  [is |-> "Resp", metrics |-> ("a" :> <<"counter", 5>>) @@ ("b" :> <<"other", 0>>)],
                  [is |-> "Resp", metrics |-> ("a" :> <<"gauge", -3>>) @@ ("b" :> <<"label", "l">>)]}]
================================================================================
