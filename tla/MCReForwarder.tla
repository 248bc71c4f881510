--------------------------- MODULE MCReForwarder ---------------------------
(***************************************************************************)
(* ReForwarder on small sets for TLC: the filter lets the namespaces below *)
(* Node through and drops the others, so a batch passes whole, in part or  *)
(* not at all.                                                             *)
(***************************************************************************)
EXTENDS ReForwarder

Peers == <<"Node", "Peers">>
Other == <<"Other">>

NodeFilter == {<<"Node">>}
SomeBatches == {<<Peers, Peers>>, <<Other, Peers>>, <<Other>>}
=============================================================================
