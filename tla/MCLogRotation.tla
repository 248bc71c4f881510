--------------------------- MODULE MCLogRotation ---------------------------
(***************************************************************************)
(* LogRotation on small sets for TLC: two connections of one node, or one  *)
(* connection each of two nodes whose names sanitise to one directory.     *)
(***************************************************************************)
EXTENDS LogRotation, TLC

CONSTANTS w1, w2, n1, n2, d1

OneNode  == [w \in {w1, w2} |-> n1]
TwoNodes == (w1 :> n1) @@ (w2 :> n2)
OneDir   == [n \in {n1, n2} |-> d1]
OneNodeDir == [n \in {n1} |-> d1]

(* Swapping the connections is sound where they have the same name, and    *)
(* swapping them together with their names where each has its own.         *)
SameNode  == {(w1 :> w2) @@ (w2 :> w1)}
SwapNodes == {(w1 :> w2) @@ (w2 :> w1) @@ (n1 :> n2) @@ (n2 :> n1)}
=============================================================================
