--------------------------- MODULE MCNodeRegistry ---------------------------
(***************************************************************************)
(* NodeRegistry for TLC: connections a1 and a2 are accepted, b1 and b2 are *)
(* made one after the other by dialer d1, c1 by dialer d2.  With shared    *)
(* ids the two dialers have the same address.                              *)
(***************************************************************************)
EXTENDS NodeRegistry, TLC

CONSTANTS a1, a2, b1, b2, c1, d1, d2, i1, i2, i3, i4

Sources ==
  [c \in Conns |-> IF c \in {a1, a2} THEN Listener
                   ELSE IF c \in {b1, b2} THEN d1 ELSE d2]

OwnIds ==
  [c \in Conns |-> CASE c = a1 -> i1 [] c = a2 -> i2
                     [] c \in {b1, b2} -> i3 [] c = c1 -> i4]

SharedIds ==
  [c \in Conns |-> CASE c = a1 -> i1 [] c = a2 -> i2 [] OTHER -> i3]
=============================================================================
