----------------------------- MODULE LossyQueue -----------------------------
(***************************************************************************)
(* What trace forwarding promises from end to end: a trace that was        *)
(* accepted is delivered at most once, or is lost, and is never both.      *)
(* Nothing is delivered that was not accepted.  Order is not promised.     *)
(***************************************************************************)
EXTENDS Naturals, Sequences, Functions

CONSTANT Traces

VARIABLES
  taken,       \* the traces accepted so far
  delivered,   \* the traces delivered so far, in order
  gone         \* the accepted traces that will never be delivered

qvars == <<taken, delivered, gone>>

Outstanding == taken \ (Range(delivered) \cup gone)

Init == taken = {} /\ delivered = << >> /\ gone = {}

Take(t) ==
  /\ t \in Traces \ taken
  /\ taken' = taken \cup {t}
  /\ UNCHANGED <<delivered, gone>>

Deliver(t) ==
  /\ t \in Outstanding
  /\ delivered' = Append(delivered, t)
  /\ UNCHANGED <<taken, gone>>

Lose ==
  /\ gone' \subseteq gone \cup Outstanding
  /\ gone \subseteq gone'
  /\ UNCHANGED <<taken, delivered>>

Next == (\E t \in Traces : Take(t) \/ Deliver(t)) \/ Lose

Spec == Init /\ [][Next]_qvars
=============================================================================
