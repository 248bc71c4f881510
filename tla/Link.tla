-------------------------------- MODULE Link --------------------------------
(***************************************************************************)
(* The connections between one forwarder and the acceptor it is configured *)
(* for: a Unix or TCP socket with a pallas multiplexer at each end.  That  *)
(* code is external; what is modelled is what src/forwarder.rs and         *)
(* src/acceptor.rs see of it: per connection a FIFO of complete messages   *)
(* in each direction, until the connection breaks.                         *)
(*                                                                         *)
(* Breaking cuts each direction at an arbitrary message.  The messages     *)
(* before the cut already reached the reader's ChannelBuffer and can still *)
(* be read; the others are gone.  A writer may learn of the break when it  *)
(* sends, or may have its message swallowed by the multiplexer's buffer.   *)
(***************************************************************************)
EXTENDS TraceMessages, FiniteSets

CONSTANTS
  Conns,       \* connection attempts that succeed; one is used per (re)connect
  Faults,      \* which of "break", "refuse", "done", "consumer" may happen
  MaxBreaks    \* bound: connections that may break

ASSUME LinkAssumption ==
  /\ Faults \subseteq {"break", "refuse", "done", "consumer"}
  /\ MaxBreaks \in Nat

VARIABLES
  link,    \* connection -> "unused", "up" or "broken"
  up,      \* connection -> messages on their way to the acceptor
  down,    \* connection -> messages on their way to the forwarder
  lost     \* history: accepted traces discarded by a failure

linkVars == <<link, up, down, lost>>

LinkTypeOK ==
  /\ link \in [Conns -> {"unused", "up", "broken"}]
  /\ up \in [Conns -> Seq(ForwarderMessage)]
  /\ down \in [Conns -> Seq(AcceptorMessage)]
  /\ lost \subseteq Traces

LinkInit ==
  /\ link = [c \in Conns |-> "unused"]
  /\ up = [c \in Conns |-> << >>]
  /\ down = [c \in Conns |-> << >>]
  /\ lost = {}

(* The next message for the acceptor, or for the forwarder, is a `type`.   *)
NextUp(c, type)   == up[c] # << >> /\ Head(up[c]).type = type
NextDown(c, type) == down[c] # << >> /\ Head(down[c]).type = type

(* A receive fails once everything that arrived has been read.             *)
UpClosed(c)   == link[c] = "broken" /\ up[c] = << >>
DownClosed(c) == link[c] = "broken" /\ down[c] = << >>

(* Sending to the forwarder: queued on a live connection, lost on a dead   *)
(* one.                                                                    *)
Queued(msgs, c, m) == IF link[c] = "up" THEN Append(msgs, m) ELSE msgs

(* How a send on c may be reported to the sender: on a live connection as  *)
(* a success, on a dead one as either.                                     *)
SendOutcome(c) == IF link[c] = "up" THEN {TRUE} ELSE BOOLEAN

(* A new connection, with the forwarder's handshake proposal on it.        *)
Open(c) ==
  /\ link[c] = "unused"
  /\ link' = [link EXCEPT ![c] = "up"]
  /\ up' = [up EXCEPT ![c] = <<Propose>>]
  /\ UNCHANGED <<down, lost>>

(* The connection breaks: each reader keeps a prefix of what was sent.     *)
Break(c) ==
  /\ "break" \in Faults
  /\ link[c] = "up"
  /\ Cardinality({d \in Conns : link[d] = "broken"}) < MaxBreaks
  /\ link' = [link EXCEPT ![c] = "broken"]
  /\ \E i \in 0..Len(up[c]), j \in 0..Len(down[c]) :
       /\ up' = [up EXCEPT ![c] = SubSeq(@, 1, i)]
       /\ down' = [down EXCEPT ![c] = SubSeq(@, 1, j)]
       /\ lost' = lost \cup TracesIn(SubSeq(up[c], i + 1, Len(up[c])))
=============================================================================
