--------------------------- MODULE TraceForwardInv ---------------------------
(***************************************************************************)
(* The parts of the inductive invariants behind the safety properties of   *)
(* TraceForward (proved in TraceForwardProofs).                            *)
(* The properties are not inductive by themselves: whether a reply may go  *)
(* out, and whether a batch variable is empty when a trace is moved into   *)
(* it, depends on where each task is and on what is still on its way to    *)
(* it; and the order in which the consumer reads depends on the order in   *)
(* which traces stand in every place they pass.                            *)
(***************************************************************************)
EXTENDS TraceForward

(* A handler holds traces exactly while it pushes them.                    *)
PendingOK == \A c \in Conns : apc[c] = "pushing" <=> pending[c] # << >>

TypeInv == TypeOK /\ PendingOK

NoRequest(s)  == \A i \in 1..Len(s) : s[i].type # "Request"
OneRequest(s) == \A i, j \in 1..Len(s) :
                   s[i].type = "Request" /\ s[j].type = "Request" => i = j

(* What may be on connection c, given where its handler is.                *)
UpInv(c) ==
  /\ Len(up[c]) <= 1
  /\ apc[c] \in {"idle", "pushing", "ended"} => up[c] = << >>
  /\ apc[c] = "accepting" /\ up[c] # << >> => Head(up[c]).type = "Propose"
  /\ apc[c] = "awaiting" /\ up[c] # << >> => Head(up[c]).type = "Reply"

DownInv(c) ==
  /\ OneRequest(down[c])
  /\ apc[c] \in {"accepting", "idle", "pushing"} => NoRequest(down[c])
  /\ up[c] # << >> => NoRequest(down[c])
  /\ link[c] = "up" /\ apc[c] = "ended" => NoRequest(down[c])
  /\ link[c] = "up" /\ apc[c] = "awaiting" /\ up[c] = << >> =>
       ~NoRequest(down[c])

UnusedInv(c) ==
  link[c] = "unused" =>
    up[c] = << >> /\ down[c] = << >> /\ apc[c] = "accepting"

(* A request does not overtake the answer to the handshake.                *)
HandshakeInv ==
  fpc = "handshake" =>
    /\ link[conn] # "unused"
    /\ down[conn] # << >> => Head(down[conn]).type # "Request"
    /\ down[conn] = << >> /\ link[conn] = "up" => apc[conn] = "accepting"

ProtocolInv ==
  /\ \A c \in Conns : UpInv(c) /\ DownInv(c) /\ UnusedInv(c)
  /\ HandshakeInv

(* The forwarder holds a batch only while it drains or waits for a request.*)
BatchInv == fpc \notin {"draining", "request"} => batch = << >>

(* A trace nobody offered yet, or whose send() waits, was not accepted.    *)
FreshInv ==
  /\ \A l \in Location : Range(Held[l]) \cap fresh = {}
  /\ fresh \cap (Discarded \cup Range(accepted)) = {}
  /\ Range(waiting) \cap Range(accepted) = {}

-----------------------------------------------------------------------------
(* Traces in line                                                          *)

(* The traces of R in s are in the order of acc.                           *)
InLine(s, R, acc) ==
  \A i, j \in DOMAIN s :
    i < j /\ s[i] \in R /\ s[j] \in R => Before(acc, s[i], s[j])

(* Those in s come before those in t.                                      *)
Ahead(s, t, R, acc) ==
  \A x \in Range(s) \cap R, y \in Range(t) \cap R : Before(acc, x, y)

(* Those in f[1], ..., f[n], one after the other, are in the order of acc. *)
Lined(n, f, R, acc) ==
  /\ \A k \in 1..n : InLine(f[k], R, acc)
  /\ \A k, l \in 1..n : k < l => Ahead(f[k], f[l], R, acc)

(* From the queue to the replies on connection c.                          *)
Leaving(c) == <<replied[c], batch, queue>>

(* From the replies on connection c to the consumer.                       *)
Arriving(c) == <<consumed, channel, pending[c], InFlight(c)>>

(* What left over a connection stays in line, between it the traces of     *)
(* other connections.  A trace leaves over one connection only.            *)
OrderInv ==
  /\ IsInjective(accepted)
  /\ \A c \in Conns :
       /\ Range(replied[c]) \subseteq Range(accepted)
       /\ Range(pending[c]) \cup Range(InFlight(c)) \subseteq Range(replied[c])
       /\ \A d \in Conns \ {c} : Range(replied[c]) \cap Range(replied[d]) = {}
       /\ Lined(3, Leaving(c), Traces, accepted)
       /\ Lined(4, Arriving(c), Range(replied[c]), accepted)

(* A batch that waits for a request is not empty, nor is a reply.          *)
FullInv ==
  /\ fpc \in {"draining", "request"} => batch # << >>
  /\ \A c \in Conns : NextUp(c, "Reply") => Head(up[c]).traces # << >>
=============================================================================
