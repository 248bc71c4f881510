-------------------------- MODULE NodeRegistryProofs --------------------------
(***************************************************************************)
(* The registry of hermod-tracer lists the connected nodes, for any number *)
(* of connections and dialers.                                             *)
(***************************************************************************)
EXTENDS NodeRegistry, SequenceLemmas

Entry == [id : Ids, conn : Conns]
EntryOf(c) == [id |-> IdOf[c], conn |-> c]

(* A handler exists that has not returned yet.                             *)
Active(c) == hpc[c] \notin {"none", "ended"}

(* IndexMap: a key has one entry.  An entry is that of a session whose     *)
(* handler has yet to deregister it.                                       *)
NodesInv ==
  /\ \A i, j \in 1..Len(nodes) : nodes[i].id = nodes[j].id => i = j
  /\ \A e \in ToSet(nodes) :
       e = EntryOf(e.conn) /\ hpc[e.conn] \in {"running", "leaving"}

(* A dialer has at most one handler, and waits for it.                     *)
DialerInv ==
  /\ \A c \in Conns : link[c] = "unused" => hpc[c] = "none"
  /\ \A c \in Conns :
       Active(c) /\ SourceOf[c] # Listener => dpc[SourceOf[c]] = "session"
  /\ \A c, d \in Conns :
       Active(c) /\ Active(d) /\ SourceOf[c] = SourceOf[d] /\ SourceOf[c] # Listener
         => c = d

(* What is on its way from a node was said in its present session.         *)
InboxInv == \A c \in Conns : hpc[c] # "ended" => ToSet(inbox[c]) \subseteq said[c]

RegInv == RegTypeOK /\ NodesInv /\ DialerInv /\ InboxInv

-----------------------------------------------------------------------------
(* ToSet and Range are the same set.                                       *)
LEMMA ToSetIndexed ==
  ASSUME NEW S, NEW s \in Seq(S)
  PROVE  /\ ToSet(s) = Range(s)
         /\ \A x : x \in ToSet(s) <=> \E i \in 1..Len(s) : s[i] = x
         /\ \A x \in ToSet(s) : x \in S
  <1>1. ToSet(s) = Range(s)
    BY DEF ToSet, Range
  <1>2. \A x : x \in Range(s) <=> \E i \in 1..Len(s) : s[i] = x
    BY RangeIndexed
  <1>3. \A i \in 1..Len(s) : s[i] \in S
    BY ElementOfSeq
  <1> QED
    BY <1>1, <1>2, <1>3

(* The elements of a sequence, and of it without its first element or with *)
(* one more.                                                               *)
LEMMA ElementsOf ==
  ASSUME NEW S, NEW s \in Seq(S)
  PROVE  /\ DOMAIN s = 1..Len(s) /\ Len(s) \in Nat
         /\ \A i \in 1..Len(s) : s[i] \in S
         /\ s # << >> => /\ Head(s) \in ToSet(s) /\ Tail(s) \in Seq(S)
                         /\ ToSet(Tail(s)) \subseteq ToSet(s)
         /\ \A x \in S : /\ Append(s, x) \in Seq(S)
                         /\ ToSet(Append(s, x)) = ToSet(s) \cup {x}
  <1>1. DOMAIN s = 1..Len(s) /\ Len(s) \in Nat /\ \A i \in 1..Len(s) : s[i] \in S
    BY LenProperties, ElementOfSeq
  <1>2. ASSUME s # << >>
        PROVE  /\ Head(s) \in ToSet(s) /\ Tail(s) \in Seq(S)
               /\ ToSet(Tail(s)) \subseteq ToSet(s)
    <2>1. Tail(s) \in Seq(S) /\ Range(s) = {Head(s)} \cup Range(Tail(s))
      BY <1>2, SeqFacts, RangeTail
    <2>2. ToSet(s) = Range(s) /\ ToSet(Tail(s)) = Range(Tail(s))
      BY <2>1, ToSetIndexed
    <2> QED
      BY <2>1, <2>2
  <1>3. ASSUME NEW x \in S
        PROVE  Append(s, x) \in Seq(S) /\ ToSet(Append(s, x)) = ToSet(s) \cup {x}
    <2>1. Append(s, x) \in Seq(S) /\ Range(Append(s, x)) = Range(s) \cup {x}
      BY AppendProperties, RangeAppend
    <2>2. ToSet(s) = Range(s) /\ ToSet(Append(s, x)) = Range(Append(s, x))
      BY <2>1, ToSetIndexed
    <2> QED
      BY <2>1, <2>2
  <1> QED
    BY <1>1, <1>2, <1>3

(* What insert leaves in the registry.                                     *)
LEMMA InsertedFacts ==
  ASSUME nodes \in Seq(Entry), NEW c \in Conns,
         \A i, j \in 1..Len(nodes) : nodes[i].id = nodes[j].id => i = j
  PROVE  /\ Inserted(c) \in Seq(Entry)
         /\ \A i, j \in 1..Len(Inserted(c)) : Inserted(c)[i].id = Inserted(c)[j].id => i = j
         /\ ToSet(Inserted(c)) = {e \in ToSet(nodes) : e.id # IdOf[c]} \cup {EntryOf(c)}
  <1> DEFINE new == Inserted(c)
             n == Len(nodes)
  <1>1. EntryOf(c) \in Entry /\ EntryOf(c).id = IdOf[c]
    BY RegistryAssumption DEF Entry, EntryOf
  <1>2. /\ DOMAIN nodes = 1..n /\ n \in Nat
        /\ \A i \in 1..n : nodes[i] \in Entry
    BY ElementsOf
  <1>3. CASE Places(c) = {}
    <2>1. new = Append(nodes, EntryOf(c))
      BY <1>3 DEF Inserted, EntryOf
    <2>2. /\ new \in Seq(Entry) /\ Len(new) = n + 1 /\ new[n + 1] = EntryOf(c)
          /\ \A i \in 1..n : new[i] = nodes[i]
      BY <1>1, <2>1, AppendProperties
    <2>3. \A i \in 1..n : nodes[i].id # IdOf[c]
      BY <1>2, <1>3 DEF Places
    <2>4. ToSet(new) = ToSet(nodes) \cup {EntryOf(c)}
      BY <1>1, <2>1, ElementsOf
    <2>5. \A e \in ToSet(nodes) : e.id # IdOf[c]
      BY <1>2, <2>3 DEF ToSet
    <2> HIDE DEF new
    <2>6. \A i, j \in 1..(n + 1) : new[i].id = new[j].id => i = j
      <3>1. \A i \in 1..(n + 1) : i \in 1..n \/ i = n + 1
        BY <1>2
      <3> QED
        BY <1>1, <2>2, <2>3, <3>1
    <2> QED
      BY <2>2, <2>4, <2>5, <2>6 DEF new
  <1>4. CASE Places(c) # {}
    <2>1. new = [i \in 1..n |-> IF i \in Places(c) THEN EntryOf(c) ELSE nodes[i]]
      BY <1>2, <1>4 DEF Inserted, EntryOf
    <2>2. new \in Seq(Entry) /\ Len(new) = n
      <3>1. \A i \in 1..n : (IF i \in Places(c) THEN EntryOf(c) ELSE nodes[i]) \in Entry
        BY <1>1, <1>2
      <3>2. new \in [1..n -> Entry]
        BY <2>1, <3>1
      <3> HIDE DEF new
      <3> QED
        BY <1>2, <3>2, IsASeq
    <2>3. \A i \in 1..n : new[i].id = nodes[i].id
      BY <1>1, <1>2, <2>1 DEF Places
    <2>4. PICK k \in 1..n : nodes[k].id = IdOf[c]
      BY <1>2, <1>4 DEF Places
    <2>5. \A i \in 1..n : new[i] = IF nodes[i].id = IdOf[c] THEN EntryOf(c) ELSE nodes[i]
      BY <1>2, <2>1 DEF Places
    <2> HIDE DEF new
    <2>6. /\ \A x : x \in ToSet(new) <=> \E i \in 1..n : new[i] = x
          /\ \A x : x \in ToSet(nodes) <=> \E i \in 1..n : nodes[i] = x
      BY <2>2, ToSetIndexed
    <2>7. ToSet(new) = {e \in ToSet(nodes) : e.id # IdOf[c]} \cup {EntryOf(c)}
      BY <2>4, <2>5, <2>6
    <2> QED
      BY <2>2, <2>3, <2>7 DEF new
  <1> QED
    BY <1>3, <1>4

(* What shift_remove leaves in the registry.                               *)
LEMMA RemovedFacts ==
  ASSUME nodes \in Seq(Entry), NEW c \in Conns,
         \A i, j \in 1..Len(nodes) : nodes[i].id = nodes[j].id => i = j
  PROVE  /\ Removed(c) \in Seq(Entry)
         /\ \A i, j \in 1..Len(Removed(c)) : Removed(c)[i].id = Removed(c)[j].id => i = j
         /\ ToSet(Removed(c)) = {e \in ToSet(nodes) : e.id # IdOf[c]}
  <1> DEFINE new == Removed(c)
             n == Len(nodes)
  <1>1. /\ DOMAIN nodes = 1..n /\ n \in Nat
        /\ \A x : x \in ToSet(nodes) <=> \E i \in 1..n : nodes[i] = x
    BY ElementsOf, ToSetIndexed
  <1>2. CASE Places(c) = {}
    <2>1. new = nodes /\ \A i \in 1..n : nodes[i].id # IdOf[c]
      BY <1>1, <1>2 DEF Removed, Places
    <2> HIDE DEF new
    <2> QED
      BY <1>1, <2>1 DEF new
  <1>3. CASE Places(c) # {}
    <2>1. PICK k \in 1..n : nodes[k].id = IdOf[c] /\ new = RemoveAt(nodes, k)
      BY <1>1, <1>3 DEF Removed, Places
    <2> HIDE DEF new
    <2>2. /\ new \in Seq(Entry) /\ Len(new) = n - 1
          /\ \A j \in 1..(n - 1) : new[j] = IF j < k THEN nodes[j] ELSE nodes[j + 1]
      BY <2>1, RemoveAtFacts
    <2>3. \A x : x \in ToSet(new) <=> \E i \in 1..(n - 1) : new[i] = x
      BY <2>2, ToSetIndexed
    <2>4. \A i \in 1..n : i # k => nodes[i].id # IdOf[c]
      BY <2>1
    <2>5. \A i \in 1..n : i # k => \E j \in 1..(n - 1) : new[j] = nodes[i]
      <3> SUFFICES ASSUME NEW i \in 1..n, i # k
                   PROVE  \E j \in 1..(n - 1) : new[j] = nodes[i]
        OBVIOUS
      <3>1. CASE i < k
        <4>1. i \in 1..(n - 1) /\ new[i] = nodes[i]
          BY <1>1, <2>2, <3>1
        <4> QED
          BY <4>1
      <3>2. CASE i > k
        <4>1. i - 1 \in 1..(n - 1) /\ ~(i - 1 < k) /\ (i - 1) + 1 = i
          BY <1>1, <3>2
        <4>2. new[i - 1] = nodes[i]
          BY <2>2, <4>1
        <4> QED
          BY <4>1, <4>2
      <3> QED
        BY <1>1, <3>1, <3>2
    <2>6. \A j \in 1..(n - 1) : \E i \in 1..n : i # k /\ new[j] = nodes[i]
      <3> SUFFICES ASSUME NEW j \in 1..(n - 1)
                   PROVE  \E i \in 1..n : i # k /\ new[j] = nodes[i]
        OBVIOUS
      <3>1. CASE j < k
        <4>1. j \in 1..n /\ j # k /\ new[j] = nodes[j]
          BY <1>1, <2>2, <3>1
        <4> QED
          BY <4>1
      <3>2. CASE ~(j < k)
        <4>1. j + 1 \in 1..n /\ j + 1 # k /\ new[j] = nodes[j + 1]
          BY <1>1, <2>2, <3>2
        <4> QED
          BY <4>1
      <3> QED
        BY <3>1, <3>2
    <2>7. ToSet(new) = {e \in ToSet(nodes) : e.id # IdOf[c]}
      <3>1. \A x : x \in ToSet(new) <=> \E i \in 1..n : i # k /\ nodes[i] = x
        <4>1. ASSUME NEW x, x \in ToSet(new)
              PROVE  \E i \in 1..n : i # k /\ nodes[i] = x
          BY <2>3, <2>6, <4>1
        <4>2. ASSUME NEW i \in 1..n, i # k
              PROVE  nodes[i] \in ToSet(new)
          BY <2>3, <2>5, <4>2
        <4> QED
          BY <4>1, <4>2
      <3> QED
        BY <1>1, <2>1, <2>4, <3>1
    <2>8. \A i, j \in 1..(n - 1) : new[i].id = new[j].id => i = j
      <3> SUFFICES ASSUME NEW i \in 1..(n - 1), NEW j \in 1..(n - 1), new[i].id = new[j].id
                   PROVE  i = j
        OBVIOUS
      <3> DEFINE old(l) == IF l < k THEN l ELSE l + 1
      <3>1. \A l \in 1..(n - 1) : old(l) \in 1..n /\ new[l] = nodes[old(l)]
        BY <1>1, <2>2
      <3>2. old(i) = old(j) => i = j
        OBVIOUS
      <3> HIDE DEF old
      <3> QED
        BY <3>1, <3>2
    <2> QED
      BY <2>2, <2>7, <2>8 DEF new
  <1> QED
    BY <1>2, <1>3

-----------------------------------------------------------------------------
(* The invariant                                                           *)

(* Nothing is connected, listed or under way at the start.                 *)
LEMMA RegInvInit == RegInit => RegInv
  <1> SUFFICES ASSUME RegInit PROVE RegInv
    OBVIOUS
  <1>1. nodes = << >> /\ nodes \in Seq(Entry) /\ Len(nodes) = 0
    BY EmptySeq DEF RegInit
  <1>2. \A c \in Conns : inbox[c] = << >> /\ ToSet(inbox[c]) = {}
    BY DEF RegInit, ToSet
  <1>3. ToSet(nodes) = {}
    BY <1>1 DEF ToSet
  <1>4. RegTypeOK
    BY <1>1, EmptySeq DEF RegInit, RegTypeOK, Entry
  <1>5. NodesInv /\ DialerInv /\ InboxInv
    BY <1>1, <1>2, <1>3 DEF RegInit, NodesInv, DialerInv, InboxInv, Active
  <1> QED
    BY <1>4, <1>5 DEF RegInv

(* A step that leaves the registry alone and ends no listed session.       *)
LEMMA NodesKept ==
  ASSUME NodesInv, UNCHANGED nodes,
         \A c \in Conns : hpc[c] \in {"running", "leaving"} => hpc'[c] \in {"running", "leaving"},
         nodes \in Seq(Entry)
  PROVE  NodesInv'
  <1>1. \A e \in ToSet(nodes) : e.conn \in Conns
    <2>1. \A e \in ToSet(nodes) : e \in Entry
      BY ToSetIndexed
    <2> QED
      BY <2>1 DEF Entry
  <1> QED
    BY <1>1 DEF NodesInv, EntryOf

(* Making a connection.                                                    *)
LEMMA StepConnect ==
  ASSUME RegInv, NEW c \in Conns, AcceptConnection(c) \/ Dial(c)
  PROVE  RegInv'
  <1> USE RegistryAssumption
  <1>1. /\ link[c] = "unused" /\ hpc[c] = "none"
        /\ link' = [link EXCEPT ![c] = "up"]
        /\ hpc' = [hpc EXCEPT ![c] = "handshake"]
        /\ UNCHANGED <<network, inbox, said, tasks, trace, nodes>>
    BY DEF AcceptConnection, Dial, Established, RegInv, DialerInv
  <1>2. RegTypeOK'
    BY <1>1 DEF RegInv, RegTypeOK, AcceptConnection, Dial
  <1>3. NodesInv'
    BY <1>1, NodesKept DEF RegInv, RegTypeOK, Entry
  <1>4. DialerInv'
    <2>1. CASE AcceptConnection(c)
      BY <1>1, <2>1 DEF RegInv, RegTypeOK, DialerInv, Active, AcceptConnection
    <2>2. CASE Dial(c)
      <3>1. \A d \in Conns : SourceOf[d] = SourceOf[c] => ~Active(d)
        BY <2>2 DEF RegInv, DialerInv, Dial
      <3> QED
        BY <1>1, <2>2, <3>1 DEF RegInv, RegTypeOK, DialerInv, Active, Dial
    <2> QED
      BY <2>1, <2>2
  <1>5. InboxInv'
    BY <1>1 DEF RegInv, RegTypeOK, InboxInv
  <1> QED
    BY <1>2, <1>3, <1>4, <1>5 DEF RegInv

(* A dialer between two connections.                                       *)
LEMMA StepDialer ==
  ASSUME RegInv, NEW d \in Dialers, DialFails(d) \/ DialAgain(d)
  PROVE  RegInv'
  <1>1. /\ UNCHANGED <<peerVars, handlerVars, nodes>>
        /\ dpc[d] # "session"
        /\ \E x \in {"connecting", "sleeping"} : dpc' = [dpc EXCEPT ![d] = x]
    BY DEF DialFails, DialAgain
  <1> USE DEF peerVars, handlerVars
  <1>2. RegTypeOK'
    BY <1>1 DEF RegInv, RegTypeOK
  <1>3. NodesInv'
    BY <1>1, NodesKept DEF RegInv, RegTypeOK, Entry
  <1>4. DialerInv'
    BY <1>1, RegistryAssumption DEF RegInv, RegTypeOK, DialerInv, Active
  <1>5. InboxInv'
    BY <1>1 DEF RegInv, InboxInv
  <1> QED
    BY <1>2, <1>3, <1>4, <1>5 DEF RegInv

(* The node at the other end.                                              *)
LEMMA StepPeer ==
  ASSUME RegInv, NEW c \in Conns, Peer(c)
  PROVE  RegInv'
  <1> USE DEF handlerVars
  <1>1. CASE Break(c)
    <2>1. RegTypeOK'
      BY <1>1 DEF RegInv, RegTypeOK, Break
    <2>2. NodesInv'
      BY <1>1, NodesKept DEF RegInv, RegTypeOK, Entry, Break
    <2>3. DialerInv'
      BY <1>1 DEF RegInv, RegTypeOK, DialerInv, Active, Break
    <2>4. InboxInv'
      BY <1>1 DEF RegInv, InboxInv, Break
    <2> QED
      BY <2>1, <2>2, <2>3, <2>4 DEF RegInv
  <1>2. ASSUME NEW word \in Words, Says(c, word)
        PROVE  RegInv'
    <2>1. /\ said' = [said EXCEPT ![c] = said[c] \cup {word}]
          /\ \/ inbox' = inbox
             \/ /\ word \in {"NodeInfo", "Done"}
                /\ inbox' = [inbox EXCEPT ![c] = Append(inbox[c], word)]
          /\ UNCHANGED <<network, link, handlerVars, nodes, dpc>>
      BY <1>2 DEF Says, Words
    <2>2. /\ said \in [Conns -> SUBSET Words]
          /\ inbox \in [Conns -> Seq({"NodeInfo", "Done"})]
      BY DEF RegInv, RegTypeOK
    <2>3. word \in {"NodeInfo", "Done"} =>
            /\ Append(inbox[c], word) \in Seq({"NodeInfo", "Done"})
            /\ ToSet(Append(inbox[c], word)) = ToSet(inbox[c]) \cup {word}
      BY <2>2, ElementsOf
    <2>4. RegTypeOK'
      BY <2>1, <2>2, <2>3 DEF RegInv, RegTypeOK
    <2>5. NodesInv'
      BY <2>1, NodesKept DEF RegInv, RegTypeOK, Entry
    <2>6. DialerInv'
      BY <2>1 DEF RegInv, DialerInv, Active
    <2>7. InboxInv'
      BY <2>1, <2>2, <2>3 DEF RegInv, InboxInv
    <2> QED
      BY <2>4, <2>5, <2>6, <2>7 DEF RegInv
  <1> QED
    BY <1>1, <1>2 DEF Peer

(* The handler on its way to register.                                     *)
LEMMA StepSetUp ==
  ASSUME RegInv, NEW c \in Conns, HandshakeDone(c) \/ ResolveName(c)
  PROVE  RegInv'
  <1>1. /\ hpc[c] \in {"handshake", "resolving"}
        /\ \E x \in {"resolving", "registering"} : hpc' = [hpc EXCEPT ![c] = x]
        /\ \/ inbox' = inbox
           \/ inbox[c] # << >> /\ inbox' = [inbox EXCEPT ![c] = Tail(inbox[c])]
        /\ UNCHANGED <<network, link, said, tasks, trace, nodes, dpc>>
    BY DEF HandshakeDone, ResolveName, peerVars
  <1>2. inbox[c] # << >> => /\ Tail(inbox[c]) \in Seq({"NodeInfo", "Done"})
                            /\ ToSet(Tail(inbox[c])) \subseteq ToSet(inbox[c])
    BY ElementsOf DEF RegInv, RegTypeOK
  <1>3. RegTypeOK'
    <2>1. inbox' \in [Conns -> Seq({"NodeInfo", "Done"})]
      BY <1>1, <1>2 DEF RegInv, RegTypeOK
    <2>2. hpc' \in [Conns -> {"none", "handshake", "resolving", "registering",
                              "running", "leaving", "ended"}]
      BY <1>1 DEF RegInv, RegTypeOK
    <2> QED
      BY <1>1, <2>1, <2>2 DEF RegInv, RegTypeOK
  <1>4. NodesInv'
    BY <1>1, NodesKept DEF RegInv, RegTypeOK, Entry
  <1>5. DialerInv'
    BY <1>1 DEF RegInv, RegTypeOK, DialerInv, Active
  <1>6. InboxInv'
    BY <1>1, <1>2 DEF RegInv, RegTypeOK, InboxInv
  <1> QED
    BY <1>3, <1>4, <1>5, <1>6 DEF RegInv

(* register() lists the session in place of an earlier one of its id.      *)
LEMMA StepRegister ==
  ASSUME RegInv, NEW c \in Conns, Register(c)
  PROVE  RegInv'
  <1>1. /\ hpc[c] = "registering" /\ hpc' = [hpc EXCEPT ![c] = "running"]
        /\ nodes' = Inserted(c)
        /\ tasks' = [tasks EXCEPT ![c] = IF HasEkg THEN Tasks ELSE Tasks \ {"ekg"}]
        /\ UNCHANGED <<peerVars, trace, dpc>>
    BY DEF Register
  <1>2. /\ nodes' \in Seq(Entry)
        /\ \A i, j \in 1..Len(nodes') : nodes'[i].id = nodes'[j].id => i = j
        /\ ToSet(nodes') = {e \in ToSet(nodes) : e.id # IdOf[c]} \cup {EntryOf(c)}
    BY <1>1, InsertedFacts DEF RegInv, RegTypeOK, NodesInv, Entry
  <1>3. RegTypeOK'
    BY <1>1, <1>2 DEF RegInv, RegTypeOK, Entry, Tasks, peerVars
  <1>4. NodesInv'
    <2>1. \A e \in ToSet(nodes) : e.conn \in Conns
      <3>1. nodes \in Seq(Entry)
        BY DEF RegInv, RegTypeOK, Entry
      <3>2. \A e \in ToSet(nodes) : e \in Entry
        BY <3>1, ToSetIndexed
      <3> QED
        BY <3>2 DEF Entry
    <2>2. EntryOf(c).conn = c /\ hpc'[c] = "running"
      BY <1>1 DEF EntryOf, RegInv, RegTypeOK
    <2>3. \A e \in ToSet(nodes) : e = EntryOf(e.conn) /\ hpc[e.conn] \in {"running", "leaving"}
      BY DEF RegInv, NodesInv
    <2>4. \A d \in Conns \ {c} : hpc'[d] = hpc[d]
      BY <1>1 DEF RegInv, RegTypeOK
    <2> QED
      BY <1>1, <1>2, <2>1, <2>2, <2>3, <2>4 DEF NodesInv, EntryOf
  <1>5. DialerInv'
    BY <1>1 DEF RegInv, RegTypeOK, DialerInv, Active, peerVars
  <1>6. InboxInv'
    BY <1>1 DEF RegInv, RegTypeOK, InboxInv, peerVars
  <1> QED
    BY <1>3, <1>4, <1>5, <1>6 DEF RegInv

(* The handler returns, from the handshake or after deregister().          *)
LEMMA StepReturns ==
  ASSUME RegInv, NEW c \in Conns,
         HandshakeRefused(c) \/ HandshakeCut(c) \/ Deregister(c)
  PROVE  RegInv'
  <1>1. /\ hpc[c] \in {"handshake", "leaving"}
        /\ hpc' = [hpc EXCEPT ![c] = "ended"]
        /\ said' = [said EXCEPT ![c] = {}]
        /\ dpc' = [d \in Dialers |-> IF d = SourceOf[c] THEN "sleeping" ELSE dpc[d]]
        /\ UNCHANGED <<network, link, inbox, tasks, trace>>
        /\ \/ hpc[c] = "handshake" /\ UNCHANGED nodes
           \/ nodes' = Removed(c)
    BY DEF HandshakeRefused, HandshakeCut, Deregister, HandlerReturns
  <1>2. nodes' = Removed(c) =>
          /\ nodes' \in Seq(Entry)
          /\ \A i, j \in 1..Len(nodes') : nodes'[i].id = nodes'[j].id => i = j
          /\ ToSet(nodes') = {e \in ToSet(nodes) : e.id # IdOf[c]}
    <2>1. nodes \in Seq(Entry)
      BY DEF RegInv, RegTypeOK, Entry
    <2>2. \A i, j \in 1..Len(nodes) : nodes[i].id = nodes[j].id => i = j
      BY DEF RegInv, NodesInv
    <2> QED
      BY <2>1, <2>2, RemovedFacts
  <1>3. RegTypeOK'
    BY <1>1, <1>2 DEF RegInv, RegTypeOK, Entry
  <1>4. NodesInv'
    <2>1. CASE hpc[c] = "handshake" /\ UNCHANGED nodes
      BY <1>1, <2>1, NodesKept DEF RegInv, RegTypeOK, Entry
    <2>2. CASE nodes' = Removed(c)
      <3>1. \A e \in ToSet(nodes) : e.conn \in Conns
        <4>1. \A e \in ToSet(nodes) : e \in Entry
          <5>1. nodes \in Seq(Entry)
            BY DEF RegInv, RegTypeOK, Entry
          <5> QED
            BY <5>1, ToSetIndexed
        <4> QED
          BY <4>1 DEF Entry
      <3>2. \A e \in ToSet(nodes) : e = EntryOf(e.conn) /\ hpc[e.conn] \in {"running", "leaving"}
        BY DEF RegInv, NodesInv
      <3>3. \A d \in Conns \ {c} : hpc'[d] = hpc[d]
        BY <1>1 DEF RegInv, RegTypeOK
      <3>4. \A e \in ToSet(nodes') : e \in ToSet(nodes) /\ e.conn # c
        BY <1>2, <2>2, <3>2 DEF EntryOf
      <3> QED
        BY <1>2, <2>2, <3>1, <3>2, <3>3, <3>4 DEF NodesInv
    <2> QED
      BY <1>1, <2>1, <2>2
  <1>5. DialerInv'
    <2>1. \A d \in Conns : Active(d)' <=> Active(d) /\ d # c
      BY <1>1 DEF RegInv, RegTypeOK, Active
    <2>2. \A d \in Conns \ {c} : Active(d) /\ SourceOf[d] # Listener => SourceOf[d] # SourceOf[c]
      BY <1>1 DEF RegInv, DialerInv, Active
    <2>3. \A d \in Conns : SourceOf[d] # Listener => SourceOf[d] \in Dialers
      BY RegistryAssumption
    <2>4. \A d \in Conns : link[d] = "unused" => hpc'[d] = "none"
      BY <1>1 DEF RegInv, RegTypeOK, DialerInv
    <2> QED
      BY <1>1, <2>1, <2>2, <2>3, <2>4 DEF RegInv, DialerInv
  <1>6. InboxInv'
    BY <1>1 DEF RegInv, RegTypeOK, InboxInv
  <1> QED
    BY <1>3, <1>4, <1>5, <1>6 DEF RegInv

(* A task's step, or its end, which at most wakes the handler.             *)
LEMMA StepTask ==
  ASSUME RegInv, NEW c \in Conns, TaskStep(c)
  PROVE  RegInv'
  <1> USE DEF peerVars
  <1>1. /\ \/ hpc' = hpc
           \/ hpc' = [hpc EXCEPT ![c] = IF hpc[c] = "running" THEN "leaving" ELSE hpc[c]]
        /\ \/ tasks' = tasks
           \/ \E t \in Tasks : tasks' = [tasks EXCEPT ![c] = tasks[c] \ {t}]
        /\ \/ trace' = trace
           \/ \E x \in {"waiting", "handling"} : trace' = [trace EXCEPT ![c] = x]
        /\ \/ inbox' = inbox
           \/ inbox[c] # << >> /\ inbox' = [inbox EXCEPT ![c] = Tail(inbox[c])]
           \/ inbox' = [inbox EXCEPT ![c] = << >>]
        /\ UNCHANGED <<network, link, said, nodes, dpc>>
    <2>1. ASSUME NEW t \in Tasks, TaskEnds(c, t)
          PROVE  /\ tasks' = [tasks EXCEPT ![c] = tasks[c] \ {t}]
                 /\ hpc' = [hpc EXCEPT ![c] = IF hpc[c] = "running" THEN "leaving" ELSE hpc[c]]
      BY <2>1 DEF TaskEnds
    <2>2. CASE TraceTaskEnds(c)
      BY <2>1, <2>2 DEF TraceTaskEnds, Tasks
    <2>3. CASE EkgTaskEnds(c)
      BY <2>1, <2>3 DEF EkgTaskEnds, Tasks
    <2>4. CASE IdleLoop(c)
      BY <2>1, <2>4 DEF IdleLoop, Tasks
    <2>5. CASE TracesArrive(c) \/ TracesHandled(c)
      BY <2>5 DEF TracesArrive, TracesHandled
    <2>6. ASSUME NEW t \in Tasks, Cancelled(c, t)
          PROVE  /\ hpc' = hpc /\ tasks' = [tasks EXCEPT ![c] = tasks[c] \ {t}]
                 /\ trace' = trace \/ trace' = [trace EXCEPT ![c] = "waiting"]
                 /\ inbox' = inbox \/ inbox' = [inbox EXCEPT ![c] = << >>]
                 /\ UNCHANGED <<network, link, said, nodes, dpc>>
      BY <2>6 DEF Cancelled
    <2> QED
      BY <2>2, <2>3, <2>4, <2>5, <2>6 DEF TaskStep
  <1>2. /\ inbox[c] # << >> => /\ Tail(inbox[c]) \in Seq({"NodeInfo", "Done"})
                               /\ ToSet(Tail(inbox[c])) \subseteq ToSet(inbox[c])
        /\ << >> \in Seq({"NodeInfo", "Done"}) /\ ToSet(<< >>) = {}
    BY ElementsOf, EmptySeq DEF RegInv, RegTypeOK, ToSet
  <1>3. RegTypeOK'
    <2>1. inbox' \in [Conns -> Seq({"NodeInfo", "Done"})]
      BY <1>1, <1>2 DEF RegInv, RegTypeOK
    <2>2. hpc' \in [Conns -> {"none", "handshake", "resolving", "registering",
                              "running", "leaving", "ended"}]
      BY <1>1 DEF RegInv, RegTypeOK
    <2>3. tasks' \in [Conns -> SUBSET Tasks]
      <3>1. tasks \in [Conns -> SUBSET Tasks] /\ tasks[c] \in SUBSET Tasks
        BY DEF RegInv, RegTypeOK
      <3>2. ASSUME NEW t \in Tasks, tasks' = [tasks EXCEPT ![c] = tasks[c] \ {t}]
            PROVE  tasks' \in [Conns -> SUBSET Tasks]
        <4>1. tasks[c] \ {t} \in SUBSET Tasks
          BY <3>1
        <4> QED
          BY <3>1, <3>2, <4>1
      <3> QED
        BY <1>1, <3>1, <3>2
    <2>4. trace' \in [Conns -> {"waiting", "handling"}]
      BY <1>1 DEF RegInv, RegTypeOK
    <2> QED
      BY <1>1, <2>1, <2>2, <2>3, <2>4 DEF RegInv, RegTypeOK
  <1>4. \A d \in Conns :
          \/ hpc'[d] = hpc[d]
          \/ hpc[d] = "running" /\ hpc'[d] = "leaving"
    BY <1>1 DEF RegInv, RegTypeOK
  <1>5. NodesInv'
    <2>1. \A d \in Conns : hpc[d] \in {"running", "leaving"} => hpc'[d] \in {"running", "leaving"}
      BY <1>4
    <2> QED
      BY <1>1, <2>1, NodesKept DEF RegInv, RegTypeOK, Entry
  <1>6. DialerInv'
    BY <1>1, <1>4 DEF RegInv, DialerInv, Active
  <1>7. InboxInv'
    <2>1. \A d \in Conns : ToSet(inbox'[d]) \subseteq ToSet(inbox[d])
      BY <1>1, <1>2 DEF RegInv, RegTypeOK
    <2> QED
      BY <1>1, <1>4, <2>1 DEF RegInv, InboxInv
  <1> QED
    BY <1>3, <1>5, <1>6, <1>7 DEF RegInv

(* Every step keeps the invariant.                                         *)
LEMMA RegInvStep == RegInv /\ [RegNext]_regVars => RegInv'
  <1> SUFFICES ASSUME RegInv, [RegNext]_regVars PROVE RegInv'
    OBVIOUS
  <1>1. ASSUME NEW c \in Conns, AcceptConnection(c) \/ Dial(c) PROVE RegInv'
    BY <1>1, StepConnect
  <1>2. ASSUME NEW c \in Conns, Handler(c) PROVE RegInv'
    BY <1>2, StepSetUp, StepRegister, StepReturns DEF Handler
  <1>3. ASSUME NEW c \in Conns, TaskStep(c) \/ Peer(c) PROVE RegInv'
    BY <1>3, StepTask, StepPeer
  <1>4. ASSUME NEW d \in Dialers, DialFails(d) \/ DialAgain(d) PROVE RegInv'
    BY <1>4, StepDialer
  <1>5. CASE UNCHANGED regVars
    BY <1>5 DEF regVars, peerVars, handlerVars, RegInv, RegTypeOK, NodesInv,
                DialerInv, InboxInv, Active
  <1> QED
    BY <1>1, <1>2, <1>3, <1>4, <1>5 DEF RegNext

-----------------------------------------------------------------------------
(* The properties                                                          *)

(* The invariant holds throughout.                                         *)
LEMMA RegInvCorrect == RegSpec => []RegInv
  BY RegInvInit, RegInvStep, PTL DEF RegSpec

(* Whatever the nodes say and whenever connections break, the handlers,    *)
(* their tasks and the dialers stay in the states acceptor.rs gives them.  *)
THEOREM RegistryTypes == RegSpec => []RegTypeOK
  <1>1. RegInv => RegTypeOK
    BY DEF RegInv
  <1> QED
    BY <1>1, RegInvCorrect, PTL

(* The registry lists no node twice, and none whose handler has returned:  *)
(* register() writes over the entry of the same id, so deregister(), which *)
(* takes out the entry of its own id, leaves none behind.                  *)
THEOREM RegistryHasNoGhosts == RegSpec => []NoGhostNodes
  <1>1. ASSUME RegInv
        PROVE  NoGhostNodes
    <2>1. DOMAIN nodes = 1..Len(nodes)
      BY <1>1 DEF RegInv, RegTypeOK
    <2> QED
      BY <1>1, <2>1 DEF RegInv, NodesInv, NoGhostNodes
  <1> QED
    BY <1>1, RegInvCorrect, PTL

(* A session ends for cause, in every step: its connection broke, or the   *)
(* node ended a protocol in this same session.                             *)
THEOREM SessionsOnlyEndForCause == RegSpec => SessionsEndForCause
  <1>1. ASSUME RegInv, [RegNext]_regVars, NEW c \in Conns,
               hpc[c] = "running", hpc'[c] # "running"
        PROVE  link[c] = "broken" \/ said[c] \cap {"Done", "EkgDone"} # {}
    <2> USE <1>1 DEF RegInv, RegTypeOK
    <2>1. CASE \E d \in Conns : AcceptConnection(d) \/ Dial(d)
      BY <2>1 DEF AcceptConnection, Dial, Established, DialerInv
    <2>2. CASE \E d \in Conns : Handler(d)
      BY <2>2 DEF Handler, HandshakeDone, HandshakeRefused, HandshakeCut, ResolveName,
                  Register, Deregister, HandlerReturns
    <2>3. CASE \E d \in Conns : Peer(d)
      BY <2>3 DEF Peer, Break, Says, handlerVars
    <2>4. CASE \E d \in Conns : TracesArrive(d) \/ TracesHandled(d) \/ \E t \in Tasks : Cancelled(d, t)
      BY <2>4 DEF TracesArrive, TracesHandled, Cancelled
    <2>5. CASE \E d \in Conns : TraceTaskEnds(d) \/ EkgTaskEnds(d)
      BY <2>5 DEF TraceTaskEnds, EkgTaskEnds, TaskEnds
    <2>6. CASE \E d \in Conns : IdleLoop(d)
      <3>1. /\ inbox[c] # << >> => Head(inbox[c]) \in ToSet(inbox[c])
            /\ ToSet(inbox[c]) \subseteq said[c]
        BY ElementsOf DEF InboxInv
      <3> QED
        BY <2>6, <3>1 DEF IdleLoop, InboxClosed, TaskEnds
    <2>7. CASE \E d \in Dialers : DialFails(d) \/ DialAgain(d)
      BY <2>7 DEF DialFails, DialAgain, handlerVars
    <2>8. CASE UNCHANGED regVars
      BY <2>8 DEF regVars, handlerVars
    <2> QED
      BY <2>1, <2>2, <2>3, <2>4, <2>5, <2>6, <2>7, <2>8 DEF RegNext, TaskStep
  <1>2. RegInv /\ [RegNext]_regVars =>
          [\A c \in Conns :
             hpc[c] = "running" /\ hpc'[c] # "running" =>
               link[c] = "broken" \/ said[c] \cap {"Done", "EkgDone"} # {}]_regVars
    BY <1>1
  <1> QED
    BY <1>2, RegInvCorrect, PTL DEF RegSpec, SessionsEndForCause

-----------------------------------------------------------------------------
(* Connections that share no id with others than their own dialer's        *)

(* Every connection has an id of its own, but those of one dialer: the     *)
(* listener counts its connections, and a dialer's id is its address.      *)
IdsAreOwn ==
  \A c, d \in Conns :
    c # d /\ IdOf[c] = IdOf[d] => SourceOf[c] = SourceOf[d] /\ SourceOf[c] # Listener

(* A session is in the registry from register() to deregister().           *)
ListedInv ==
  \A c \in Conns : hpc[c] \in {"running", "leaving"} => EntryOf(c) \in ToSet(nodes)

(* Of the sessions of one id at most one is not over, and so no handler    *)
(* replaces or removes an entry that is not its own.                       *)
LEMMA ListedStep ==
  ASSUME IdsAreOwn, RegInv, ListedInv, [RegNext]_regVars
  PROVE  ListedInv'
  <1> USE DEF RegInv, RegTypeOK
  <1>1. \A c, d \in Conns : Active(c) /\ Active(d) /\ IdOf[c] = IdOf[d] => c = d
    BY DEF IdsAreOwn, DialerInv
  <1>2. ASSUME UNCHANGED nodes,
               \A c \in Conns : hpc'[c] \in {"running", "leaving"} =>
                                  hpc[c] \in {"running", "leaving"}
        PROVE  ListedInv'
    BY <1>2 DEF ListedInv, EntryOf
  <1>3. CASE \E c \in Conns : AcceptConnection(c) \/ Dial(c)
    BY <1>2, <1>3 DEF AcceptConnection, Dial, Established
  <1>4. ASSUME NEW c \in Conns, Register(c)
        PROVE  ListedInv'
    <2>1. /\ hpc[c] = "registering" /\ hpc' = [hpc EXCEPT ![c] = "running"]
          /\ ToSet(nodes') = {e \in ToSet(nodes) : e.id # IdOf[c]} \cup {EntryOf(c)}
      BY <1>4, InsertedFacts DEF Register, NodesInv, Entry
    <2>2. \A d \in Conns \ {c} : hpc[d] \in {"running", "leaving"} => IdOf[d] # IdOf[c]
      BY <1>1, <2>1 DEF Active
    <2> QED
      BY <2>1, <2>2 DEF ListedInv, EntryOf
  <1>5. ASSUME NEW c \in Conns, Deregister(c)
        PROVE  ListedInv'
    <2>1. /\ hpc[c] = "leaving" /\ hpc' = [hpc EXCEPT ![c] = "ended"]
          /\ ToSet(nodes') = {e \in ToSet(nodes) : e.id # IdOf[c]}
      BY <1>5, RemovedFacts DEF Deregister, HandlerReturns, NodesInv, Entry
    <2>2. \A d \in Conns \ {c} : hpc[d] \in {"running", "leaving"} => IdOf[d] # IdOf[c]
      BY <1>1, <2>1 DEF Active
    <2> QED
      BY <2>1, <2>2 DEF ListedInv, EntryOf
  <1>6. CASE \E c \in Conns : HandshakeDone(c) \/ HandshakeRefused(c) \/ HandshakeCut(c)
                                \/ ResolveName(c)
    BY <1>2, <1>6 DEF HandshakeDone, HandshakeRefused, HandshakeCut, ResolveName, HandlerReturns
  <1>7. CASE \E c \in Conns : TaskStep(c)
    BY <1>2, <1>7 DEF TaskStep, TraceTaskEnds, EkgTaskEnds, IdleLoop, TracesArrive,
                      TracesHandled, Cancelled, TaskEnds
  <1>8. CASE \E c \in Conns : Peer(c)
    BY <1>2, <1>8 DEF Peer, Break, Says, handlerVars
  <1>9. CASE \E d \in Dialers : DialFails(d) \/ DialAgain(d)
    BY <1>2, <1>9 DEF DialFails, DialAgain, handlerVars
  <1>10. CASE UNCHANGED regVars
    BY <1>2, <1>10 DEF regVars, handlerVars
  <1> QED
    BY <1>3, <1>4, <1>5, <1>6, <1>7, <1>8, <1>9, <1>10 DEF RegNext, Handler

(* With ids of their own, the running sessions are all listed, each with   *)
(* its own NodeState, however often a dialer comes back under its id.      *)
THEOREM RegistryListsTheConnected ==
  ASSUME IdsAreOwn
  PROVE  RegSpec => []ConnectedAreListed
  <1>1. RegInit => ListedInv
    BY DEF RegInit, ListedInv
  <1>2. RegInv /\ ListedInv /\ [RegNext]_regVars => ListedInv'
    BY ListedStep
  <1>3. ListedInv => ConnectedAreListed
    BY DEF ListedInv, ConnectedAreListed, EntryOf
  <1> QED
    BY <1>1, <1>2, <1>3, RegInvCorrect, PTL DEF RegSpec

=============================================================================
