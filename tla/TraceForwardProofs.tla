------------------------- MODULE TraceForwardProofs -------------------------
(***************************************************************************)
(* Every variable of TraceForward keeps its type, for every set of traces  *)
(* and connections and every capacity; and the two ends of a connection    *)
(* keep the trace-forward protocol: at most one request or reply is on its *)
(* way, and exactly while the handler waits for a reply.  The second is    *)
(* proved from ProtocolInv, which also records the order of handshake and  *)
(* requests and what a broken connection may hold.                         *)
(*                                                                         *)
(* Where the traces are is known exactly in every reachable state: no      *)
(* trace is duplicated, none vanishes, and the system implements the       *)
(* promise of LossyQueue.  Each action of the system is one of the moves   *)
(* between places that the third part of the module accounts for.          *)
(* The last part shows that these moves keep the traces in line, so that   *)
(* what leaves over one connection is consumed in the order in which it    *)
(* was accepted, and that a reply holds at least one trace.                *)
(***************************************************************************)
EXTENDS TraceForwardInv, SequenceLemmas, FiniteSetTheorems

(* A message that is sent keeps the type of its direction.                 *)
LEMMA QueuedType ==
  ASSUME NEW S, NEW msgs \in Seq(S), NEW m \in S, NEW c
  PROVE  Queued(msgs, c, m) \in Seq(S)
  BY AppendProperties DEF Queued

-----------------------------------------------------------------------------
(* Type correctness                                                        *)

(* The initial state is well typed.                                        *)
LEMMA TypeInit == Init => TypeInv
  <1> SUFFICES ASSUME Init PROVE TypeInv
    OBVIOUS
  <1>1. LinkTypeOK
    BY EmptySeq DEF Init, LinkInit, LinkTypeOK
  <1>2. ForwarderTypeOK
    BY EmptySeq DEF Init, ForwarderInit, ForwarderTypeOK, ForwarderPc
  <1>3. AcceptorTypeOK /\ PendingOK
    BY EmptySeq DEF Init, AcceptorInit, AcceptorTypeOK, AcceptorPc, PendingOK
  <1> QED
    BY <1>1, <1>2, <1>3 DEF TypeInv, TypeOK

(* Logging keeps the types.                                                *)
LEMMA TypeProducers ==
  ASSUME TypeInv, Producers, UNCHANGED acceptorVars
  PROVE  TypeInv'
  <1> USE DEF TypeInv, TypeOK, acceptorVars
  <1>1. AcceptorTypeOK' /\ PendingOK'
    BY DEF AcceptorTypeOK, PendingOK
  <1>2. ASSUME NEW t \in Traces, Send(t) \/ TrySend(t)
        PROVE  LinkTypeOK' /\ ForwarderTypeOK'
    <2>1. LinkTypeOK'
      BY <1>2 DEF Send, TrySend, linkVars, LinkTypeOK
    <2>2. queue' \in Seq(Traces) /\ accepted' \in Seq(Traces) /\ waiting' \in Seq(Traces)
      <3>1. \A s \in Seq(Traces) : Append(s, t) \in Seq(Traces)
        BY AppendProperties
      <3> QED
        BY <1>2, <3>1 DEF Send, TrySend, Enqueue, ForwarderTypeOK
    <2> QED
      BY <1>2, <2>1, <2>2 DEF Send, TrySend, Enqueue, ForwarderTypeOK
  <1>3. ASSUME NEW i \in 1..Len(waiting), FinishSend(i)
        PROVE  LinkTypeOK' /\ ForwarderTypeOK'
    <2>1. LinkTypeOK'
      BY <1>3 DEF FinishSend, linkVars, LinkTypeOK
    <2>2. waiting[i] \in Traces
      BY ElementOfSeq DEF ForwarderTypeOK
    <2>3. queue' \in Seq(Traces) /\ accepted' \in Seq(Traces)
      <3>1. queue \in Seq(Traces) /\ accepted \in Seq(Traces)
        BY DEF ForwarderTypeOK
      <3>2. /\ Append(queue, waiting[i]) \in Seq(Traces)
            /\ Append(accepted, waiting[i]) \in Seq(Traces)
        BY <2>2, <3>1, AppendProperties
      <3> QED
        BY <1>3, <3>2 DEF FinishSend, Enqueue
    <2>4. waiting' \in Seq(Traces)
      BY <1>3, RemoveAtFacts DEF FinishSend, ForwarderTypeOK
    <2> QED
      BY <1>3, <2>1, <2>3, <2>4 DEF FinishSend, ForwarderTypeOK
  <1> QED
    BY <1>1, <1>2, <1>3 DEF Producers

(* The forwarder task keeps the types.                                     *)
LEMMA TypeForwarderTask ==
  ASSUME TypeInv, ForwarderTask, UNCHANGED acceptorVars
  PROVE  TypeInv'
  <1> USE DEF TypeInv, TypeOK, acceptorVars
  <1>1. AcceptorTypeOK' /\ PendingOK'
    BY DEF AcceptorTypeOK, PendingOK
  <1>2. /\ link \in [Conns -> {"unused", "up", "broken"}]
        /\ up \in [Conns -> Seq(ForwarderMessage)]
        /\ down \in [Conns -> Seq(AcceptorMessage)]
        /\ lost \subseteq Traces
    BY DEF LinkTypeOK
  <1>3. ASSUME NEW c \in Conns, Connect(c)
        PROVE  LinkTypeOK' /\ ForwarderTypeOK'
    <2>1. <<Propose>> \in Seq(ForwarderMessage)
      BY DEF ForwarderMessage
    <2>2. LinkTypeOK'
      BY <1>2, <1>3, <2>1 DEF Connect, Open, LinkTypeOK
    <2> QED
      BY <1>3, <2>2 DEF Connect, ForwarderTypeOK, ForwarderPc
  <1>4. ASSUME ConnectFails \/ WakeUp \/ StopDraining
        PROVE  LinkTypeOK' /\ ForwarderTypeOK'
    <2>1. LinkTypeOK'
      BY <1>2, <1>4 DEF ConnectFails, WakeUp, StopDraining, linkVars, LinkTypeOK
    <2>2. Backoff(reconnectDelay) \in Nat
      BY ForwarderAssumption DEF Backoff, ForwarderTypeOK
    <2>3. << >> \in Seq(Traces)
      BY EmptySeq
    <2> QED
      BY <1>4, <2>1, <2>2, <2>3
         DEF ConnectFails, WakeUp, StopDraining, GiveUp, ForwarderTypeOK, ForwarderPc
  <1>5. ASSUME HandshakeAnswered
        PROVE  LinkTypeOK' /\ ForwarderTypeOK'
    <2>1. Tail(down[conn]) \in Seq(AcceptorMessage)
      BY <1>2, <1>5, SeqFacts DEF HandshakeAnswered, ForwarderTypeOK
    <2>2. LinkTypeOK'
      BY <1>2, <1>5, <2>1 DEF HandshakeAnswered, LinkTypeOK
    <2>3. << >> \in Seq(Traces)
      BY EmptySeq
    <2> QED
      BY <1>5, <2>2, <2>3 DEF HandshakeAnswered, GiveUp, ForwarderTypeOK, ForwarderPc
  <1>6. ASSUME TakeFirst \/ TakeAnother
        PROVE  LinkTypeOK' /\ ForwarderTypeOK'
    <2>1. LinkTypeOK'
      BY <1>2, <1>6 DEF TakeFirst, TakeAnother, linkVars, LinkTypeOK
    <2>2. Head(queue) \in Traces /\ Tail(queue) \in Seq(Traces)
      BY <1>6, SeqFacts DEF TakeFirst, TakeAnother, ForwarderTypeOK
    <2>3. <<Head(queue)>> \in Seq(Traces) /\ Append(batch, Head(queue)) \in Seq(Traces)
      BY <2>2, AppendProperties DEF ForwarderTypeOK
    <2> QED
      BY <1>6, <2>1, <2>2, <2>3 DEF TakeFirst, TakeAnother, ForwarderTypeOK, ForwarderPc
  <1>7. ASSUME AnswerRequest
        PROVE  LinkTypeOK' /\ ForwarderTypeOK'
    <2> DEFINE k == Taken(Head(down[conn]).count)
               reply == SubSeq(batch, 1, k)
               rest == SubSeq(batch, k + 1, Len(batch))
    <2>1. conn \in Conns
      BY <1>7 DEF AnswerRequest, ForwarderTypeOK
    <2>2. /\ Head(down[conn]) \in AcceptorMessage
          /\ Tail(down[conn]) \in Seq(AcceptorMessage)
      BY <1>2, <1>7, <2>1, SeqFacts DEF AnswerRequest, NextDown
    <2>3. Head(down[conn]).count \in Nat
      <3>1. Head(down[conn]).type = "Request"
        BY <1>7 DEF AnswerRequest, NextDown
      <3>2. Head(down[conn]) \in [type : {"Request"}, count : RequestCounts]
        BY <2>2, <3>1 DEF AcceptorMessage, Accept, Refuse, Done
      <3> QED
        BY <3>2, RequestCountsAssumption
    <2>4. k \in 0..Len(batch) /\ Len(batch) \in Nat
      BY <2>3, LenProperties DEF Taken, ForwarderTypeOK
    <2> HIDE DEF k
    <2>5. reply \in Seq(Traces) /\ rest \in Seq(Traces)
      <3>1. batch \in Seq(Traces)
        BY DEF ForwarderTypeOK
      <3> QED
        BY <2>4, <3>1, SubSeqType
    <2> HIDE DEF reply, rest
    <2>6. Range(reply) \subseteq Traces /\ Range(rest) \subseteq Traces
      BY <2>5, RangeOfSeq
    <2>7. /\ up' = [up EXCEPT ![conn] = Queued(@, conn, TraceObjectsReply(reply))]
          /\ lost' = IF link[conn] = "up" THEN lost ELSE lost \cup Range(reply)
          /\ truncated' = truncated \cup Range(rest)
          /\ replied' = [replied EXCEPT ![conn] = @ \o reply]
      BY <1>7 DEF AnswerRequest, k, reply, rest
    <2>8. TraceObjectsReply(reply) \in ForwarderMessage
      BY <2>5 DEF TraceObjectsReply, ForwarderMessage
    <2>9. up' \in [Conns -> Seq(ForwarderMessage)]
      BY <1>2, <2>1, <2>7, <2>8, QueuedType
    <2>10. LinkTypeOK'
      BY <1>2, <1>7, <2>2, <2>6, <2>7, <2>9 DEF AnswerRequest, LinkTypeOK
    <2>11. replied' \in [Conns -> Seq(Traces)]
      BY <2>1, <2>5, <2>7, ConcatProperties DEF ForwarderTypeOK
    <2>12. << >> \in Seq(Traces)
      BY EmptySeq
    <2>13. truncated' \subseteq Traces
      BY <2>6, <2>7 DEF ForwarderTypeOK
    <2>14. /\ UNCHANGED <<fresh, waiting, queue, accepted, rejected, conn,
                          reconnectDelay>>
           /\ fpc' \in {"waiting", "sleeping"}
           /\ batch' = << >>
      BY <1>7 DEF AnswerRequest
    <2> QED
      BY <2>1, <2>10, <2>11, <2>12, <2>13, <2>14 DEF ForwarderTypeOK, ForwarderPc
  <1>8. ASSUME AcceptorIsDone
        PROVE  LinkTypeOK' /\ ForwarderTypeOK'
    <2>1. Tail(down[conn]) \in Seq(AcceptorMessage)
      BY <1>2, <1>8, SeqFacts DEF AcceptorIsDone, NextDown, ForwarderTypeOK
    <2>2. /\ Range(batch) \subseteq Traces
          /\ Range(queue) \subseteq Traces
          /\ Range(waiting) \subseteq Traces
      BY RangeOfSeq DEF ForwarderTypeOK
    <2>3. << >> \in Seq(Traces)
      BY EmptySeq
    <2>4. LinkTypeOK'
      BY <1>2, <1>8, <2>1, <2>2 DEF AcceptorIsDone, LinkTypeOK
    <2> QED
      BY <1>8, <2>2, <2>3, <2>4 DEF AcceptorIsDone, ForwarderTypeOK, ForwarderPc
  <1>9. ASSUME ConnectionLost
        PROVE  LinkTypeOK' /\ ForwarderTypeOK'
    <2>1. Range(batch) \subseteq Traces
      BY RangeOfSeq DEF ForwarderTypeOK
    <2>2. << >> \in Seq(Traces)
      BY EmptySeq
    <2>3. LinkTypeOK'
      BY <1>2, <1>9, <2>1 DEF ConnectionLost, LinkTypeOK
    <2> QED
      BY <1>9, <2>2, <2>3 DEF ConnectionLost, GiveUp, ForwarderTypeOK, ForwarderPc
  <1> QED
    BY <1>1, <1>3, <1>4, <1>5, <1>6, <1>7, <1>8, <1>9 DEF ForwarderTask

(* A handler keeps the types.                                              *)
LEMMA TypeHandler ==
  ASSUME TypeInv, NEW c \in Conns, Handler(c) \/ ForeignAcceptor(c),
         UNCHANGED forwarderVars
  PROVE  TypeInv'
  <1> USE DEF TypeInv, TypeOK, forwarderVars
  <1>1. ForwarderTypeOK'
    BY DEF ForwarderTypeOK
  <1>2. /\ link \in [Conns -> {"unused", "up", "broken"}]
        /\ up \in [Conns -> Seq(ForwarderMessage)]
        /\ down \in [Conns -> Seq(AcceptorMessage)]
        /\ lost \subseteq Traces
    BY DEF LinkTypeOK
  <1>3. /\ apc \in [Conns -> AcceptorPc]
        /\ pending \in [Conns -> Seq(Traces)]
        /\ channel \in Seq(Traces)
        /\ consumer \in BOOLEAN
        /\ consumed \in Seq(Traces)
    BY DEF AcceptorTypeOK
  <1>4. {"idle", "awaiting", "pushing", "ended"} \subseteq AcceptorPc
    BY DEF AcceptorPc
  <1>5. /\ Accept \in AcceptorMessage /\ Refuse \in AcceptorMessage
        /\ Done \in AcceptorMessage
        /\ \A n \in RequestCounts : TraceObjectsRequest(n) \in AcceptorMessage
    BY DEF AcceptorMessage, TraceObjectsRequest
  <1>6. ASSUME AcceptHandshake(c) \/ RefuseHandshake(c)
        PROVE  LinkTypeOK' /\ AcceptorTypeOK' /\ PendingOK'
    <2>1. Tail(up[c]) \in Seq(ForwarderMessage)
      BY <1>2, <1>6, SeqFacts DEF AcceptHandshake, RefuseHandshake, NextUp
    <2>2. down' \in [Conns -> Seq(AcceptorMessage)]
      <3>1. \A m \in AcceptorMessage : Queued(down[c], c, m) \in Seq(AcceptorMessage)
        BY <1>2, QueuedType
      <3> QED
        BY <1>2, <1>5, <1>6, <3>1 DEF AcceptHandshake, RefuseHandshake
    <2>3. LinkTypeOK'
      BY <1>2, <1>6, <2>1, <2>2 DEF AcceptHandshake, RefuseHandshake, LinkTypeOK
    <2>4. AcceptorTypeOK'
      BY <1>3, <1>4, <1>6 DEF AcceptHandshake, RefuseHandshake, Goto, AcceptorTypeOK
    <2>5. PendingOK'
      BY <1>3, <1>6 DEF AcceptHandshake, RefuseHandshake, Goto, PendingOK
    <2> QED
      BY <2>3, <2>4, <2>5
  <1>7. ASSUME RequestTraces(c) \/ SendDone(c)
        PROVE  LinkTypeOK' /\ AcceptorTypeOK' /\ PendingOK'
    <2>1. down' \in [Conns -> Seq(AcceptorMessage)]
      <3>1. \A m \in AcceptorMessage : Queued(down[c], c, m) \in Seq(AcceptorMessage)
        BY <1>2, QueuedType
      <3> QED
        BY <1>2, <1>5, <1>7, <3>1 DEF RequestTraces, SendDone
    <2>2. LinkTypeOK'
      BY <1>2, <1>7, <2>1 DEF RequestTraces, SendDone, LinkTypeOK
    <2>3. AcceptorTypeOK'
      BY <1>3, <1>4, <1>7 DEF RequestTraces, SendDone, Goto, AcceptorTypeOK
    <2>4. PendingOK'
      BY <1>3, <1>7 DEF RequestTraces, SendDone, Goto, PendingOK
    <2> QED
      BY <2>2, <2>3, <2>4
  <1>8. ASSUME ReceiveReply(c)
        PROVE  LinkTypeOK' /\ AcceptorTypeOK' /\ PendingOK'
    <2>1. /\ Tail(up[c]) \in Seq(ForwarderMessage)
          /\ Head(up[c]) \in ForwarderMessage
      BY <1>2, <1>8, SeqFacts DEF ReceiveReply, NextUp
    <2>2. Head(up[c]).traces \in Seq(Traces)
      BY <1>8, <2>1 DEF ReceiveReply, NextUp, ForwarderMessage, Propose
    <2>3. LinkTypeOK'
      BY <1>2, <1>8, <2>1 DEF ReceiveReply, LinkTypeOK
    <2>4. AcceptorTypeOK'
      BY <1>3, <1>4, <1>8, <2>2 DEF ReceiveReply, Goto, AcceptorTypeOK
    <2>5. PendingOK'
      BY <1>3, <1>8 DEF ReceiveReply, Goto, PendingOK
    <2> QED
      BY <2>3, <2>4, <2>5
  <1>9. ASSUME PushTrace(c)
        PROVE  LinkTypeOK' /\ AcceptorTypeOK' /\ PendingOK'
    <2>1. pending[c] # << >>
      BY <1>9 DEF PushTrace, PendingOK
    <2>2. /\ Head(pending[c]) \in Traces
          /\ Tail(pending[c]) \in Seq(Traces)
          /\ Tail(pending[c]) = << >> <=> Len(pending[c]) = 1
      BY <1>3, <2>1, SeqFacts
    <2>4. Append(channel, Head(pending[c])) \in Seq(Traces)
      BY <1>3, <2>2, AppendProperties
    <2>5. LinkTypeOK'
      BY <1>2, <1>9 DEF PushTrace, linkVars, LinkTypeOK
    <2>6. AcceptorTypeOK'
      BY <1>3, <1>4, <1>9, <2>2, <2>4 DEF PushTrace, Goto, AcceptorTypeOK
    <2>7. PendingOK'
      BY <1>3, <1>9, <2>2 DEF PushTrace, Goto, PendingOK
    <2> QED
      BY <2>5, <2>6, <2>7
  <1>10. ASSUME PushFails(c)
         PROVE  LinkTypeOK' /\ AcceptorTypeOK' /\ PendingOK'
    <2>1. Range(pending[c]) \subseteq Traces
      BY <1>3, RangeOfSeq
    <2>2. << >> \in Seq(Traces)
      BY EmptySeq
    <2>3. LinkTypeOK'
      BY <1>2, <1>10, <2>1 DEF PushFails, LinkTypeOK
    <2>4. AcceptorTypeOK'
      BY <1>3, <1>4, <1>10, <2>2 DEF PushFails, Goto, AcceptorTypeOK
    <2>5. PendingOK'
      BY <1>3, <1>10 DEF PushFails, Goto, PendingOK
    <2> QED
      BY <2>3, <2>4, <2>5
  <1>11. ASSUME HandlerEnds(c)
         PROVE  LinkTypeOK' /\ AcceptorTypeOK' /\ PendingOK'
    <2>1. LinkTypeOK'
      BY <1>2, <1>11 DEF HandlerEnds, linkVars, LinkTypeOK
    <2>2. AcceptorTypeOK'
      BY <1>3, <1>4, <1>11 DEF HandlerEnds, Goto, AcceptorTypeOK
    <2>3. PendingOK'
      BY <1>3, <1>11 DEF HandlerEnds, Goto, PendingOK
    <2> QED
      BY <2>1, <2>2, <2>3
  <1> QED
    BY <1>1, <1>6, <1>7, <1>8, <1>9, <1>10, <1>11 DEF Handler, ForeignAcceptor

(* The consumer keeps the types.                                           *)
LEMMA TypeConsumer ==
  ASSUME TypeInv, Consume \/ DropHandle, UNCHANGED forwarderVars
  PROVE  TypeInv'
  <1> USE DEF TypeInv, TypeOK, forwarderVars
  <1>1. ForwarderTypeOK'
    BY DEF ForwarderTypeOK
  <1>2. PendingOK'
    BY DEF Consume, DropHandle, PendingOK
  <1>3. channel \in Seq(Traces) /\ consumed \in Seq(Traces)
    BY DEF AcceptorTypeOK
  <1>4. CASE Consume
    <2>1. Head(channel) \in Traces /\ Tail(channel) \in Seq(Traces)
      BY <1>3, <1>4, SeqFacts DEF Consume
    <2>2. Append(consumed, Head(channel)) \in Seq(Traces)
      BY <1>3, <2>1, AppendProperties
    <2>3. AcceptorTypeOK'
      BY <1>4, <2>1, <2>2 DEF Consume, AcceptorTypeOK
    <2>4. LinkTypeOK'
      BY <1>4 DEF Consume, linkVars, LinkTypeOK
    <2> QED
      BY <1>1, <1>2, <2>3, <2>4
  <1>5. CASE DropHandle
    <2>1. Range(channel) \subseteq Traces /\ << >> \in Seq(Traces)
      BY <1>3, RangeOfSeq, EmptySeq
    <2>2. AcceptorTypeOK'
      BY <1>5, <2>1 DEF DropHandle, AcceptorTypeOK
    <2>3. LinkTypeOK'
      BY <1>5, <2>1 DEF DropHandle, LinkTypeOK
    <2> QED
      BY <1>1, <1>2, <2>2, <2>3
  <1> QED
    BY <1>4, <1>5

(* A break keeps the types.                                                *)
LEMMA TypeBreak ==
  ASSUME TypeInv, NEW c \in Conns, Break(c),
         UNCHANGED <<forwarderVars, acceptorVars>>
  PROVE  TypeInv'
  <1> USE DEF TypeInv, TypeOK, forwarderVars, acceptorVars
  <1>1. ForwarderTypeOK' /\ AcceptorTypeOK' /\ PendingOK'
    BY DEF ForwarderTypeOK, AcceptorTypeOK, PendingOK
  <1>2. /\ link \in [Conns -> {"unused", "up", "broken"}]
        /\ up \in [Conns -> Seq(ForwarderMessage)]
        /\ down \in [Conns -> Seq(AcceptorMessage)]
        /\ lost \subseteq Traces
    BY DEF LinkTypeOK
  <1>3. PICK i \in 0..Len(up[c]), j \in 0..Len(down[c]) :
          /\ up' = [up EXCEPT ![c] = SubSeq(@, 1, i)]
          /\ down' = [down EXCEPT ![c] = SubSeq(@, 1, j)]
          /\ lost' = lost \cup TracesIn(SubSeq(up[c], i + 1, Len(up[c])))
    BY DEF Break
  <1>4. SubSeq(up[c], 1, i) \in Seq(ForwarderMessage)
    BY <1>2, SubSeqType
  <1>5. SubSeq(down[c], 1, j) \in Seq(AcceptorMessage)
    BY <1>2, SubSeqType
  <1>6. ASSUME NEW msgs \in Seq(ForwarderMessage)
        PROVE  TracesIn(msgs) \subseteq Traces
    <2>1. ASSUME NEW m \in Range(msgs), m.type = "Reply"
          PROVE  Range(m.traces) \subseteq Traces
      <3>1. m \in ForwarderMessage
        BY RangeOfSeq
      <3>2. m.traces \in Seq(Traces)
        BY <2>1, <3>1 DEF ForwarderMessage, Propose
      <3> QED
        BY <3>2, RangeOfSeq
    <2> QED
      BY <2>1 DEF TracesIn
  <1>7. SubSeq(up[c], i + 1, Len(up[c])) \in Seq(ForwarderMessage)
    BY <1>2, LenProperties, SubSeqType
  <1>8. lost' \subseteq Traces
    BY <1>2, <1>3, <1>6, <1>7
  <1>9. LinkTypeOK'
    BY <1>2, <1>3, <1>4, <1>5, <1>8 DEF Break, LinkTypeOK
  <1> QED
    BY <1>1, <1>9

(* Every step keeps the types.                                             *)
LEMMA TypeStep == TypeInv /\ [Next]_vars => TypeInv'
  <1> SUFFICES ASSUME TypeInv, [Next]_vars PROVE TypeInv'
    OBVIOUS
  <1>1. CASE ForwarderStep
    BY <1>1, TypeProducers, TypeForwarderTask DEF ForwarderStep
  <1>2. CASE AcceptorStep
    BY <1>2, TypeHandler, TypeConsumer DEF AcceptorStep
  <1>3. CASE LinkStep
    BY <1>3, TypeBreak DEF LinkStep
  <1>4. CASE UNCHANGED vars
    BY <1>4 DEF vars, linkVars, forwarderVars, acceptorVars, TypeInv, TypeOK,
         LinkTypeOK, ForwarderTypeOK, AcceptorTypeOK, PendingOK
  <1> QED
    BY <1>1, <1>2, <1>3, <1>4 DEF Next

(* Every variable keeps its type, for every instance.                      *)
THEOREM TypeCorrect == Spec => []TypeOK
  <1>1. Spec => []TypeInv
    BY TypeInit, TypeStep, PTL DEF Spec
  <1>2. TypeInv => TypeOK
    BY DEF TypeInv
  <1> QED
    BY <1>1, <1>2, PTL

-----------------------------------------------------------------------------
(* The protocol                                                            *)

(* Reading the first message of a sequence.                                *)
LEMMA ReadMessage ==
  ASSUME NEW S, NEW s \in Seq(S), s # << >>
  PROVE  /\ NoRequest(s) => NoRequest(Tail(s)) /\ Head(s).type # "Request"
         /\ OneRequest(s) => OneRequest(Tail(s))
         /\ OneRequest(s) /\ Head(s).type = "Request" => NoRequest(Tail(s))
         /\ Head(s).type # "Request" /\ NoRequest(Tail(s)) => NoRequest(s)
  <1>1. /\ Len(s) \in Nat \ {0}
        /\ Len(Tail(s)) = Len(s) - 1
        /\ \A i \in 1..(Len(s) - 1) : Tail(s)[i] = s[i + 1]
        /\ Head(s) = s[1]
    BY SeqFacts, HeadTailProperties
  <1>2. /\ NoRequest(s) => NoRequest(Tail(s)) /\ Head(s).type # "Request"
        /\ OneRequest(s) => OneRequest(Tail(s))
    BY <1>1 DEF NoRequest, OneRequest
  <1>3. OneRequest(s) /\ Head(s).type = "Request" => NoRequest(Tail(s))
    BY <1>1 DEF NoRequest, OneRequest
  <1>4. ASSUME Head(s).type # "Request", NoRequest(Tail(s))
        PROVE  NoRequest(s)
    <2>1. ASSUME NEW i \in 1..Len(s) PROVE s[i].type # "Request"
      <3>1. CASE i = 1
        BY <1>1, <1>4, <3>1
      <3>2. CASE i # 1
        <4>1. i - 1 \in 1..(Len(s) - 1)
          BY <1>1, <3>2
        <4>2. Tail(s)[i - 1].type # "Request"
          BY <1>1, <1>4, <4>1 DEF NoRequest
        <4>3. Tail(s)[i - 1] = s[i]
          BY <1>1, <4>1
        <4> QED
          BY <4>2, <4>3
      <3> QED
        BY <3>1, <3>2
    <2> QED
      BY <2>1 DEF NoRequest
  <1> QED
    BY <1>2, <1>3, <1>4

(* Sending a message on a connection.                                      *)
LEMMA SendMessage ==
  ASSUME NEW S, NEW s \in Seq(S), NEW m \in S
  PROVE  /\ NoRequest(s) /\ m.type # "Request" => NoRequest(Append(s, m))
         /\ NoRequest(s) => OneRequest(Append(s, m))
         /\ m.type = "Request" => ~NoRequest(Append(s, m))
         /\ Head(Append(s, m)) = IF s = << >> THEN m ELSE Head(s)
         /\ Append(s, m) # << >>
  <1>1. /\ Len(s) \in Nat
        /\ Len(Append(s, m)) = Len(s) + 1
        /\ \A i \in 1..Len(s) : Append(s, m)[i] = s[i]
        /\ Append(s, m)[Len(s) + 1] = m
        /\ Append(s, m) # << >>
    BY LenProperties, AppendProperties
  <1>2. NoRequest(s) /\ m.type # "Request" => NoRequest(Append(s, m))
    BY <1>1 DEF NoRequest
  <1>3. ASSUME NoRequest(s),
               NEW i \in 1..(Len(s) + 1), Append(s, m)[i].type = "Request"
        PROVE  i = Len(s) + 1
    BY <1>1, <1>3 DEF NoRequest
  <1>4. NoRequest(s) => OneRequest(Append(s, m))
    BY <1>1, <1>3 DEF OneRequest
  <1>5. m.type = "Request" => ~NoRequest(Append(s, m))
    BY <1>1 DEF NoRequest
  <1>6. Head(Append(s, m)) = IF s = << >> THEN m ELSE Head(s)
    BY HeadTailAppend
  <1> QED
    BY <1>1, <1>2, <1>4, <1>5, <1>6

(* Losing the last messages of a sequence.                                 *)
LEMMA CutMessages ==
  ASSUME NEW S, NEW s \in Seq(S), NEW n \in 0..Len(s)
  PROVE  /\ NoRequest(s) => NoRequest(SubSeq(s, 1, n))
         /\ OneRequest(s) => OneRequest(SubSeq(s, 1, n))
         /\ Len(SubSeq(s, 1, n)) <= Len(s)
         /\ SubSeq(s, 1, n) # << >> =>
              s # << >> /\ Head(SubSeq(s, 1, n)) = Head(s)
  <1>1. Len(s) \in Nat /\ \A i \in 1..Len(s) : s[i] \in S
    BY LenProperties, ElementOfSeq
  <1>2. \A i \in 1..n : s[i] \in S
    BY <1>1
  <1>3. /\ SubSeq(s, 1, n) \in Seq(S)
        /\ Len(SubSeq(s, 1, n)) = IF 1 <= n THEN n - 1 + 1 ELSE 0
        /\ \A i \in 1..(n - 1 + 1) : SubSeq(s, 1, n)[i] = s[1 + i - 1]
    BY <1>1, <1>2, SubSeqProperties
  <1>4. Len(SubSeq(s, 1, n)) = n /\ \A i \in 1..n : SubSeq(s, 1, n)[i] = s[i]
    BY <1>1, <1>3
  <1>5. ASSUME SubSeq(s, 1, n) # << >>
        PROVE  s # << >> /\ Head(SubSeq(s, 1, n)) = Head(s)
    <2>1. n >= 1
      BY <1>1, <1>3, <1>4, <1>5, EmptySeq
    <2>2. s # << >>
      BY <1>1, <2>1, EmptySeq
    <2>3. Head(s) = s[1] /\ Head(SubSeq(s, 1, n)) = SubSeq(s, 1, n)[1]
      BY <1>3, <1>5, <2>2
    <2> QED
      BY <1>1, <1>4, <2>1, <2>2, <2>3
  <1> QED
    BY <1>1, <1>4, <1>5 DEF NoRequest, OneRequest

-----------------------------------------------------------------------------
(* ProtocolInv is inductive                                                *)

(* What the type invariant says of the connections.                        *)
LEMMA LinkTypes ==
  ASSUME TypeInv
  PROVE  /\ link \in [Conns -> {"unused", "up", "broken"}]
         /\ up \in [Conns -> Seq(ForwarderMessage)]
         /\ down \in [Conns -> Seq(AcceptorMessage)]
         /\ apc \in [Conns -> AcceptorPc]
         /\ fpc = "handshake" => conn \in Conns
         /\ fpc = "request" => conn \in Conns
  BY DEF TypeInv, TypeOK, LinkTypeOK, ForwarderTypeOK, AcceptorTypeOK

(* There is one message to read on a connection, if any.                   *)
LEMMA OneMessage ==
  ASSUME TypeInv, NEW c \in Conns, UpInv(c), up[c] # << >>
  PROVE  Len(up[c]) = 1 /\ Tail(up[c]) = << >>
  <1>1. up[c] \in Seq(ForwarderMessage)
    BY LinkTypes
  <1>2. /\ Len(up[c]) \in Nat \ {0}
        /\ Tail(up[c]) = << >> <=> Len(up[c]) = 1
    BY <1>1, SeqFacts
  <1> QED
    BY <1>2 DEF UpInv

(* Nothing is on its way before the first connection.                      *)
LEMMA ProtocolInit == Init => ProtocolInv
  <1> SUFFICES ASSUME Init PROVE ProtocolInv
    OBVIOUS
  <1>1. ASSUME NEW c \in Conns
        PROVE  /\ up[c] = << >> /\ down[c] = << >>
               /\ apc[c] = "accepting" /\ link[c] = "unused"
    BY DEF Init, LinkInit, AcceptorInit
  <1>2. Len(<< >>) = 0
    BY EmptySeq
  <1>3. \A c \in Conns : UpInv(c) /\ DownInv(c) /\ UnusedInv(c)
    BY <1>1, <1>2 DEF UpInv, DownInv, UnusedInv, NoRequest, OneRequest
  <1> QED
    BY <1>3 DEF ProtocolInv, HandshakeInv, Init, ForwarderInit

(* Steps that leave the connections and the handlers where they are.       *)
LEMMA ProtocolQuiet ==
  ASSUME ProtocolInv, UNCHANGED <<link, up, down, apc>>,
         fpc' = "handshake" => fpc = "handshake" /\ conn' = conn
  PROVE  ProtocolInv'
  <1>1. \A c \in Conns : UpInv(c)' /\ DownInv(c)' /\ UnusedInv(c)'
    BY DEF ProtocolInv, UpInv, DownInv, UnusedInv
  <1>2. HandshakeInv'
    BY DEF ProtocolInv, HandshakeInv
  <1> QED
    BY <1>1, <1>2 DEF ProtocolInv

(* Steps that touch one connection: the others keep their invariant.       *)
LEMMA ProtocolOthers ==
  ASSUME ProtocolInv, TypeInv, NEW c \in Conns,
         \A d \in Conns \ {c} :
           /\ link'[d] = link[d] /\ up'[d] = up[d]
           /\ down'[d] = down[d] /\ apc'[d] = apc[d]
  PROVE  \A d \in Conns \ {c} : UpInv(d)' /\ DownInv(d)' /\ UnusedInv(d)'
  BY DEF ProtocolInv, UpInv, DownInv, UnusedInv

(* The forwarder task sends a proposal first, then replies to requests.    *)
LEMMA ProtocolForwarder ==
  ASSUME TypeInv, ProtocolInv, ForwarderTask, UNCHANGED acceptorVars
  PROVE  ProtocolInv'
  <1> USE LinkTypes
  <1>0. apc' = apc
    BY DEF acceptorVars
  <1>1. ASSUME NEW c \in Conns, Connect(c)
        PROVE  ProtocolInv'
    <2>1. /\ link' = [link EXCEPT ![c] = "up"]
          /\ up' = [up EXCEPT ![c] = <<Propose>>]
          /\ down' = down /\ conn' = c /\ link[c] = "unused"
      BY <1>1 DEF Connect, Open
    <2>2. /\ up[c] = << >> /\ down[c] = << >> /\ apc[c] = "accepting"
      BY <2>1 DEF ProtocolInv, UnusedInv
    <2>3. Len(<<Propose>>) = 1 /\ Head(<<Propose>>) = Propose
      OBVIOUS
    <2>4. NoRequest(<< >>) /\ OneRequest(<< >>)
      BY EmptySeq DEF NoRequest, OneRequest
    <2>5. UpInv(c)' /\ DownInv(c)' /\ UnusedInv(c)'
      BY <1>0, <2>1, <2>2, <2>3, <2>4 DEF UpInv, DownInv, UnusedInv, Propose
    <2>6. \A d \in Conns \ {c} : UpInv(d)' /\ DownInv(d)' /\ UnusedInv(d)'
      BY <1>0, <2>1, ProtocolOthers
    <2>7. HandshakeInv'
      BY <1>0, <2>1, <2>2 DEF HandshakeInv
    <2> QED
      BY <2>5, <2>6, <2>7 DEF ProtocolInv
  <1>2. ASSUME ConnectFails \/ WakeUp \/ TakeFirst \/ TakeAnother
                 \/ StopDraining \/ ConnectionLost
        PROVE  ProtocolInv'
    <2>1. UNCHANGED <<link, up, down, apc>>
      BY <1>0, <1>2 DEF ConnectFails, WakeUp, TakeFirst, TakeAnother,
           StopDraining, ConnectionLost, linkVars
    <2>2. fpc' # "handshake"
      BY <1>2 DEF ConnectFails, WakeUp, TakeFirst, TakeAnother,
           StopDraining, ConnectionLost, GiveUp
    <2> QED
      BY <2>1, <2>2, ProtocolQuiet
  <1>3. ASSUME HandshakeAnswered \/ AcceptorIsDone
        PROVE  ProtocolInv'
    <2>1. PICK c \in Conns : c = conn
      BY <1>3 DEF HandshakeAnswered, AcceptorIsDone
    <2>2. /\ down[c] # << >>
          /\ down' = [down EXCEPT ![c] = Tail(@)]
          /\ link' = link /\ up' = up /\ fpc' # "handshake"
      BY <1>3, <2>1 DEF HandshakeAnswered, AcceptorIsDone, NextDown, GiveUp
    <2>3. Head(down[c]).type # "Request"
      BY <1>3, <2>1 DEF HandshakeAnswered, AcceptorIsDone, NextDown, ProtocolInv,
           HandshakeInv
    <2>4. /\ NoRequest(down[c]) <=> NoRequest(Tail(down[c]))
          /\ OneRequest(down[c]) => OneRequest(Tail(down[c]))
      BY <2>2, <2>3, ReadMessage
    <2>5. UpInv(c) /\ DownInv(c) /\ UnusedInv(c)
      BY DEF ProtocolInv
    <2>6. UpInv(c)' /\ DownInv(c)' /\ UnusedInv(c)'
      BY <1>0, <2>2, <2>4, <2>5 DEF UpInv, DownInv, UnusedInv
    <2>7. \A d \in Conns \ {c} : UpInv(d)' /\ DownInv(d)' /\ UnusedInv(d)'
      BY <1>0, <2>2, ProtocolOthers
    <2> QED
      BY <2>2, <2>6, <2>7 DEF ProtocolInv, HandshakeInv
  <1>4. ASSUME AnswerRequest
        PROVE  ProtocolInv'
    <2>1. PICK c \in Conns : c = conn
      BY <1>4 DEF AnswerRequest
    <2>2. PICK reply : up' = [up EXCEPT ![c] = Queued(@, c, TraceObjectsReply(reply))]
      BY <1>4, <2>1 DEF AnswerRequest
    <2>3. /\ down[c] # << >>
          /\ Head(down[c]).type = "Request"
          /\ down' = [down EXCEPT ![c] = Tail(@)]
          /\ link' = link /\ fpc' # "handshake"
      BY <1>4, <2>1 DEF AnswerRequest, NextDown
    <2>4. UpInv(c) /\ DownInv(c) /\ UnusedInv(c)
      BY DEF ProtocolInv
    <2>5. ~NoRequest(down[c]) /\ NoRequest(Tail(down[c])) /\ OneRequest(Tail(down[c]))
      BY <2>3, <2>4, ReadMessage DEF DownInv
    <2>6. up[c] = << >> /\ link[c] # "unused"
      BY <2>3, <2>4, <2>5 DEF DownInv, UnusedInv
    <2>7. down'[c] = Tail(down[c]) /\ apc'[c] = apc[c] /\ link'[c] = link[c]
      BY <1>0, <2>3
    <2>9. UpInv(c)' /\ DownInv(c)' /\ UnusedInv(c)'
      <3>1. CASE link[c] = "up"
        <4>1. apc[c] = "awaiting"
          BY <2>4, <2>5, <3>1 DEF DownInv, AcceptorPc
        <4>2. up'[c] = <<TraceObjectsReply(reply)>>
          BY <2>2, <2>6, <3>1 DEF Queued
        <4>3. /\ Len(<<TraceObjectsReply(reply)>>) = 1
              /\ Head(<<TraceObjectsReply(reply)>>).type = "Reply"
              /\ <<TraceObjectsReply(reply)>> # << >>
          BY DEF TraceObjectsReply
        <4> QED
          BY <2>5, <2>7, <3>1, <4>1, <4>2, <4>3 DEF UpInv, DownInv, UnusedInv
      <3>2. CASE link[c] # "up"
        <4>1. up'[c] = << >>
          BY <2>2, <2>6, <3>2 DEF Queued
        <4>2. Len(<< >>) = 0
          BY EmptySeq
        <4> QED
          BY <2>4, <2>5, <2>6, <2>7, <3>2, <4>1, <4>2 DEF UpInv, DownInv, UnusedInv
      <3> QED
        BY <3>1, <3>2
    <2>10. \A d \in Conns \ {c} : UpInv(d)' /\ DownInv(d)' /\ UnusedInv(d)'
      BY <1>0, <2>2, <2>3, ProtocolOthers
    <2> QED
      BY <2>3, <2>9, <2>10 DEF ProtocolInv, HandshakeInv
  <1> QED
    BY <1>1, <1>2, <1>3, <1>4 DEF ForwarderTask

(* A handler sends a request only when no request or reply is on its way.  *)
LEMMA ProtocolHandler ==
  ASSUME TypeInv, ProtocolInv, NEW c \in Conns, Handler(c) \/ ForeignAcceptor(c),
         UNCHANGED forwarderVars
  PROVE  ProtocolInv'
  <1> USE LinkTypes
  <1>0. fpc' = fpc /\ conn' = conn
    BY DEF forwarderVars
  <1>1. UpInv(c) /\ DownInv(c) /\ UnusedInv(c) /\ HandshakeInv
    BY DEF ProtocolInv
  <1>2. ASSUME AcceptHandshake(c) \/ RefuseHandshake(c)
        PROVE  ProtocolInv'
    <2>1. PICK m \in {Accept, Refuse} :
            down' = [down EXCEPT ![c] = Queued(@, c, m)]
      BY <1>2 DEF AcceptHandshake, RefuseHandshake
    <2>2. /\ up[c] # << >> /\ apc[c] = "accepting"
          /\ up' = [up EXCEPT ![c] = Tail(@)]
          /\ link' = link
          /\ apc'[c] \in {"idle", "ended"}
          /\ \A d \in Conns \ {c} : apc'[d] = apc[d]
      BY <1>2 DEF AcceptHandshake, RefuseHandshake, NextUp, Goto
    <2>3. m \in AcceptorMessage /\ m.type # "Request"
      BY DEF AcceptorMessage, Accept, Refuse
    <2>4. up'[c] = << >>
      BY <1>1, <2>2, OneMessage
    <2>5. NoRequest(down'[c]) /\ OneRequest(down'[c])
      <3>1. NoRequest(down[c])
        BY <1>1, <2>2 DEF DownInv
      <3>2. NoRequest(Append(down[c], m)) /\ OneRequest(Append(down[c], m))
        BY <2>3, <3>1, SendMessage
      <3>3. OneRequest(down[c])
        BY <1>1 DEF DownInv
      <3> QED
        BY <2>1, <3>1, <3>2, <3>3 DEF Queued
    <2>6. UpInv(c)' /\ DownInv(c)' /\ UnusedInv(c)'
      <3>1. Len(<< >>) = 0
        BY EmptySeq
      <3> QED
        BY <1>1, <2>2, <2>4, <2>5, <3>1 DEF UpInv, DownInv, UnusedInv
    <2>7. \A d \in Conns \ {c} : UpInv(d)' /\ DownInv(d)' /\ UnusedInv(d)'
      BY <2>1, <2>2, ProtocolOthers
    <2>8. HandshakeInv'
      <3>1. link[c] = "up" => down'[c] # << >> /\
              Head(down'[c]) = IF down[c] = << >> THEN m ELSE Head(down[c])
        BY <2>1, <2>3, SendMessage DEF Queued
      <3>2. link[c] # "up" => down'[c] = down[c]
        BY <2>1 DEF Queued
      <3> QED
        BY <1>0, <1>1, <2>1, <2>2, <2>3, <3>1, <3>2 DEF HandshakeInv
    <2> QED
      BY <2>6, <2>7, <2>8 DEF ProtocolInv
  <1>3. ASSUME RequestTraces(c) \/ SendDone(c)
        PROVE  ProtocolInv'
    <2>1. PICK m \in {Done} \cup {TraceObjectsRequest(n) : n \in RequestCounts} :
            /\ down' = [down EXCEPT ![c] = Queued(@, c, m)]
            /\ link[c] = "up" =>
                 (m.type = "Request" <=> apc'[c] = "awaiting")
      <3>1. ASSUME RequestTraces(c)
            PROVE  /\ \E n \in RequestCounts :
                        down' = [down EXCEPT ![c] = Queued(@, c, TraceObjectsRequest(n))]
                   /\ link[c] = "up" => apc'[c] = "awaiting"
        BY <3>1 DEF RequestTraces, Goto, SendOutcome
      <3>2. ASSUME SendDone(c)
            PROVE  /\ down' = [down EXCEPT ![c] = Queued(@, c, Done)]
                   /\ apc'[c] = "ended"
        BY <3>2 DEF SendDone, Goto
      <3>3. Done.type # "Request" /\ \A n : TraceObjectsRequest(n).type = "Request"
        BY DEF Done, TraceObjectsRequest
      <3> QED
        BY <1>3, <3>1, <3>2, <3>3
    <2>2. /\ apc[c] = "idle"
          /\ link' = link /\ up' = up
          /\ apc'[c] \in {"awaiting", "ended"}
          /\ \A d \in Conns \ {c} : apc'[d] = apc[d]
      BY <1>3 DEF RequestTraces, SendDone, Goto
    <2>3. m \in AcceptorMessage
      BY DEF AcceptorMessage, TraceObjectsRequest
    <2>4. up[c] = << >> /\ NoRequest(down[c]) /\ link[c] # "unused"
      BY <1>1, <2>2 DEF UpInv, DownInv, UnusedInv
    <2>5. /\ OneRequest(Append(down[c], m))
          /\ m.type # "Request" => NoRequest(Append(down[c], m))
          /\ m.type = "Request" => ~NoRequest(Append(down[c], m))
          /\ Append(down[c], m) # << >>
          /\ Head(Append(down[c], m)) = IF down[c] = << >> THEN m ELSE Head(down[c])
      BY <2>3, <2>4, SendMessage
    <2>6. UpInv(c)'
      BY <1>1, <2>2, <2>4 DEF UpInv
    <2>7. DownInv(c)'
      <3>1. CASE link[c] = "up"
        <4>1. down'[c] = Append(down[c], m)
          BY <2>1, <3>1 DEF Queued
        <4> QED
          BY <2>1, <2>2, <2>4, <2>5, <3>1, <4>1 DEF DownInv
      <3>2. CASE link[c] # "up"
        <4>1. down'[c] = down[c]
          BY <2>1, <3>2 DEF Queued
        <4> QED
          BY <1>1, <2>2, <2>4, <3>2, <4>1 DEF DownInv
      <3> QED
        BY <3>1, <3>2
    <2>8. UnusedInv(c)'
      BY <2>2, <2>4 DEF UnusedInv
    <2>9. \A d \in Conns \ {c} : UpInv(d)' /\ DownInv(d)' /\ UnusedInv(d)'
      BY <2>1, <2>2, ProtocolOthers
    <2>10. HandshakeInv'
      <3>1. ASSUME fpc = "handshake", conn = c
            PROVE  HandshakeInv'
        <4>1. link[c] = "up" => down[c] # << >>
          BY <1>1, <2>2, <3>1 DEF HandshakeInv
        <4>2. CASE link[c] = "up"
          <5>1. down'[c] = Append(down[c], m)
            BY <2>1, <4>2 DEF Queued
          <5> QED
            BY <1>0, <1>1, <2>2, <2>5, <3>1, <4>1, <4>2, <5>1 DEF HandshakeInv
        <4>3. CASE link[c] # "up"
          <5>1. down'[c] = down[c]
            BY <2>1, <4>3 DEF Queued
          <5> QED
            BY <1>0, <1>1, <2>2, <3>1, <4>3, <5>1 DEF HandshakeInv
        <4> QED
          BY <4>2, <4>3
      <3>2. ASSUME fpc = "handshake", conn # c
            PROVE  HandshakeInv'
        <4>1. conn \in Conns /\ down'[conn] = down[conn] /\ apc'[conn] = apc[conn]
          BY <2>1, <2>2, <3>2
        <4> QED
          BY <1>0, <1>1, <2>2, <3>2, <4>1 DEF HandshakeInv
      <3> QED
        BY <1>0, <3>1, <3>2 DEF HandshakeInv
    <2> QED
      BY <2>6, <2>7, <2>8, <2>9, <2>10 DEF ProtocolInv
  <1>4. ASSUME ReceiveReply(c)
        PROVE  ProtocolInv'
    <2>1. /\ up[c] # << >> /\ apc[c] = "awaiting"
          /\ up' = [up EXCEPT ![c] = Tail(@)]
          /\ link' = link /\ down' = down
          /\ apc'[c] \in {"idle", "pushing"}
          /\ \A d \in Conns \ {c} : apc'[d] = apc[d]
      BY <1>4 DEF ReceiveReply, NextUp, Goto
    <2>2. up'[c] = << >> /\ NoRequest(down[c])
      BY <1>1, <2>1, OneMessage DEF DownInv
    <2>3. UpInv(c)' /\ DownInv(c)' /\ UnusedInv(c)'
      <3>1. Len(<< >>) = 0
        BY EmptySeq
      <3> QED
        BY <1>1, <2>1, <2>2, <3>1 DEF UpInv, DownInv, UnusedInv
    <2>4. \A d \in Conns \ {c} : UpInv(d)' /\ DownInv(d)' /\ UnusedInv(d)'
      BY <2>1, ProtocolOthers
    <2>5. HandshakeInv'
      BY <1>0, <1>1, <2>1 DEF HandshakeInv
    <2> QED
      BY <2>3, <2>4, <2>5 DEF ProtocolInv
  <1>5. ASSUME PushTrace(c) \/ PushFails(c) \/ HandlerEnds(c)
        PROVE  ProtocolInv'
    <2>1. /\ link' = link /\ up' = up /\ down' = down
          /\ \A d \in Conns \ {c} : apc'[d] = apc[d]
      BY <1>5 DEF PushTrace, PushFails, HandlerEnds, Goto, linkVars
    <2>2. \/ apc[c] = "pushing" /\ apc'[c] \in {"idle", "pushing", "ended"}
          \/ /\ apc[c] \in {"accepting", "awaiting"} /\ apc'[c] = "ended"
             /\ link[c] = "broken" /\ up[c] = << >>
      BY <1>5 DEF PushTrace, PushFails, HandlerEnds, UpClosed, Goto
    <2>3. UpInv(c)' /\ DownInv(c)' /\ UnusedInv(c)'
      BY <1>1, <2>1, <2>2 DEF UpInv, DownInv, UnusedInv
    <2>4. \A d \in Conns \ {c} : UpInv(d)' /\ DownInv(d)' /\ UnusedInv(d)'
      BY <2>1, ProtocolOthers
    <2>5. HandshakeInv'
      BY <1>0, <1>1, <2>1, <2>2 DEF HandshakeInv
    <2> QED
      BY <2>3, <2>4, <2>5 DEF ProtocolInv
  <1> QED
    BY <1>2, <1>3, <1>4, <1>5 DEF Handler, ForeignAcceptor

(* Losing the last messages of a connection breaks nothing.                *)
LEMMA ProtocolBreak ==
  ASSUME TypeInv, ProtocolInv, NEW c \in Conns, Break(c),
         UNCHANGED <<forwarderVars, acceptorVars>>
  PROVE  ProtocolInv'
  <1> USE LinkTypes
  <1>0. fpc' = fpc /\ conn' = conn /\ apc' = apc
    BY DEF forwarderVars, acceptorVars
  <1>1. UpInv(c) /\ DownInv(c) /\ UnusedInv(c) /\ HandshakeInv
    BY DEF ProtocolInv
  <1>2. PICK i \in 0..Len(up[c]), j \in 0..Len(down[c]) :
          /\ up' = [up EXCEPT ![c] = SubSeq(@, 1, i)]
          /\ down' = [down EXCEPT ![c] = SubSeq(@, 1, j)]
    BY DEF Break
  <1>3. link' = [link EXCEPT ![c] = "broken"]
    BY DEF Break
  <1>4. /\ Len(up'[c]) <= Len(up[c])
        /\ up'[c] # << >> => up[c] # << >> /\ Head(up'[c]) = Head(up[c])
    BY <1>2, CutMessages
  <1>5. /\ NoRequest(down[c]) => NoRequest(down'[c])
        /\ OneRequest(down[c]) => OneRequest(down'[c])
        /\ down'[c] # << >> => down[c] # << >> /\ Head(down'[c]) = Head(down[c])
    BY <1>2, CutMessages
  <1>6. UpInv(c)'
    <2>1. Len(up'[c]) <= 1
      <3>1. Len(up[c]) \in Nat /\ Len(up'[c]) \in Nat
        BY <1>2, LenProperties, SubSeqType
      <3> QED
        BY <1>1, <1>4, <3>1 DEF UpInv
    <2> QED
      BY <1>0, <1>1, <1>4, <2>1 DEF UpInv
  <1>7. DownInv(c)' /\ UnusedInv(c)'
    BY <1>0, <1>1, <1>3, <1>4, <1>5 DEF DownInv, UnusedInv
  <1>8. \A d \in Conns \ {c} : UpInv(d)' /\ DownInv(d)' /\ UnusedInv(d)'
    BY <1>0, <1>2, <1>3, ProtocolOthers
  <1>9. HandshakeInv'
    BY <1>0, <1>1, <1>2, <1>3, <1>5 DEF HandshakeInv
  <1> QED
    BY <1>6, <1>7, <1>8, <1>9 DEF ProtocolInv

(* Every step keeps ProtocolInv.                                           *)
LEMMA ProtocolStep == TypeInv /\ ProtocolInv /\ [Next]_vars => ProtocolInv'
  <1> SUFFICES ASSUME TypeInv, ProtocolInv, [Next]_vars PROVE ProtocolInv'
    OBVIOUS
  <1>1. CASE ForwarderStep
    <2>1. CASE Producers
      <3>1. UNCHANGED <<link, up, down, apc, fpc, conn>>
        BY <1>1, <2>1 DEF ForwarderStep, Producers, Send, TrySend, FinishSend,
             linkVars, acceptorVars
      <3> QED
        BY <3>1, ProtocolQuiet
    <2> QED
      BY <1>1, <2>1, ProtocolForwarder DEF ForwarderStep
  <1>2. CASE AcceptorStep
    <2>1. CASE Consume \/ DropHandle
      <3>1. UNCHANGED <<link, up, down, apc, fpc, conn>>
        BY <1>2, <2>1 DEF AcceptorStep, Consume, DropHandle, linkVars, forwarderVars
      <3> QED
        BY <3>1, ProtocolQuiet
    <2> QED
      BY <1>2, <2>1, ProtocolHandler DEF AcceptorStep
  <1>3. CASE LinkStep
    BY <1>3, ProtocolBreak DEF LinkStep
  <1>4. CASE UNCHANGED vars
    BY <1>4, ProtocolQuiet DEF vars, linkVars, forwarderVars, acceptorVars
  <1> QED
    BY <1>1, <1>2, <1>3, <1>4 DEF Next

(* ProtocolInv holds in every reachable state.                             *)
LEMMA ProtocolCorrect == Spec => [](TypeInv /\ ProtocolInv)
  BY TypeInit, TypeStep, ProtocolInit, ProtocolStep, PTL DEF Spec

-----------------------------------------------------------------------------
(* The agency rules                                                        *)

(* The agency rules follow from the inductive invariant.                   *)
LEMMA AgencyFromInv == TypeInv /\ ProtocolInv => Agency
  <1> SUFFICES ASSUME TypeInv, ProtocolInv, NEW c \in Conns
               PROVE  /\ Cardinality(Requests(c)) + Cardinality(Replies(c)) <= 1
                      /\ Replies(c) # {} => apc[c] = "awaiting"
                      /\ link[c] = "up" =>
                           (Requests(c) \cup Replies(c) # {} <=> apc[c] = "awaiting")
                      /\ apc[c] = "pushing" <=> pending[c] # << >>
    BY DEF Agency
  <1>1. UpInv(c) /\ DownInv(c)
    BY DEF ProtocolInv
  <1>2. up[c] \in Seq(ForwarderMessage) /\ down[c] \in Seq(AcceptorMessage)
    BY LinkTypes
  <1>3. apc[c] \in AcceptorPc
    BY LinkTypes
  <1>4. Requests(c) # {} <=> ~NoRequest(down[c])
    BY <1>2, LenProperties DEF Requests, NoRequest
  <1>5. Requests(c) # {} => \E i : Requests(c) = {i}
    <2>1. \A i, j \in Requests(c) : i = j
      BY <1>1, <1>2, LenProperties DEF Requests, DownInv, OneRequest
    <2> QED
      BY <2>1
  <1>6. /\ Replies(c) \subseteq {1}
        /\ Replies(c) # {} => up[c] # << >> /\ Head(up[c]).type = "Reply"
    <2>1. CASE up[c] = << >>
      BY <2>1 DEF Replies
    <2>2. CASE up[c] # << >>
      <3>1. Len(up[c]) = 1 /\ DOMAIN up[c] = 1..Len(up[c]) /\ Head(up[c]) = up[c][1]
        BY <1>1, <1>2, <2>2, OneMessage, LenProperties
      <3> QED
        BY <2>2, <3>1 DEF Replies
    <2> QED
      BY <2>1, <2>2
  <1>7. up[c] # << >> /\ Head(up[c]).type = "Reply" => 1 \in Replies(c)
    <2>1. ASSUME up[c] # << >>
          PROVE  1 \in DOMAIN up[c] /\ Head(up[c]) = up[c][1]
      BY <1>1, <1>2, <2>1, OneMessage, LenProperties
    <2> QED
      BY <2>1 DEF Replies
  <1>8. Requests(c) = {} \/ Replies(c) = {}
    BY <1>1, <1>4, <1>6 DEF DownInv
  <1>9. Cardinality(Requests(c)) + Cardinality(Replies(c)) <= 1
    <2>1. Cardinality({}) = 0 /\ \A x : Cardinality({x}) = 1
      BY FS_EmptySet, FS_Singleton
    <2>2. Replies(c) = {} \/ Replies(c) = {1}
      BY <1>6
    <2>3. Requests(c) = {} \/ \E i : Requests(c) = {i}
      BY <1>5
    <2>4. \/ Cardinality(Requests(c)) = 0 /\ Requests(c) = {}
          \/ Cardinality(Requests(c)) = 1
      BY <2>1, <2>3
    <2>5. \/ Cardinality(Replies(c)) = 0 /\ Replies(c) = {}
          \/ Cardinality(Replies(c)) = 1
      BY <2>1, <2>2
    <2>6. CASE Requests(c) = {}
      BY <2>1, <2>5, <2>6
    <2>7. CASE Replies(c) = {}
      BY <2>1, <2>4, <2>7
    <2> QED
      BY <1>8, <2>6, <2>7
  <1>10. Replies(c) # {} => apc[c] = "awaiting"
    BY <1>1, <1>3, <1>6 DEF UpInv, AcceptorPc
  <1>11. link[c] = "up" => (Requests(c) \cup Replies(c) # {} <=> apc[c] = "awaiting")
    BY <1>1, <1>3, <1>4, <1>7, <1>10 DEF UpInv, DownInv, AcceptorPc
  <1>12. apc[c] = "pushing" <=> pending[c] # << >>
    BY DEF TypeInv, PendingOK
  <1> QED
    BY <1>9, <1>10, <1>11, <1>12

(* The forwarder and the acceptor's handlers never break the protocol, for *)
(* any number of connections and whatever connections fail.                *)
THEOREM AgencyCorrect == Spec => []Agency
  BY ProtocolCorrect, AgencyFromInv, PTL

-----------------------------------------------------------------------------
(* Moving traces between the places that hold them.  A place l of L holds  *)
(* the sequence h[l]; W is the place of the traces not accepted yet.  The  *)
(* sets: fr nobody offered yet, acc accepted, out accepted and discarded,  *)
(* rej reported as rejected.  Every step of the system is one of these     *)
(* moves, and each of them keeps the account exact.                        *)

(* No trace in two places or twice in one; none both held and discarded or *)
(* fresh; the accepted traces are those held outside W and those discarded.*)
Accounted(L, W, h, fr, acc, out, rej) ==
  /\ \A l \in L : IsInjective(h[l])
  /\ \A l, m \in L : \A x : x \in Range(h[l]) /\ x \in Range(h[m]) => l = m
  /\ \A l \in L : \A x \in Range(h[l]) : x \notin fr \cup out \cup rej
  /\ \A x \in fr : x \notin out \cup rej \cup acc
  /\ \A x \in Range(h[W]) : x \notin acc
  /\ \A x : x \in acc <=> x \in out \/ \E l \in L \ {W} : x \in Range(h[l])

(* A trace is offered and rejected.                                        *)
LEMMA AccountReject ==
  ASSUME NEW L, NEW W, NEW h, NEW fr, NEW acc, NEW out, NEW rej,
         Accounted(L, W, h, fr, acc, out, rej), NEW t \in fr
  PROVE  Accounted(L, W, h, fr \ {t}, acc, out, rej \cup {t})
  BY DEF Accounted

(* A trace is offered and has to wait.                                     *)
LEMMA AccountWait ==
  ASSUME NEW S, NEW L, NEW W \in L,
         NEW h \in [L -> Seq(S)], NEW k \in [L -> Seq(S)],
         NEW fr, NEW acc, NEW out, NEW rej,
         Accounted(L, W, h, fr, acc, out, rej), NEW t \in fr, t \in S,
         k[W] = Append(h[W], t),
         \A l \in L \ {W} : k[l] = h[l]
  PROVE  Accounted(L, W, k, fr \ {t}, acc, out, rej)
  <1>1. t \notin Range(h[W])
    BY DEF Accounted
  <1>2. Range(k[W]) = Range(h[W]) \cup {t} /\ IsInjective(k[W])
    <2>1. h[W] \in Seq(S) /\ IsInjective(h[W])
      BY DEF Accounted
    <2>2. /\ Range(Append(h[W], t)) = Range(h[W]) \cup {t}
          /\ t \notin Range(h[W]) => IsInjective(Append(h[W], t))
      BY <2>1, RangeAppend
    <2> QED
      BY <1>1, <2>2
  <1>3. t \notin acc /\ \A l \in L : t \notin Range(h[l])
    BY DEF Accounted
  <1>4. \A l \in L : \A x : x \in Range(k[l]) <=> x \in Range(h[l]) \/ (l = W /\ x = t)
    BY <1>2
  <1>5. \A l \in L : IsInjective(k[l])
    BY <1>3, <1>2 DEF Accounted
  <1>6. \A l, m \in L : \A x : x \in Range(k[l]) /\ x \in Range(k[m]) => l = m
    BY <1>3, <1>4 DEF Accounted
  <1>7. \A l \in L : \A x \in Range(k[l]) : x \notin (fr \ {t}) \cup out \cup rej
    BY <1>3, <1>4 DEF Accounted
  <1>8. \A x : (\E l \in L \ {W} : x \in Range(k[l])) <=>
                (\E l \in L \ {W} : x \in Range(h[l]))
    OBVIOUS
  <1>9. \A x \in Range(k[W]) : x \notin acc
    BY <1>3, <1>2 DEF Accounted
  <1> QED
    BY <1>5, <1>6, <1>7, <1>8, <1>9 DEF Accounted

(* A trace is offered and accepted into place b.                           *)
LEMMA AccountAccept ==
  ASSUME NEW S, NEW L, NEW W \in L, NEW b \in L \ {W},
         NEW h \in [L -> Seq(S)], NEW k \in [L -> Seq(S)],
         NEW fr, NEW acc, NEW out, NEW rej,
         Accounted(L, W, h, fr, acc, out, rej), NEW t \in fr, t \in S,
         k[b] = Append(h[b], t),
         \A l \in L \ {b} : k[l] = h[l]
  PROVE  Accounted(L, W, k, fr \ {t}, acc \cup {t}, out, rej)
  <1>1. \A l \in L : t \notin Range(h[l])
    BY DEF Accounted
  <1>2. Range(k[b]) = Range(h[b]) \cup {t} /\ IsInjective(k[b])
    <2>1. h[b] \in Seq(S) /\ IsInjective(h[b])
      BY DEF Accounted
    <2>2. /\ Range(Append(h[b], t)) = Range(h[b]) \cup {t}
          /\ t \notin Range(h[b]) => IsInjective(Append(h[b], t))
      BY <2>1, RangeAppend
    <2> QED
      BY <1>1, <2>2
  <1>3. \A x : x \in acc \cup {t} <=>
                 x \in out \/ \E l \in L \ {W} : x \in Range(k[l])
    BY <1>2 DEF Accounted
  <1>4. \A l \in L : \A x : x \in Range(k[l]) <=> x \in Range(h[l]) \/ (l = b /\ x = t)
    BY <1>2
  <1>5. \A l \in L : IsInjective(k[l])
    BY <1>1, <1>2 DEF Accounted
  <1>6. \A l, m \in L : \A x : x \in Range(k[l]) /\ x \in Range(k[m]) => l = m
    <2>1. \A l, m \in L : \A x : x \in Range(h[l]) /\ x \in Range(h[m]) => l = m
      BY DEF Accounted
    <2> QED
      BY SMTT(60), <1>1, <1>4, <2>1
  <1>7. \A l \in L : \A x \in Range(k[l]) : x \notin (fr \ {t}) \cup out \cup rej
    BY <1>1, <1>4 DEF Accounted
  <1>8. \A x \in Range(k[W]) : x \notin acc \cup {t}
    BY <1>1 DEF Accounted
  <1> QED
    BY <1>3, <1>5, <1>6, <1>7, <1>8 DEF Accounted

(* A waiting trace is accepted into place b.                               *)
LEMMA AccountGrant ==
  ASSUME NEW S, NEW L, NEW W \in L, NEW b \in L \ {W},
         NEW h \in [L -> Seq(S)], NEW k \in [L -> Seq(S)],
         NEW fr, NEW acc, NEW out, NEW rej,
         Accounted(L, W, h, fr, acc, out, rej),
         NEW i \in 1..Len(h[W]),
         k[W] = RemoveAt(h[W], i),
         k[b] = Append(h[b], h[W][i]),
         \A l \in L \ {W, b} : k[l] = h[l]
  PROVE  Accounted(L, W, k, fr, acc \cup {h[W][i]}, out, rej)
  <1> DEFINE t == h[W][i]
  <1>1. t \in S
    BY ElementOfSeq
  <1>2. /\ Range(h[W]) = Range(k[W]) \cup {t}
        /\ IsInjective(k[W]) /\ t \notin Range(k[W])
    BY RangeRemoveAt DEF Accounted
  <1> HIDE DEF t
  <1>3. \A l \in L \ {W} : t \notin Range(h[l])
    BY <1>2 DEF Accounted
  <1>4. Range(k[b]) = Range(h[b]) \cup {t} /\ IsInjective(k[b])
    <2>1. h[b] \in Seq(S) /\ IsInjective(h[b])
      BY DEF Accounted
    <2>2. /\ Range(Append(h[b], t)) = Range(h[b]) \cup {t}
          /\ t \notin Range(h[b]) => IsInjective(Append(h[b], t))
      BY <2>1, <1>1, RangeAppend
    <2> QED
      BY <1>3, <2>2 DEF t
  <1>5. \A x : x \in acc \cup {t} <=>
                 x \in out \/ \E l \in L \ {W} : x \in Range(k[l])
    BY <1>4 DEF Accounted
  <1>6. Range(k[W]) \cap (acc \cup {t}) = {} /\ fr \cap {t} = {}
    BY <1>2 DEF Accounted
  <1> QED
    <2>1. \A l \in L : IsInjective(k[l])
      BY <1>2, <1>4 DEF Accounted
    <2>2. \A l \in L : \A x : x \in Range(k[l]) <=>
            IF l = W THEN x \in Range(h[W]) /\ x # t ELSE x \in Range(h[l]) \/ (l = b /\ x = t)
      BY <1>2, <1>4
    <2>3. \A l, m \in L : \A x : x \in Range(k[l]) /\ x \in Range(k[m]) => l = m
      <3>1. \A l, m \in L : \A x : x \in Range(h[l]) /\ x \in Range(h[m]) => l = m
        BY DEF Accounted
      <3> SUFFICES ASSUME NEW l \in L, NEW m \in L, NEW x, x \in Range(k[l]), x \in Range(k[m])
                   PROVE  l = m
        OBVIOUS
      <3>2. CASE x = t
        <4>1. \A n \in L : t \in Range(k[n]) => n = b
          BY <1>3, <2>2
        <4> QED
          BY <3>2, <4>1
      <3>3. CASE x # t
        <4>1. x \in Range(h[l]) /\ x \in Range(h[m])
          BY <2>2, <3>3
        <4> QED
          BY <3>1, <4>1
      <3> QED
        BY <3>2, <3>3
    <2>4. t \in Range(h[W])
      BY <1>2
    <2>5. \A l \in L : \A x \in Range(k[l]) : x \notin fr \cup out \cup rej
      <3>1. \A l \in L : \A x \in Range(h[l]) : x \notin fr \cup out \cup rej
        BY DEF Accounted
      <3> QED
        BY <2>2, <2>4, <3>1
    <2>6. \A x \in fr : x \notin out \cup rej \cup (acc \cup {t})
      BY <1>6 DEF Accounted
    <2>7. \A x \in Range(k[W]) : x \notin acc \cup {t}
      BY <1>6
    <2>8. Accounted(L, W, k, fr, acc \cup {t}, out, rej)
      BY <1>5, <2>1, <2>3, <2>5, <2>6, <2>7 DEF Accounted
    <2> QED
      BY <2>8 DEF t

(* The first trace of place a moves to the end of place b.                 *)
FirstMoves(S, L, W, h, k, a, b) ==
  /\ a \in L \ {W} /\ b \in L \ {W, a}
  /\ h[a] \in Seq(S) /\ h[b] \in Seq(S)
  /\ h[a] # << >>
  /\ k[a] = Tail(h[a])
  /\ k[b] = Append(h[b], Head(h[a]))
  /\ \A l \in L \ {a, b} : k[l] = h[l]

(* Moving a trace from one place to another keeps the account.             *)
LEMMA AccountMove ==
  ASSUME NEW S, NEW L, NEW W \in L, NEW h, NEW k, NEW a, NEW b,
         NEW fr, NEW acc, NEW out, NEW rej,
         Accounted(L, W, h, fr, acc, out, rej),
         FirstMoves(S, L, W, h, k, a, b)
  PROVE  Accounted(L, W, k, fr, acc, out, rej)
  <1> USE DEF FirstMoves
  <1> DEFINE t == Head(h[a])
  <1>1. t \in S
    BY SeqFacts
  <1>2. /\ Range(h[a]) = Range(k[a]) \cup {t}
        /\ IsInjective(k[a]) /\ t \notin Range(k[a])
    BY RangeTail DEF Accounted
  <1> HIDE DEF t
  <1>3. \A l \in L \ {a} : t \notin Range(h[l])
    BY <1>2 DEF Accounted
  <1>4. Range(k[b]) = Range(h[b]) \cup {t} /\ IsInjective(k[b])
    <2>1. h[b] \in Seq(S) /\ IsInjective(h[b])
      BY DEF Accounted
    <2>2. /\ Range(Append(h[b], t)) = Range(h[b]) \cup {t}
          /\ t \notin Range(h[b]) => IsInjective(Append(h[b], t))
      BY <2>1, <1>1, RangeAppend
    <2> QED
      BY <1>3, <2>2 DEF t
  <1>5. \A x : x \in acc <=> x \in out \/ \E l \in L \ {W} : x \in Range(k[l])
    <2>1. ASSUME NEW x
          PROVE  (\E l \in L \ {W} : x \in Range(k[l])) <=>
                   (\E l \in L \ {W} : x \in Range(h[l]))
      BY <1>2, <1>4
    <2> QED
      BY <2>1 DEF Accounted
  <1>6. \A l \in L : IsInjective(k[l])
    BY <1>2, <1>3, <1>4 DEF Accounted
  <1>7. \A l, m \in L : \A x : x \in Range(k[l]) /\ x \in Range(k[m]) => l = m
    <2>1. \A l, m \in L : \A x : x \in Range(h[l]) /\ x \in Range(h[m]) => l = m
      BY DEF Accounted
    <2>2. \A l \in L : \A x : x \in Range(k[l]) <=>
            IF l = a THEN x \in Range(h[a]) /\ x # t ELSE x \in Range(h[l]) \/ (l = b /\ x = t)
      <3> SUFFICES ASSUME NEW l \in L, NEW x
                   PROVE  x \in Range(k[l]) <=>
                            IF l = a THEN x \in Range(h[a]) /\ x # t
                                     ELSE x \in Range(h[l]) \/ (l = b /\ x = t)
        OBVIOUS
      <3>1. a # b
        OBVIOUS
      <3>2. CASE l = a
        BY <1>2, <3>1, <3>2
      <3>3. CASE l = b
        BY <1>4, <3>1, <3>3
      <3>4. CASE l \notin {a, b}
        <4>1. k[l] = h[l]
          BY <3>4
        <4> QED
          BY <3>4, <4>1
      <3> QED
        BY <3>2, <3>3, <3>4
    <2> SUFFICES ASSUME NEW l \in L, NEW m \in L, NEW x, x \in Range(k[l]), x \in Range(k[m])
                 PROVE  l = m
      OBVIOUS
    <2>3. CASE x = t
      <3>1. \A n \in L : t \in Range(k[n]) => n = b
        BY <1>3, <2>2
      <3> QED
        BY <2>3, <3>1
    <2>4. CASE x # t
      <3>1. x \in Range(h[l]) /\ x \in Range(h[m])
        BY <2>2, <2>4
      <3> QED
        BY <2>1, <3>1
    <2> QED
      BY <2>3, <2>4
  <1>8. \A l \in L : \A x \in Range(k[l]) : x \notin fr \cup out \cup rej
    BY <1>2, <1>3, <1>4 DEF Accounted
  <1> QED
    BY <1>5, <1>6, <1>7, <1>8 DEF Accounted

(* The first n traces of place a become the content of the empty place b,  *)
(* the others are discarded.                                               *)
LEMMA AccountCut ==
  ASSUME NEW S, NEW L, NEW W \in L, NEW a \in L \ {W}, NEW b \in L \ {W, a},
         NEW h \in [L -> Seq(S)], NEW k \in [L -> Seq(S)],
         NEW fr, NEW acc, NEW out, NEW rej,
         Accounted(L, W, h, fr, acc, out, rej),
         NEW n \in 0..Len(h[a]),
         h[b] = << >>,
         k[a] = << >>,
         k[b] = SubSeq(h[a], 1, n),
         \A l \in L \ {a, b} : k[l] = h[l]
  PROVE  Accounted(L, W, k, fr, acc,
                   out \cup Range(SubSeq(h[a], n + 1, Len(h[a]))), rej)
  <1> DEFINE cut == Range(SubSeq(h[a], n + 1, Len(h[a])))
  <1>1. /\ Range(h[a]) = Range(k[b]) \cup cut
        /\ IsInjective(k[b]) /\ Range(k[b]) \cap cut = {}
    <2>1. h[a] \in Seq(S) /\ IsInjective(h[a])
      BY DEF Accounted
    <2>2. /\ Range(h[a]) = Range(SubSeq(h[a], 1, n)) \cup cut
          /\ IsInjective(SubSeq(h[a], 1, n))
          /\ Range(SubSeq(h[a], 1, n)) \cap cut = {}
      BY <2>1, RangeSplit
    <2> QED
      BY <2>2
  <1> HIDE DEF cut
  <1>2. Range(k[a]) = {} /\ IsInjective(k[a]) /\ Range(h[b]) = {}
    BY RangeEmpty
  <1>3. \A l \in L : Range(k[l]) \cap (fr \cup out \cup cut \cup rej) = {}
    BY <1>1, <1>2 DEF Accounted
  <1>4. \A l, m \in L : \A x : x \in Range(k[l]) /\ x \in Range(k[m]) => l = m
    BY <1>1, <1>2 DEF Accounted
  <1>5. fr \cap cut = {}
    BY <1>1 DEF Accounted
  <1>6. \A x : x \in acc <=> x \in out \cup cut \/ \E l \in L \ {W} : x \in Range(k[l])
    <2>1. ASSUME NEW x
          PROVE  (x \in cut \/ \E l \in L \ {W} : x \in Range(k[l])) <=>
                   (\E l \in L \ {W} : x \in Range(h[l]))
      BY <1>1, <1>2
    <2> QED
      BY <2>1 DEF Accounted
  <1> QED
    BY <1>1, <1>2, <1>3, <1>4, <1>5, <1>6 DEF Accounted, cut

(* Some places other than W are emptied, their traces discarded.           *)
LEMMA AccountDrop ==
  ASSUME NEW L, NEW W \in L, NEW D \in SUBSET (L \ {W}),
         NEW h, NEW k,
         NEW fr, NEW acc, NEW out, NEW rej,
         Accounted(L, W, h, fr, acc, out, rej),
         \A l \in D : k[l] = << >>,
         \A l \in L \ D : k[l] = h[l]
  PROVE  Accounted(L, W, k, fr, acc, out \cup UNION {Range(h[l]) : l \in D}, rej)
  <1> DEFINE cut == UNION {Range(h[l]) : l \in D}
  <1>1. \A x : x \in cut <=> \E l \in D : x \in Range(h[l])
    OBVIOUS
  <1> HIDE DEF cut
  <1>2. \A l \in D : Range(k[l]) = {} /\ IsInjective(k[l])
    BY RangeEmpty
  <1>3. \A l \in L : Range(k[l]) \cap (fr \cup out \cup cut \cup rej) = {}
    BY <1>1, <1>2 DEF Accounted
  <1>4. fr \cap cut = {}
    BY <1>1 DEF Accounted
  <1>5. \A x : x \in acc <=> x \in out \cup cut \/ \E l \in L \ {W} : x \in Range(k[l])
    <2>1. ASSUME NEW x
          PROVE  (x \in cut \/ \E l \in L \ {W} : x \in Range(k[l])) <=>
                   (\E l \in L \ {W} : x \in Range(h[l]))
      BY <1>1, <1>2
    <2> QED
      BY <2>1 DEF Accounted
  <1> QED
    BY <1>2, <1>3, <1>4, <1>5 DEF Accounted, cut

(* The waiting traces are all rejected.                                    *)
LEMMA AccountClose ==
  ASSUME NEW L, NEW W \in L, NEW h, NEW k,
         NEW fr, NEW acc, NEW out, NEW rej,
         Accounted(L, W, h, fr, acc, out, rej),
         k[W] = << >>,
         \A l \in L \ {W} : k[l] = h[l]
  PROVE  Accounted(L, W, k, fr, acc, out, rej \cup Range(h[W]))
  <1>1. Range(k[W]) = {} /\ IsInjective(k[W])
    BY RangeEmpty
  <1> QED
    BY <1>1 DEF Accounted

-----------------------------------------------------------------------------
(* The traces of the system                                                *)

At(place) == <<place, NoConn>>

Accounts == Accounted(Location, Waiting, Held, fresh, Range(accepted),
                      lost \cup truncated, rejected)

(* Accounts is the same as the three invariants it stands for.             *)
LEMMA AccountsMeaning == Accounts <=> OnePlace /\ NothingVanishes /\ FreshInv
  <1>1. Waiting \in Location
    BY DEF Location, Waiting
  <1>2. Held[Waiting] = waiting
    BY <1>1 DEF Held, Holdings, Waiting
  <1> DEFINE held == UNION {Range(Held[l]) : l \in Location \ {Waiting}}
  <1>5. \A x : x \in held <=> \E l \in Location \ {Waiting} : x \in Range(Held[l])
    OBVIOUS
  <1> HIDE DEF held
  <1>3. ASSUME Accounts PROVE OnePlace /\ NothingVanishes /\ FreshInv
    <2>1. OnePlace
      BY <1>3 DEF Accounts, Accounted, OnePlace, Discarded
    <2>2. NothingVanishes
      <3>1. \A x : x \in Range(accepted) <=> x \in lost \cup truncated \/ x \in held
        BY <1>3, <1>5 DEF Accounts, Accounted
      <3>2. Range(accepted) = held \cup lost \cup truncated
        BY <3>1
      <3> QED
        BY <3>2 DEF NothingVanishes, held
    <2>3. FreshInv
      BY <1>2, <1>3 DEF Accounts, Accounted, FreshInv, Discarded
    <2> QED
      BY <2>1, <2>2, <2>3
  <1>4. ASSUME OnePlace, NothingVanishes, FreshInv PROVE Accounts
    <2>1. /\ \A l \in Location : IsInjective(Held[l])
          /\ \A l, m \in Location : \A x :
               x \in Range(Held[l]) /\ x \in Range(Held[m]) => l = m
          /\ \A l \in Location : \A x \in Range(Held[l]) :
               x \notin fresh \cup (lost \cup truncated) \cup rejected
      BY <1>4 DEF OnePlace, FreshInv, Discarded
    <2>2. /\ \A x \in fresh :
               x \notin (lost \cup truncated) \cup rejected \cup Range(accepted)
          /\ \A x \in Range(Held[Waiting]) : x \notin Range(accepted)
      BY <1>2, <1>4 DEF FreshInv, Discarded
    <2>3. \A x : x \in Range(accepted) <=>
                   x \in lost \cup truncated
                     \/ \E l \in Location \ {Waiting} : x \in Range(Held[l])
      <3>1. Range(accepted) = held \cup lost \cup truncated
        BY <1>4 DEF NothingVanishes, held
      <3> QED
        BY <1>5, <3>1
    <2> QED
      BY <2>1, <2>2, <2>3 DEF Accounts, Accounted
  <1> QED
    BY <1>3, <1>4

-----------------------------------------------------------------------------
(* The places                                                              *)

(* Location lists the places it is meant to list, all of them different.   *)
LEMMA Places ==
  /\ Waiting = At("waiting")
  /\ \A p \in {"waiting", "queue", "batch", "channel", "consumed"} :
       At(p) \in Location
  /\ \A c \in Conns : <<"flight", c>> \in Location /\ <<"pending", c>> \in Location
  /\ \A l \in Location :
       \/ \E p \in {"waiting", "queue", "batch", "channel", "consumed"} : l = At(p)
       \/ \E c \in Conns : l = <<"flight", c>> \/ l = <<"pending", c>>
  <1>1. \A l \in Location :
       \/ \E p \in {"waiting", "queue", "batch", "channel", "consumed"} : l = At(p)
       \/ \E c \in Conns : l = <<"flight", c>> \/ l = <<"pending", c>>
    BY DEF Location, At
  <1> QED
    BY <1>1 DEF Location, At, Waiting

(* What Held records at each place.                                        *)
HeldFacts ==
  /\ Held \in [Location -> Seq(Traces)]
  /\ Held[At("waiting")] = waiting
  /\ Held[At("queue")] = queue
  /\ Held[At("batch")] = batch
  /\ Held[At("channel")] = channel
  /\ Held[At("consumed")] = consumed
  /\ \A c \in Conns : Held[<<"flight", c>>] = InFlight(c)
  /\ \A c \in Conns : Held[<<"pending", c>>] = pending[c]

(* Every place holds a sequence of traces.                                 *)
LEMMA HeldValues == TypeInv => HeldFacts
  <1> SUFFICES ASSUME TypeInv PROVE HeldFacts
    OBVIOUS
  <1>1. /\ waiting \in Seq(Traces) /\ queue \in Seq(Traces)
        /\ batch \in Seq(Traces) /\ channel \in Seq(Traces)
        /\ consumed \in Seq(Traces)
        /\ \A c \in Conns : pending[c] \in Seq(Traces)
    BY DEF TypeInv, TypeOK, ForwarderTypeOK, AcceptorTypeOK
  <1>2. ASSUME NEW c \in Conns PROVE InFlight(c) \in Seq(Traces)
    <2>1. CASE NextUp(c, "Reply")
      <3>1. Head(up[c]) \in ForwarderMessage
        BY <2>1, LinkTypes, SeqFacts DEF NextUp
      <3>2. Head(up[c]).traces \in Seq(Traces)
        BY <2>1, <3>1 DEF ForwarderMessage, NextUp, Propose
      <3> QED
        BY <2>1, <3>2 DEF InFlight
    <2>2. CASE ~NextUp(c, "Reply")
      BY <2>2, EmptySeq DEF InFlight
    <2> QED
      BY <2>1, <2>2
  <1>3. /\ Held[At("waiting")] = waiting
        /\ Held[At("queue")] = queue
        /\ Held[At("batch")] = batch
        /\ Held[At("channel")] = channel
        /\ Held[At("consumed")] = consumed
    BY Places DEF Held, Holdings, At
  <1>4. ASSUME NEW c \in Conns
        PROVE  Held[<<"flight", c>>] = InFlight(c) /\ Held[<<"pending", c>>] = pending[c]
    BY Places DEF Held, Holdings
  <1>5. \A l \in Location : Held[l] \in Seq(Traces)
    <2> SUFFICES ASSUME NEW l \in Location
                 PROVE  Held[l] \in Seq(Traces)
      OBVIOUS
    <2>1. CASE \E p \in {"waiting", "queue", "batch", "channel", "consumed"} : l = At(p)
      BY <1>1, <1>3, <2>1
    <2>2. CASE \E c \in Conns : l = <<"flight", c>> \/ l = <<"pending", c>>
      <3>1. PICK c \in Conns : l = <<"flight", c>> \/ l = <<"pending", c>>
        BY <2>2
      <3>2. InFlight(c) \in Seq(Traces) /\ pending[c] \in Seq(Traces)
        BY <1>1, <1>2
      <3>3. Held[<<"flight", c>>] = InFlight(c) /\ Held[<<"pending", c>>] = pending[c]
        BY <1>4
      <3> QED
        BY <3>1, <3>2, <3>3
    <2> QED
      BY <2>1, <2>2, Places
  <1>6. Held = [l \in Location |-> Held[l]]
    <2> DEFINE at(l) == CASE l[1] = "waiting"  -> waiting
                          [] l[1] = "queue"    -> queue
                          [] l[1] = "batch"    -> batch
                          [] l[1] = "flight"   -> [c \in Conns |-> InFlight(c)][l[2]]
                          [] l[1] = "pending"  -> pending[l[2]]
                          [] l[1] = "channel"  -> channel
                          [] l[1] = "consumed" -> consumed
    <2>1. Held = [l \in Location |-> at(l)]
      BY DEF Held, Holdings
    <2> HIDE DEF at
    <2> QED
      BY <2>1
  <1> QED
    BY <1>3, <1>4, <1>5, <1>6 DEF HeldFacts

(* A step that names the places it may change leaves the others alone.     *)
LEMMA Elsewhere ==
  ASSUME TypeInv, TypeInv', NEW D,
         waiting' = waiting \/ At("waiting") \in D,
         queue' = queue \/ At("queue") \in D,
         batch' = batch \/ At("batch") \in D,
         channel' = channel \/ At("channel") \in D,
         consumed' = consumed \/ At("consumed") \in D,
         \A c \in Conns : InFlight(c)' = InFlight(c) \/ <<"flight", c>> \in D,
         \A c \in Conns : pending'[c] = pending[c] \/ <<"pending", c>> \in D
  PROVE  /\ HeldFacts /\ HeldFacts'
         /\ \A l \in Location \ D : Held'[l] = Held[l]
  <1>1. HeldFacts /\ HeldFacts'
    BY HeldValues, PTL
  <1>2. ASSUME NEW l \in Location \ D,
               NEW p \in {"waiting", "queue", "batch", "channel", "consumed"},
               l = At(p)
        PROVE  Held'[l] = Held[l]
    BY <1>1, <1>2 DEF HeldFacts
  <1>3. ASSUME NEW l \in Location \ D, NEW c \in Conns,
               l = <<"flight", c>> \/ l = <<"pending", c>>
        PROVE  Held'[l] = Held[l]
    BY <1>1, <1>3 DEF HeldFacts
  <1> QED
    BY <1>1, <1>2, <1>3, Places

(* The sets of the account are unchanged, and so is every place.           *)
LEMMA NothingMoves ==
  ASSUME TypeInv, TypeInv', Accounts,
         UNCHANGED <<waiting, queue, batch, channel, consumed, pending, fresh,
                     accepted, lost, truncated, rejected>>,
         \A c \in Conns : InFlight(c)' = InFlight(c)
  PROVE  Accounts'
  <1>1. HeldFacts /\ HeldFacts' /\ \A l \in Location \ {} : Held'[l] = Held[l]
    BY Elsewhere
  <1>2. Held' = Held
    BY <1>1 DEF HeldFacts
  <1> QED
    BY <1>2 DEF Accounts

-----------------------------------------------------------------------------
(* Logging                                                                 *)

(* send(), try_send() and a send() that got its permit keep the account.   *)
LEMMA AccountsProducers ==
  ASSUME TypeInv, TypeInv', Accounts, Producers, UNCHANGED acceptorVars
  PROVE  Accounts'
  <1>0. /\ waiting \in Seq(Traces) /\ queue \in Seq(Traces)
        /\ accepted \in Seq(Traces)
    BY DEF TypeInv, TypeOK, ForwarderTypeOK
  <1>1. /\ UNCHANGED <<batch, channel, consumed, pending, lost, truncated>>
        /\ \A c \in Conns : InFlight(c)' = InFlight(c)
    BY DEF Producers, Send, TrySend, FinishSend, acceptorVars, linkVars, InFlight,
         NextUp
  <1>2. ASSUME NEW t \in fresh, fresh' = fresh \ {t}, rejected' = rejected \cup {t},
               UNCHANGED <<waiting, queue, accepted>>
        PROVE  Accounts'
    <2>1. HeldFacts /\ HeldFacts' /\ \A l \in Location \ {} : Held'[l] = Held[l]
      BY <1>1, <1>2, Elsewhere
    <2>2. Held' = Held
      BY <2>1 DEF HeldFacts
    <2> QED
      BY <1>1, <1>2, <2>2, AccountReject DEF Accounts
  <1>3. ASSUME NEW t \in fresh, t \in Traces, fresh' = fresh \ {t},
               waiting' = Append(waiting, t), UNCHANGED <<queue, accepted, rejected>>
        PROVE  Accounts'
    <2>1. /\ HeldFacts /\ HeldFacts'
          /\ \A l \in Location \ {Waiting} : Held'[l] = Held[l]
      BY <1>1, <1>3, Elsewhere, Places
    <2> DEFINE h == Held
               k == Held'
    <2>2. /\ h \in [Location -> Seq(Traces)] /\ k \in [Location -> Seq(Traces)]
          /\ k[Waiting] = Append(h[Waiting], t)
      BY <1>3, <2>1, Places DEF HeldFacts
    <2>3. Accounted(Location, Waiting, h, fresh, Range(accepted), lost \cup truncated,
                    rejected)
      BY DEF Accounts
    <2>4. Waiting \in Location
      BY Places
    <2> HIDE DEF h, k
    <2>5. Accounted(Location, Waiting, k, fresh \ {t}, Range(accepted),
                    lost \cup truncated, rejected)
      BY <1>3, <2>1, <2>2, <2>3, <2>4, AccountWait DEF h, k
    <2> QED
      BY <1>1, <1>3, <2>5 DEF Accounts, k
  <1>4. ASSUME NEW t \in fresh, t \in Traces, fresh' = fresh \ {t}, Enqueue(t),
               UNCHANGED <<waiting, rejected>>
        PROVE  Accounts'
    <2>1. /\ HeldFacts /\ HeldFacts'
          /\ \A l \in Location \ {At("queue")} : Held'[l] = Held[l]
      BY <1>1, <1>4, Elsewhere
    <2>2. Range(accepted') = Range(accepted) \cup {t}
      BY <1>0, <1>4, RangeAppend DEF Enqueue
    <2> DEFINE h == Held
               k == Held'
    <2>3. /\ h \in [Location -> Seq(Traces)] /\ k \in [Location -> Seq(Traces)]
          /\ k[At("queue")] = Append(h[At("queue")], t)
          /\ \A l \in Location \ {At("queue")} : k[l] = h[l]
      BY <1>4, <2>1 DEF HeldFacts, Enqueue
    <2>4. Accounted(Location, Waiting, h, fresh, Range(accepted), lost \cup truncated,
                    rejected)
      BY DEF Accounts
    <2>5. Waiting \in Location /\ At("queue") \in Location \ {Waiting}
      BY Places DEF At
    <2>6. t \in Traces /\ t \in fresh
      BY <1>4
    <2> HIDE DEF h, k
    <2>7. Accounted(Location, Waiting, k, fresh \ {t}, Range(accepted) \cup {t},
                    lost \cup truncated, rejected)
      <3>1. PICK b \in Location \ {Waiting} : b = At("queue")
        BY <2>5
      <3>2. k[b] = Append(h[b], t) /\ \A l \in Location \ {b} : k[l] = h[l]
        BY <2>3, <3>1
      <3> QED
        BY <2>3, <2>4, <2>5, <2>6, <3>2, AccountAccept
    <2> QED
      BY <1>1, <1>4, <2>2, <2>7 DEF Accounts, k
  <1>5. ASSUME NEW t \in Traces, Send(t) \/ TrySend(t)
        PROVE  Accounts'
    BY <1>2, <1>3, <1>4, <1>5 DEF Send, TrySend
  <1>6. ASSUME NEW i \in 1..Len(waiting), FinishSend(i)
        PROVE  Accounts'
    <2> DEFINE t == waiting[i]
    <2>1. t \in Traces
      BY <1>0, ElementOfSeq
    <2>2. /\ waiting' = RemoveAt(waiting, i)
          /\ Enqueue(t)
          /\ UNCHANGED <<fresh, rejected>>
      BY <1>6 DEF FinishSend
    <2>3. /\ HeldFacts /\ HeldFacts'
          /\ \A l \in Location \ {Waiting, At("queue")} : Held'[l] = Held[l]
      BY <1>1, <2>2, Elsewhere, Places
    <2>4. Range(accepted') = Range(accepted) \cup {t}
      BY <1>0, <2>1, <2>2, RangeAppend DEF Enqueue
    <2> DEFINE h == Held
               k == Held'
    <2>5. /\ h \in [Location -> Seq(Traces)] /\ k \in [Location -> Seq(Traces)]
          /\ k[Waiting] = RemoveAt(h[Waiting], i)
          /\ k[At("queue")] = Append(h[At("queue")], h[Waiting][i])
          /\ i \in 1..Len(h[Waiting]) /\ t = h[Waiting][i]
      BY <2>2, <2>3, Places DEF HeldFacts, Enqueue
    <2>6. Accounted(Location, Waiting, h, fresh, Range(accepted), lost \cup truncated,
                    rejected)
      BY DEF Accounts
    <2>7. Waiting \in Location /\ At("queue") \in Location \ {Waiting}
      BY Places DEF At
    <2> HIDE DEF h, k, t
    <2>8. Accounted(Location, Waiting, k, fresh, Range(accepted) \cup {t},
                    lost \cup truncated, rejected)
      BY <2>3, <2>5, <2>6, <2>7, AccountGrant DEF h, k
    <2> QED
      BY <1>1, <2>2, <2>4, <2>8 DEF Accounts, k
  <1> QED
    BY <1>5, <1>6 DEF Producers

-----------------------------------------------------------------------------
(* The forwarder task                                                      *)

(* The first trace of one place moves to the end of another.               *)
LEMMA AccountsFirstMoves ==
  ASSUME TypeInv, TypeInv', Accounts, NEW a, NEW b,
         FirstMoves(Traces, Location, Waiting, Held, Held', a, b),
         UNCHANGED <<fresh, accepted, lost, truncated, rejected>>
  PROVE  Accounts'
  <1> DEFINE h == Held
             k == Held'
  <1>1. Accounted(Location, Waiting, h, fresh, Range(accepted), lost \cup truncated,
                  rejected)
    BY DEF Accounts
  <1>2. Waiting \in Location /\ FirstMoves(Traces, Location, Waiting, h, k, a, b)
    BY Places
  <1> HIDE DEF h, k
  <1>3. Accounted(Location, Waiting, k, fresh, Range(accepted), lost \cup truncated,
                  rejected)
    BY <1>1, <1>2, AccountMove
  <1> QED
    BY <1>3 DEF Accounts, k

(* A trace moves from the queue to the end of the batch.                   *)
LEMMA AccountsTake ==
  ASSUME TypeInv, TypeInv', Accounts, queue # << >>,
         batch' = Append(batch, Head(queue)), queue' = Tail(queue),
         UNCHANGED <<waiting, fresh, accepted, lost, truncated, rejected, up,
                     acceptorVars>>
  PROVE  Accounts'
  <1>1. /\ HeldFacts /\ HeldFacts'
        /\ \A l \in Location \ {At("queue"), At("batch")} : Held'[l] = Held[l]
    BY Elsewhere DEF acceptorVars, InFlight, NextUp
  <1>2. FirstMoves(Traces, Location, Waiting, Held, Held', At("queue"), At("batch"))
    BY <1>1, Places DEF FirstMoves, HeldFacts, At
  <1> QED
    BY <1>2, AccountsFirstMoves

(* Places are emptied and what they held is lost.                          *)
LEMMA AccountsDrop ==
  ASSUME TypeInv, TypeInv', Accounts, NEW D \in SUBSET (Location \ {Waiting}),
         \A l \in Location \ D : Held'[l] = Held[l],
         \A l \in D : Held'[l] = << >>,
         lost' \cup truncated' =
           (lost \cup truncated) \cup UNION {Range(Held[l]) : l \in D},
         UNCHANGED <<fresh, accepted, rejected>>
  PROVE  Accounts'
  <1> DEFINE h == Held
             k == Held'
  <1>1. Accounted(Location, Waiting, h, fresh, Range(accepted), lost \cup truncated,
                  rejected)
    BY DEF Accounts
  <1>2. Waiting \in Location
    BY Places
  <1>3. /\ \A l \in Location \ D : k[l] = h[l]
        /\ \A l \in D : k[l] = << >>
    OBVIOUS
  <1>4. (lost \cup truncated)' = (lost \cup truncated) \cup UNION {Range(h[l]) : l \in D}
    OBVIOUS
  <1> HIDE DEF h, k
  <1>5. Accounted(Location, Waiting, k, fresh, Range(accepted),
                  (lost \cup truncated) \cup UNION {Range(h[l]) : l \in D}, rejected)
    BY <1>1, <1>2, <1>3, AccountDrop
  <1> QED
    BY <1>4, <1>5 DEF Accounts, k

(* Place a is emptied and what it held is lost.                            *)
LEMMA AccountsDropOne ==
  ASSUME TypeInv, TypeInv', Accounts, NEW a \in Location \ {Waiting},
         \A l \in Location \ {a} : Held'[l] = Held[l],
         Held'[a] = << >>,
         lost' \cup truncated' = (lost \cup truncated) \cup Range(Held[a]),
         UNCHANGED <<fresh, accepted, rejected>>
  PROVE  Accounts'
  <1>1. UNION {Range(Held[l]) : l \in {a}} = Range(Held[a])
    OBVIOUS
  <1>2. {a} \in SUBSET (Location \ {Waiting})
    OBVIOUS
  <1> QED
    BY <1>1, <1>2, AccountsDrop

(* The first n traces of place a move to the empty place b, the others are *)
(* discarded.                                                              *)
LEMMA AccountsCut ==
  ASSUME TypeInv, TypeInv', Accounts, HeldFacts, HeldFacts',
         NEW a \in Location \ {Waiting}, NEW b \in Location \ {Waiting, a},
         NEW n \in 0..Len(Held[a]),
         \A l \in Location \ {a, b} : Held'[l] = Held[l],
         Held[b] = << >>,
         Held'[a] = << >>,
         Held'[b] = SubSeq(Held[a], 1, n),
         lost' \cup truncated' =
           (lost \cup truncated) \cup Range(SubSeq(Held[a], n + 1, Len(Held[a]))),
         UNCHANGED <<fresh, accepted, rejected>>
  PROVE  Accounts'
  <1> DEFINE h == Held
             k == Held'
  <1>1. Accounted(Location, Waiting, h, fresh, Range(accepted), lost \cup truncated,
                  rejected)
    BY DEF Accounts
  <1>2. /\ Waiting \in Location
        /\ h \in [Location -> Seq(Traces)] /\ k \in [Location -> Seq(Traces)]
    BY Places DEF HeldFacts
  <1>3. /\ \A l \in Location \ {a, b} : k[l] = h[l]
        /\ h[b] = << >> /\ k[a] = << >> /\ k[b] = SubSeq(h[a], 1, n)
        /\ n \in 0..Len(h[a])
    OBVIOUS
  <1>4. (lost \cup truncated)' =
          (lost \cup truncated) \cup Range(SubSeq(h[a], n + 1, Len(h[a])))
    OBVIOUS
  <1> HIDE DEF h, k
  <1>5. Accounted(Location, Waiting, k, fresh, Range(accepted),
                  (lost \cup truncated) \cup Range(SubSeq(h[a], n + 1, Len(h[a]))),
                  rejected)
    BY <1>1, <1>2, <1>3, AccountCut
  <1> QED
    BY <1>4, <1>5 DEF Accounts, k

(* The reply that answers the request before the forwarder.                *)
TheReply == SubSeq(batch, 1, Taken(Head(down[conn]).count))

(* What is known of a request that is answered.                            *)
LEMMA AnswerFacts ==
  ASSUME TypeInv, ProtocolInv, AnswerRequest
  PROVE  /\ conn \in Conns /\ Head(down[conn]).count \in RequestCounts
         /\ Taken(Head(down[conn]).count) \in 0..Len(batch)
         /\ up[conn] = << >> /\ InFlight(conn) = << >>
         /\ InFlight(conn)' = IF link[conn] = "up" THEN TheReply ELSE << >>
         /\ \A d \in Conns \ {conn} : InFlight(d)' = InFlight(d)
  <1>1. conn \in Conns
    BY LinkTypes DEF AnswerRequest
  <1>2. /\ batch \in Seq(Traces) /\ Len(batch) \in Nat
        /\ up \in [Conns -> Seq(ForwarderMessage)]
    BY LenProperties DEF TypeInv, TypeOK, ForwarderTypeOK, LinkTypeOK
  <1>3. down[conn] # << >> /\ Head(down[conn]).type = "Request"
    BY DEF AnswerRequest, NextDown
  <1>4. up[conn] = << >>
    <2>1. ~NoRequest(down[conn])
      BY <1>1, <1>3, LinkTypes, ReadMessage
    <2> QED
      BY <1>1, <2>1 DEF ProtocolInv, DownInv
  <1>5. Head(down[conn]).count \in RequestCounts
    <2>1. Head(down[conn]) \in AcceptorMessage
      BY <1>1, <1>3, LinkTypes, SeqFacts
    <2>2. Accept.type # "Request" /\ Refuse.type # "Request" /\ Done.type # "Request"
      BY DEF Accept, Refuse, Done
    <2>3. Head(down[conn]) \in [type : {"Request"}, count : RequestCounts]
      BY <1>3, <2>1, <2>2 DEF AcceptorMessage
    <2> QED
      BY <2>3
  <1>6. Taken(Head(down[conn]).count) \in 0..Len(batch)
    <2>1. Head(down[conn]).count \in Nat
      BY <1>5, RequestCountsAssumption
    <2> QED
      BY <1>2, <2>1 DEF Taken
  <1>7. InFlight(conn) = << >>
    BY <1>4 DEF InFlight, NextUp
  <1> DEFINE reply == TheReply
  <1>8. up' = [up EXCEPT ![conn] = Queued(@, conn, TraceObjectsReply(reply))]
    BY DEF AnswerRequest, TheReply
  <1> HIDE DEF reply
  <1>9. InFlight(conn)' = IF link[conn] = "up" THEN reply ELSE << >>
    <2>1. CASE link[conn] = "up"
      <3>1. up'[conn] = <<TraceObjectsReply(reply)>>
        BY <1>1, <1>2, <1>4, <1>8, <2>1 DEF Queued
      <3>2. /\ Head(<<TraceObjectsReply(reply)>>) = TraceObjectsReply(reply)
            /\ <<TraceObjectsReply(reply)>> # << >>
        OBVIOUS
      <3>3. /\ TraceObjectsReply(reply).type = "Reply"
            /\ TraceObjectsReply(reply).traces = reply
        BY DEF TraceObjectsReply
      <3>4. conn' = conn
        BY DEF AnswerRequest
      <3> QED
        BY <2>1, <3>1, <3>2, <3>3, <3>4 DEF InFlight, NextUp
    <2>2. CASE link[conn] # "up"
      <3>1. up'[conn] = << >> /\ conn' = conn
        BY <1>1, <1>2, <1>4, <1>8, <2>2 DEF Queued, AnswerRequest
      <3> QED
        BY <2>2, <3>1 DEF InFlight, NextUp
    <2> QED
      BY <2>1, <2>2
  <1>10. \A d \in Conns \ {conn} : InFlight(d)' = InFlight(d)
    BY <1>2, <1>8 DEF InFlight, NextUp
  <1> QED
    BY <1>1, <1>4, <1>5, <1>6, <1>7, <1>9, <1>10 DEF reply

(* Answering a request turns the batch into a reply, or loses it.          *)
LEMMA AccountsAnswer ==
  ASSUME TypeInv, TypeInv', ProtocolInv, Accounts, AnswerRequest,
         UNCHANGED acceptorVars
  PROVE  Accounts'
  <1> DEFINE n == Taken(Head(down[conn]).count)
             reply == SubSeq(batch, 1, n)
             rest == SubSeq(batch, n + 1, Len(batch))
  <1>1. PICK c \in Conns : c = conn
    BY AnswerFacts
  <1>2. /\ n \in 0..Len(batch) /\ batch \in Seq(Traces)
        /\ InFlight(c) = << >>
        /\ \A d \in Conns \ {c} : InFlight(d)' = InFlight(d)
    BY <1>1, AnswerFacts DEF TypeInv, TypeOK, ForwarderTypeOK
  <1>3. InFlight(c)' = IF link[c] = "up" THEN reply ELSE << >>
    <2>1. InFlight(c)' = InFlight(conn)'
      BY <1>1 DEF AnswerRequest
    <2> QED
      BY <1>1, <2>1, AnswerFacts DEF TheReply
  <1> HIDE DEF n
  <1>4. Range(batch) = Range(reply) \cup Range(rest)
    BY <1>2, RangeSplit
  <1>5. /\ lost' = IF link[c] = "up" THEN lost ELSE lost \cup Range(reply)
        /\ truncated' = truncated \cup Range(rest)
        /\ batch' = << >>
        /\ UNCHANGED <<fresh, accepted, rejected, waiting, queue>>
    BY <1>1 DEF AnswerRequest, n
  <1> HIDE DEF reply, rest
  <1>6. /\ At("batch") \in Location \ {Waiting}
        /\ <<"flight", c>> \in Location \ {Waiting, At("batch")}
    BY Places DEF At
  <1>7. CASE link[c] = "up"
    <2>1. /\ HeldFacts /\ HeldFacts'
          /\ \A l \in Location \ {At("batch"), <<"flight", c>>} : Held'[l] = Held[l]
      BY <1>2, <1>5, Elsewhere DEF acceptorVars
    <2>2. /\ Held[At("batch")] = batch /\ Held'[At("batch")] = << >>
          /\ Held[<<"flight", c>>] = << >> /\ Held'[<<"flight", c>>] = reply
      BY <1>2, <1>3, <1>5, <1>7, <2>1 DEF HeldFacts
    <2>3. lost' \cup truncated' = (lost \cup truncated) \cup Range(rest)
      BY <1>5, <1>7
    <2> QED
      BY <1>2, <1>5, <1>6, <2>1, <2>2, <2>3, AccountsCut DEF reply, rest
  <1>8. CASE link[c] # "up"
    <2>1. InFlight(c)' = InFlight(c)
      BY <1>2, <1>3, <1>8
    <2>2. /\ HeldFacts /\ HeldFacts'
          /\ \A l \in Location \ {At("batch")} : Held'[l] = Held[l]
      BY <1>2, <1>5, <2>1, Elsewhere DEF acceptorVars
    <2>3. Held[At("batch")] = batch /\ Held'[At("batch")] = << >>
      BY <1>5, <2>2 DEF HeldFacts
    <2>4. lost' \cup truncated' = (lost \cup truncated) \cup Range(batch)
      BY <1>4, <1>5, <1>8
    <2> QED
      BY <1>5, <1>6, <2>2, <2>3, <2>4, AccountsDropOne
  <1> QED
    BY <1>7, <1>8

(* Every step of the forwarder task keeps the account.                     *)
LEMMA AccountsForwarder ==
  ASSUME TypeInv, TypeInv', ProtocolInv, BatchInv, Accounts, ForwarderTask,
         UNCHANGED acceptorVars
  PROVE  Accounts'
  <1>1. ASSUME NEW c \in Conns, Connect(c)
        PROVE  Accounts'
    <2>1. /\ link[c] = "unused"
          /\ up' = [up EXCEPT ![c] = <<Propose>>]
          /\ UNCHANGED <<fresh, waiting, queue, accepted, rejected, batch,
                         truncated, lost>>
      BY <1>1 DEF Connect, Open
    <2>2. InFlight(c) = << >>
      BY <2>1 DEF ProtocolInv, UnusedInv, InFlight, NextUp
    <2>3. InFlight(c)' = << >>
      <3>1. up'[c] = <<Propose>>
        BY <2>1, LinkTypes
      <3>2. Head(<<Propose>>) = Propose /\ Propose.type # "Reply"
        BY DEF Propose
      <3> QED
        BY <3>1, <3>2 DEF InFlight, NextUp
    <2>4. \A d \in Conns \ {c} : InFlight(d)' = InFlight(d)
      BY <2>1, LinkTypes DEF InFlight, NextUp
    <2> QED
      BY <2>1, <2>2, <2>3, <2>4, NothingMoves DEF acceptorVars
  <1>2. ASSUME ConnectFails \/ WakeUp \/ HandshakeAnswered \/ StopDraining
        PROVE  Accounts'
    <2>1. batch' = batch
      BY <1>2 DEF ConnectFails, WakeUp, HandshakeAnswered, StopDraining, GiveUp, BatchInv
    <2>2. UNCHANGED <<fresh, waiting, queue, accepted, rejected, truncated, lost, up>>
      BY <1>2 DEF ConnectFails, WakeUp, HandshakeAnswered, StopDraining, linkVars
    <2> QED
      BY <2>1, <2>2, NothingMoves DEF acceptorVars, InFlight, NextUp
  <1>3. ASSUME TakeFirst
        PROVE  Accounts'
    <2>1. batch = << >>
      BY <1>3 DEF TakeFirst, BatchInv
    <2>2. Head(queue) \in Traces
      BY <1>3, SeqFacts DEF TakeFirst, TypeInv, TypeOK, ForwarderTypeOK
    <2>3. <<Head(queue)>> = Append(<< >>, Head(queue))
      OBVIOUS
    <2> QED
      BY <1>3, <2>1, <2>3, AccountsTake DEF TakeFirst, linkVars
  <1>4. ASSUME TakeAnother
        PROVE  Accounts'
    BY <1>4, AccountsTake DEF TakeAnother, linkVars
  <1>5. ASSUME AcceptorIsDone
        PROVE  Accounts'
    <2>1. /\ batch' = << >> /\ queue' = << >> /\ waiting' = << >>
          /\ lost' = lost \cup Range(batch) \cup Range(queue)
          /\ rejected' = rejected \cup Range(waiting)
          /\ UNCHANGED <<fresh, accepted, truncated, up>>
      BY <1>5 DEF AcceptorIsDone
    <2> DEFINE D == {At("batch"), At("queue")}
    <2>2. /\ HeldFacts /\ HeldFacts'
          /\ \A l \in Location \ (D \cup {Waiting}) : Held'[l] = Held[l]
      BY <2>1, Elsewhere, Places DEF acceptorVars, InFlight, NextUp
    <2>3. D \in SUBSET (Location \ {Waiting}) /\ Waiting \in Location
      BY Places DEF At
    <2> DEFINE h == Held
               k == Held'
               m == [l \in Location |-> IF l = Waiting THEN h[l] ELSE k[l]]
    <2>4. /\ \A l \in Location \ D : m[l] = h[l]
          /\ \A l \in D : m[l] = << >>
          /\ \A l \in Location \ {Waiting} : k[l] = m[l]
          /\ k[Waiting] = << >> /\ m[Waiting] = waiting
      BY <2>1, <2>2, <2>3, Places DEF HeldFacts
    <2>5. UNION {Range(h[l]) : l \in D} = Range(batch) \cup Range(queue)
      BY <2>2 DEF HeldFacts
    <2>6. Accounted(Location, Waiting, h, fresh, Range(accepted), lost \cup truncated,
                    rejected)
      BY DEF Accounts
    <2> DEFINE out == (lost \cup truncated) \cup UNION {Range(h[l]) : l \in D}
    <2>7. lost' \cup truncated' = out
      BY <2>1, <2>5
    <2> HIDE DEF h, k, m, D
    <2>8. Accounted(Location, Waiting, m, fresh, Range(accepted), out, rejected)
      BY <2>3, <2>4, <2>6, AccountDrop
    <2> HIDE DEF out
    <2>9. Accounted(Location, Waiting, k, fresh, Range(accepted), out,
                    rejected \cup Range(m[Waiting]))
      BY <2>3, <2>4, <2>8, AccountClose
    <2> QED
      BY <2>1, <2>4, <2>7, <2>9 DEF Accounts, k
  <1>6. ASSUME ConnectionLost
        PROVE  Accounts'
    <2>1. /\ batch' = << >> /\ lost' = lost \cup Range(batch)
          /\ UNCHANGED <<fresh, waiting, queue, accepted, rejected, truncated, up>>
      BY <1>6 DEF ConnectionLost, GiveUp
    <2>2. /\ HeldFacts /\ HeldFacts'
          /\ \A l \in Location \ {At("batch")} : Held'[l] = Held[l]
      BY <2>1, Elsewhere DEF acceptorVars, InFlight, NextUp
    <2>3. Held[At("batch")] = batch /\ Held'[At("batch")] = << >>
      BY <2>1, <2>2 DEF HeldFacts
    <2>4. At("batch") \in Location \ {Waiting}
      BY Places DEF At
    <2>5. lost' \cup truncated' = (lost \cup truncated) \cup Range(batch)
      BY <2>1
    <2> QED
      BY <2>1, <2>2, <2>3, <2>4, <2>5, AccountsDropOne
  <1> QED
    BY <1>1, <1>2, <1>3, <1>4, <1>5, <1>6, AccountsAnswer DEF ForwarderTask

-----------------------------------------------------------------------------
(* The acceptor and the connections                                        *)

(* Every step of a handler keeps the account.                              *)
LEMMA AccountsHandler ==
  ASSUME TypeInv, TypeInv', ProtocolInv, Accounts, NEW c \in Conns,
         Handler(c) \/ ForeignAcceptor(c), UNCHANGED forwarderVars
  PROVE  Accounts'
  <1>0. /\ UNCHANGED <<fresh, waiting, queue, accepted, rejected, batch, truncated>>
        /\ UpInv(c)
        /\ pending \in [Conns -> Seq(Traces)]
        /\ up \in [Conns -> Seq(ForwarderMessage)]
    BY LinkTypes DEF forwarderVars, ProtocolInv, TypeInv, TypeOK, AcceptorTypeOK
  <1>1. ASSUME AcceptHandshake(c) \/ RefuseHandshake(c)
        PROVE  Accounts'
    <2>1. /\ up[c] # << >> /\ Head(up[c]).type = "Propose"
          /\ up' = [up EXCEPT ![c] = Tail(@)]
          /\ UNCHANGED <<pending, channel, consumed, lost>>
      BY <1>1 DEF AcceptHandshake, RefuseHandshake, NextUp
    <2>2. InFlight(c) = << >>
      BY <2>1 DEF InFlight, NextUp
    <2>3. InFlight(c)' = << >>
      BY <1>0, <2>1, OneMessage DEF InFlight, NextUp
    <2>4. \A d \in Conns \ {c} : InFlight(d)' = InFlight(d)
      BY <1>0, <2>1 DEF InFlight, NextUp
    <2> QED
      BY <1>0, <2>1, <2>2, <2>3, <2>4, NothingMoves
  <1>2. ASSUME RequestTraces(c) \/ SendDone(c) \/ HandlerEnds(c)
        PROVE  Accounts'
    BY <1>0, <1>2, NothingMoves DEF RequestTraces, SendDone, HandlerEnds, linkVars,
       InFlight, NextUp
  <1>3. ASSUME ReceiveReply(c)
        PROVE  Accounts'
    <2>1. /\ NextUp(c, "Reply") /\ apc[c] = "awaiting"
          /\ up' = [up EXCEPT ![c] = Tail(@)]
          /\ pending' = [pending EXCEPT ![c] = Head(up[c]).traces]
          /\ UNCHANGED <<channel, consumed, lost>>
      BY <1>3 DEF ReceiveReply
    <2>2. InFlight(c) = Head(up[c]).traces /\ pending[c] = << >>
      BY <2>1 DEF InFlight, TypeInv, PendingOK
    <2>3. InFlight(c)' = << >>
      BY <1>0, <2>1, OneMessage DEF InFlight, NextUp
    <2>4. \A d \in Conns \ {c} : InFlight(d)' = InFlight(d)
      BY <1>0, <2>1 DEF InFlight, NextUp
    <2>5. /\ HeldFacts /\ HeldFacts'
          /\ \A l \in Location \ {<<"flight", c>>, <<"pending", c>>} : Held'[l] = Held[l]
      BY <1>0, <2>1, <2>4, Elsewhere
    <2>6. /\ <<"flight", c>> \in Location \ {Waiting}
          /\ <<"pending", c>> \in Location \ {Waiting, <<"flight", c>>}
      BY Places DEF At
    <2>7. /\ Held[<<"flight", c>>] = InFlight(c) /\ Held'[<<"flight", c>>] = << >>
          /\ Held[<<"pending", c>>] = << >> /\ Held'[<<"pending", c>>] = InFlight(c)
      BY <1>0, <2>1, <2>2, <2>3, <2>5 DEF HeldFacts
    <2> DEFINE s == InFlight(c)
    <2>8. s \in Seq(Traces)
      BY <2>5, <2>6, <2>7 DEF HeldFacts
    <2> HIDE DEF s
    <2>9. /\ Len(s) \in 0..Len(s)
          /\ SubSeq(s, 1, Len(s)) = s
          /\ Range(SubSeq(s, Len(s) + 1, Len(s))) = {}
      BY <2>8, WholeSeq
    <2>10. lost' \cup truncated' =
             (lost \cup truncated) \cup Range(SubSeq(s, Len(s) + 1, Len(s)))
      BY <1>0, <2>1, <2>9
    <2> QED
      BY <1>0, <2>5, <2>6, <2>7, <2>9, <2>10, AccountsCut DEF s
  <1>4. ASSUME PushTrace(c)
        PROVE  Accounts'
    <2>1. /\ pending[c] # << >>
          /\ channel' = Append(channel, Head(pending[c]))
          /\ pending' = [pending EXCEPT ![c] = Tail(@)]
          /\ UNCHANGED <<consumed, lost, up>>
      BY <1>4 DEF PushTrace, TypeInv, PendingOK, linkVars
    <2>2. /\ HeldFacts /\ HeldFacts'
          /\ \A l \in Location \ {<<"pending", c>>, At("channel")} : Held'[l] = Held[l]
      BY <1>0, <2>1, Elsewhere DEF InFlight, NextUp
    <2>3. FirstMoves(Traces, Location, Waiting, Held, Held', <<"pending", c>>,
                     At("channel"))
      BY <1>0, <2>1, <2>2, Places DEF FirstMoves, HeldFacts, At
    <2> QED
      BY <1>0, <2>1, <2>3, AccountsFirstMoves
  <1>5. ASSUME PushFails(c)
        PROVE  Accounts'
    <2>1. /\ lost' = lost \cup Range(pending[c])
          /\ pending' = [pending EXCEPT ![c] = << >>]
          /\ UNCHANGED <<channel, consumed, up>>
      BY <1>5 DEF PushFails
    <2>2. /\ HeldFacts /\ HeldFacts'
          /\ \A l \in Location \ {<<"pending", c>>} : Held'[l] = Held[l]
      BY <1>0, <2>1, Elsewhere DEF InFlight, NextUp
    <2>3. Held[<<"pending", c>>] = pending[c] /\ Held'[<<"pending", c>>] = << >>
      BY <1>0, <2>1, <2>2 DEF HeldFacts
    <2>4. <<"pending", c>> \in Location \ {Waiting}
      BY Places DEF At
    <2>5. lost' \cup truncated' = (lost \cup truncated) \cup Range(Held[<<"pending", c>>])
      BY <1>0, <2>1, <2>3
    <2> QED
      BY <1>0, <2>2, <2>3, <2>4, <2>5, AccountsDropOne
  <1> QED
    BY <1>1, <1>2, <1>3, <1>4, <1>5 DEF Handler, ForeignAcceptor

(* Consuming a trace and dropping the AcceptorHandle keep the account.     *)
LEMMA AccountsConsumer ==
  ASSUME TypeInv, TypeInv', Accounts, Consume \/ DropHandle, UNCHANGED forwarderVars
  PROVE  Accounts'
  <1>0. /\ UNCHANGED <<fresh, waiting, queue, accepted, rejected, batch, truncated>>
        /\ UNCHANGED <<pending, up>>
    BY DEF forwarderVars, Consume, DropHandle, linkVars
  <1>1. CASE Consume
    <2>1. /\ channel # << >>
          /\ consumed' = Append(consumed, Head(channel))
          /\ channel' = Tail(channel)
          /\ lost' = lost
      BY <1>1 DEF Consume, linkVars
    <2>2. /\ HeldFacts /\ HeldFacts'
          /\ \A l \in Location \ {At("channel"), At("consumed")} : Held'[l] = Held[l]
      BY <1>0, <2>1, Elsewhere DEF InFlight, NextUp
    <2>3. FirstMoves(Traces, Location, Waiting, Held, Held', At("channel"),
                     At("consumed"))
      BY <2>1, <2>2, Places DEF FirstMoves, HeldFacts, At
    <2> QED
      BY <1>0, <2>1, <2>3, AccountsFirstMoves
  <1>2. CASE DropHandle
    <2>1. lost' = lost \cup Range(channel) /\ channel' = << >> /\ consumed' = consumed
      BY <1>2 DEF DropHandle
    <2>2. /\ HeldFacts /\ HeldFacts'
          /\ \A l \in Location \ {At("channel")} : Held'[l] = Held[l]
      BY <1>0, <2>1, Elsewhere DEF InFlight, NextUp
    <2>3. Held[At("channel")] = channel /\ Held'[At("channel")] = << >>
      BY <2>1, <2>2 DEF HeldFacts
    <2>4. At("channel") \in Location \ {Waiting}
      BY Places DEF At
    <2>5. lost' \cup truncated' = (lost \cup truncated) \cup Range(Held[At("channel")])
      BY <1>0, <2>1, <2>3
    <2> QED
      BY <1>0, <2>2, <2>3, <2>4, <2>5, AccountsDropOne
  <1> QED
    BY <1>1, <1>2

(* The traces of a break are those of the reply that did not get through.  *)
LEMMA CutReply ==
  ASSUME NEW s \in Seq(ForwarderMessage), Len(s) <= 1, NEW i \in 0..Len(s)
  PROVE  \/ SubSeq(s, 1, i) = s /\ TracesIn(SubSeq(s, i + 1, Len(s))) = {}
         \/ /\ s # << >> /\ SubSeq(s, 1, i) = << >>
            /\ TracesIn(SubSeq(s, i + 1, Len(s))) =
                 IF Head(s).type = "Reply" THEN Range(Head(s).traces) ELSE {}
  <1>1. Len(s) \in Nat
    BY LenProperties
  <1>2. CASE i = Len(s)
    BY <1>2, WholeSeq DEF TracesIn
  <1>3. CASE i # Len(s)
    <2>1. i = 0 /\ Len(s) = 1
      <3>1. \A n \in Nat : \A j \in 0..n : n <= 1 /\ j # n => j = 0 /\ n = 1
        OBVIOUS
      <3> QED
        BY <1>1, <1>3, <3>1
    <2>2. s # << >> /\ SubSeq(s, 1, 0) = << >>
      BY <2>1, EmptySeq, SubSeqType, SubSeqProperties
    <2>3. SubSeq(s, 1, Len(s)) = s
      BY WholeSeq
    <2>4. Range(s) = {Head(s)}
      <3>1. Tail(s) = << >>
        BY <2>1, <2>2, SeqFacts
      <3>2. Range(s) = {Head(s)} \cup Range(Tail(s))
        BY <2>2, RangeTail
      <3>3. Range(<< >>) = {}
        BY RangeEmpty
      <3> QED
        BY <3>1, <3>2, <3>3
    <2>5. TracesIn(s) = IF Head(s).type = "Reply" THEN Range(Head(s).traces) ELSE {}
      BY <2>4 DEF TracesIn
    <2>6. SubSeq(s, i + 1, Len(s)) = s /\ SubSeq(s, 1, i) = << >>
      <3>1. i + 1 = 1
        BY <2>1
      <3> QED
        BY <2>1, <2>2, <2>3, <3>1
    <2> QED
      BY <2>2, <2>5, <2>6
  <1> QED
    BY <1>2, <1>3

(* A connection that breaks loses the reply that was on its way, or not.   *)
LEMMA AccountsBreak ==
  ASSUME TypeInv, TypeInv', ProtocolInv, Accounts, NEW c \in Conns, Break(c),
         UNCHANGED <<forwarderVars, acceptorVars>>
  PROVE  Accounts'
  <1>0. /\ UNCHANGED <<fresh, waiting, queue, accepted, rejected, batch, truncated>>
        /\ UNCHANGED <<pending, channel, consumed>>
        /\ up \in [Conns -> Seq(ForwarderMessage)]
        /\ Len(up[c]) <= 1
    BY LinkTypes DEF forwarderVars, acceptorVars, ProtocolInv, UpInv
  <1>1. PICK i \in 0..Len(up[c]) :
          /\ up' = [up EXCEPT ![c] = SubSeq(@, 1, i)]
          /\ lost' = lost \cup TracesIn(SubSeq(up[c], i + 1, Len(up[c])))
    BY DEF Break
  <1>2. \A d \in Conns \ {c} : InFlight(d)' = InFlight(d)
    BY <1>0, <1>1 DEF InFlight, NextUp
  <1>3. \/ up'[c] = up[c] /\ lost' = lost
        \/ /\ up[c] # << >> /\ up'[c] = << >>
           /\ lost' = lost \cup (IF Head(up[c]).type = "Reply"
                                   THEN Range(Head(up[c]).traces) ELSE {})
    BY <1>0, <1>1, CutReply
  <1>4. CASE up'[c] = up[c] /\ lost' = lost
    <2>1. InFlight(c)' = InFlight(c)
      BY <1>4 DEF InFlight, NextUp
    <2> QED
      BY <1>0, <1>2, <1>4, <2>1, NothingMoves
  <1>5. CASE /\ up[c] # << >> /\ up'[c] = << >>
             /\ lost' = lost \cup (IF Head(up[c]).type = "Reply"
                                     THEN Range(Head(up[c]).traces) ELSE {})
    <2>1. InFlight(c)' = << >> /\ lost' = lost \cup Range(InFlight(c))
      BY <1>5, RangeEmpty DEF InFlight, NextUp
    <2>2. /\ HeldFacts /\ HeldFacts'
          /\ \A l \in Location \ {<<"flight", c>>} : Held'[l] = Held[l]
      BY <1>0, <1>2, Elsewhere
    <2>3. Held[<<"flight", c>>] = InFlight(c) /\ Held'[<<"flight", c>>] = << >>
      BY <2>1, <2>2 DEF HeldFacts
    <2>4. <<"flight", c>> \in Location \ {Waiting}
      BY Places DEF At
    <2>5. lost' \cup truncated' = (lost \cup truncated) \cup Range(Held[<<"flight", c>>])
      BY <1>0, <2>1, <2>3
    <2> QED
      BY <1>0, <2>2, <2>3, <2>4, <2>5, AccountsDropOne
  <1> QED
    BY <1>3, <1>4, <1>5

-----------------------------------------------------------------------------
(* IInv is an inductive invariant                                          *)

(* No trace was offered yet, and no place holds one.                       *)
LEMMA DeliveryInit == Init => BatchInv /\ Accounts
  <1> SUFFICES ASSUME Init PROVE BatchInv /\ Accounts
    OBVIOUS
  <1>1. HeldFacts
    BY TypeInit, HeldValues
  <1>2. /\ waiting = << >> /\ queue = << >> /\ batch = << >> /\ channel = << >>
        /\ consumed = << >> /\ accepted = << >>
        /\ lost = {} /\ truncated = {} /\ rejected = {}
        /\ \A c \in Conns : InFlight(c) = << >> /\ pending[c] = << >>
    BY DEF Init, LinkInit, ForwarderInit, AcceptorInit, InFlight, NextUp
  <1>3. \A l \in Location : Held[l] = << >>
    BY <1>1, <1>2, Places DEF HeldFacts
  <1>4. \A l \in Location : Range(Held[l]) = {} /\ IsInjective(Held[l])
    BY <1>3, RangeEmpty
  <1>5. Range(accepted) = {}
    BY <1>2, RangeEmpty
  <1>6. Waiting \in Location
    BY Places
  <1>7. Accounts
    BY <1>2, <1>4, <1>5, <1>6 DEF Accounts, Accounted
  <1> QED
    BY <1>2, <1>7 DEF BatchInv

(* The batch is only in use between the first trace and the request.       *)
LEMMA BatchStep == BatchInv /\ [Next]_vars => BatchInv'
  <1> SUFFICES ASSUME BatchInv, [Next]_vars PROVE BatchInv'
    OBVIOUS
  <1>1. CASE ForwarderTask
    BY <1>1 DEF ForwarderTask, BatchInv, Connect, ConnectFails, WakeUp,
       HandshakeAnswered, TakeFirst, TakeAnother, StopDraining, AnswerRequest,
       AcceptorIsDone, ConnectionLost, GiveUp
  <1>2. ASSUME UNCHANGED <<fpc, batch>> PROVE BatchInv'
    BY <1>2 DEF BatchInv
  <1>3. Producers => UNCHANGED <<fpc, batch>>
    BY DEF Producers, Send, TrySend, FinishSend
  <1> QED
    BY <1>1, <1>2, <1>3 DEF Next, ForwarderStep, AcceptorStep, LinkStep, vars,
       forwarderVars

(* Every step of the system keeps the account.                             *)
LEMMA AccountsStep ==
  ASSUME TypeInv, TypeInv', ProtocolInv, BatchInv, Accounts, [Next]_vars
  PROVE  Accounts'
  <1>1. CASE ForwarderStep
    BY <1>1, AccountsForwarder, AccountsProducers DEF ForwarderStep
  <1>2. CASE AcceptorStep
    BY <1>2, AccountsHandler, AccountsConsumer DEF AcceptorStep
  <1>3. CASE LinkStep
    BY <1>3, AccountsBreak DEF LinkStep
  <1>4. CASE UNCHANGED vars
    BY <1>4, NothingMoves DEF vars, linkVars, forwarderVars, acceptorVars, InFlight,
       NextUp
  <1> QED
    BY <1>1, <1>2, <1>3, <1>4 DEF Next

(* Types, the protocol on every connection, and where every trace is.      *)
IInv == TypeInv /\ ProtocolInv /\ BatchInv /\ Accounts

(* The inductive invariant holds in every reachable state.                 *)
LEMMA IInvCorrect == Spec => []IInv
  <1>1. Init => IInv
    BY TypeInit, ProtocolInit, DeliveryInit DEF IInv
  <1>2. IInv /\ [Next]_vars => IInv'
    <2> SUFFICES ASSUME IInv, [Next]_vars PROVE IInv'
      OBVIOUS
    <2>1. TypeInv' /\ ProtocolInv' /\ BatchInv'
      BY TypeStep, ProtocolStep, BatchStep DEF IInv
    <2>2. Accounts'
      BY <2>1, AccountsStep DEF IInv
    <2> QED
      BY <2>1, <2>2 DEF IInv
  <1> QED
    BY <1>1, <1>2, PTL DEF Spec

(* No trace is ever duplicated: whatever breaks, and whatever handlers of  *)
(* old connections still do (forwarder.rs and acceptor.rs).                *)
THEOREM OnePlaceCorrect == Spec => []OnePlace
  <1>1. IInv => OnePlace
    BY AccountsMeaning DEF IInv
  <1> QED
    BY <1>1, IInvCorrect, PTL

(* No accepted trace disappears without one of the named reasons.          *)
THEOREM NothingVanishesCorrect == Spec => []NothingVanishes
  <1>1. IInv => NothingVanishes
    BY AccountsMeaning DEF IInv
  <1> QED
    BY <1>1, IInvCorrect, PTL

-----------------------------------------------------------------------------
(* The abstract promise                                                    *)

(* How a step changes the variables of LossyQueue.                         *)
LEMMA PromiseVariables ==
  ASSUME IInv, [Next]_vars
  PROVE  \/ /\ \E t \in Traces : t \in fresh \cup Range(waiting)
                                   /\ accepted' = Append(accepted, t)
            /\ UNCHANGED <<consumed, lost, truncated>>
         \/ /\ channel # << >> /\ consumed' = Append(consumed, Head(channel))
            /\ UNCHANGED <<accepted, lost, truncated>>
         \/ /\ UNCHANGED <<accepted, consumed>>
            /\ lost \subseteq lost' /\ truncated \subseteq truncated'
  <1>1. CASE Producers /\ UNCHANGED acceptorVars
    <2>1. ASSUME NEW t \in Traces, Send(t) \/ TrySend(t)
          PROVE  \/ accepted' = accepted
                 \/ t \in fresh /\ accepted' = Append(accepted, t)
      BY <2>1 DEF Send, TrySend, Enqueue
    <2>2. ASSUME NEW i \in 1..Len(waiting), FinishSend(i)
          PROVE  /\ waiting[i] \in Traces /\ waiting[i] \in Range(waiting)
                 /\ accepted' = Append(accepted, waiting[i])
      <3>1. waiting \in Seq(Traces)
        BY DEF IInv, TypeInv, TypeOK, ForwarderTypeOK
      <3>2. waiting[i] \in Traces /\ waiting[i] \in Range(waiting)
        BY <3>1, ElementOfSeq, RangeIndexed
      <3> QED
        BY <2>2, <3>2 DEF FinishSend, Enqueue
    <2>3. UNCHANGED <<consumed, lost, truncated>>
      BY <1>1 DEF Producers, Send, TrySend, FinishSend, acceptorVars, linkVars
    <2> QED
      BY <1>1, <2>1, <2>2, <2>3 DEF Producers
  <1>2. CASE ForwarderTask /\ UNCHANGED acceptorVars
    BY <1>2 DEF ForwarderTask, Connect, ConnectFails, WakeUp, HandshakeAnswered,
       TakeFirst, TakeAnother, StopDraining, AnswerRequest, AcceptorIsDone,
       ConnectionLost, Open, linkVars, acceptorVars
  <1>3. CASE Consume /\ UNCHANGED forwarderVars
    BY <1>3 DEF Consume, linkVars, forwarderVars
  <1>4. ASSUME NEW c \in Conns, Handler(c) \/ ForeignAcceptor(c),
               UNCHANGED forwarderVars
        PROVE  /\ UNCHANGED <<accepted, consumed, truncated>>
               /\ lost \subseteq lost'
    BY <1>4 DEF Handler, ForeignAcceptor, AcceptHandshake, RefuseHandshake,
       RequestTraces, SendDone, ReceiveReply, PushTrace, PushFails, HandlerEnds,
       linkVars, forwarderVars
  <1>5. ASSUME DropHandle, UNCHANGED forwarderVars
        PROVE  /\ UNCHANGED <<accepted, consumed, truncated>>
               /\ lost \subseteq lost'
    BY <1>5 DEF DropHandle, forwarderVars
  <1>6. ASSUME NEW c \in Conns, Break(c), UNCHANGED <<forwarderVars, acceptorVars>>
        PROVE  /\ UNCHANGED <<accepted, consumed, truncated>>
               /\ lost \subseteq lost'
    BY <1>6 DEF Break, forwarderVars, acceptorVars
  <1>7. CASE UNCHANGED vars
    BY <1>7 DEF vars, linkVars, forwarderVars, acceptorVars
  <1> QED
    BY <1>1, <1>2, <1>3, <1>4, <1>5, <1>6, <1>7 DEF Next, ForwarderStep,
       AcceptorStep, LinkStep

(* Every step of the system is a step of LossyQueue, or leaves it alone.   *)
LEMMA PromiseStep ==
  ASSUME IInv, IInv', [Next]_vars
  PROVE  [Promise!Next]_(Promise!qvars)
  <1> DEFINE gone == lost \cup truncated
  <1>0. Promise!Range(consumed) = Range(consumed)
    BY DEF Promise!Range, Range
  <1>1. /\ accepted \in Seq(Traces) /\ consumed \in Seq(Traces)
        /\ channel \in Seq(Traces)
        /\ HeldFacts /\ HeldFacts'
    BY HeldValues, PTL DEF IInv, TypeInv, TypeOK, ForwarderTypeOK, AcceptorTypeOK
  <1>2. ASSUME NEW t \in Traces, t \in fresh \cup Range(waiting),
               accepted' = Append(accepted, t), UNCHANGED <<consumed, lost, truncated>>
        PROVE  Promise!Take(t)
    <2>1. t \notin Range(accepted)
      BY <1>1, <1>2, Places DEF IInv, Accounts, Accounted, HeldFacts
    <2>2. Range(accepted') = Range(accepted) \cup {t}
      BY <1>1, <1>2, RangeAppend
    <2> QED
      BY <1>2, <2>1, <2>2 DEF Promise!Take
  <1>3. ASSUME channel # << >>, consumed' = Append(consumed, Head(channel)),
               UNCHANGED <<accepted, lost, truncated>>
        PROVE  Head(channel) \in Traces /\ Promise!Deliver(Head(channel))
    <2>1. Head(channel) \in Range(channel) /\ Head(channel) \in Traces
      BY <1>1, <1>3, RangeTail, SeqFacts
    <2>2. Head(channel) \in Range(accepted) \ (Range(consumed) \cup gone)
      <3>1. /\ At("channel") \in Location \ {Waiting} /\ At("consumed") \in Location
            /\ At("channel") # At("consumed")
        BY Places DEF At
      <3>2. /\ Head(channel) \in Range(Held[At("channel")])
            /\ Range(Held[At("consumed")]) = Range(consumed)
        BY <1>1, <2>1 DEF HeldFacts
      <3> QED
        BY <3>1, <3>2 DEF IInv, Accounts, Accounted
    <2> QED
      BY <1>0, <1>3, <2>1, <2>2 DEF Promise!Deliver, Promise!Outstanding
  <1>4. ASSUME UNCHANGED <<accepted, consumed>>,
               lost \subseteq lost', truncated \subseteq truncated'
        PROVE  Promise!Lose
    <2>1. gone' \subseteq Range(accepted) /\ gone' \cap Range(consumed) = {}
      <3>1. /\ At("consumed") \in Location
            /\ Range(Held'[At("consumed")]) = Range(consumed)
        BY <1>1, <1>4, Places DEF HeldFacts
      <3>2. Accounted(Location, Waiting, Held', fresh', Range(accepted), gone', rejected')
        BY <1>4 DEF IInv, Accounts
      <3> QED
        BY <3>1, <3>2 DEF Accounted
    <2> QED
      BY <1>0, <1>4, <2>1 DEF Promise!Lose, Promise!Outstanding
  <1> QED
    BY <1>2, <1>3, <1>4, PromiseVariables DEF Promise!Next

(* From end to end, trace forwarding delivers every accepted trace at most *)
(* once or loses it, never both, and delivers nothing else.                *)
THEOREM PromiseCorrect == Spec => ImplementsLossyQueue
  <1>1. Init => Promise!Init
    BY RangeEmpty DEF Init, LinkInit, ForwarderInit, AcceptorInit, Promise!Init
  <1>2. IInv /\ IInv' /\ [Next]_vars => [Promise!Next]_(Promise!qvars)
    BY PromiseStep
  <1> QED
    BY <1>1, <1>2, IInvCorrect, PTL DEF Spec, ImplementsLossyQueue, Promise!Spec

-----------------------------------------------------------------------------
(* Sequences in line                                                       *)

(* s is how t begins.                                                      *)
Begins(s, t) == DOMAIN s \subseteq DOMAIN t /\ \A i \in DOMAIN s : s[i] = t[i]

(* What is in line stays so when its parts lose their ends.                *)
LEMMA LinedPrefix ==
  ASSUME NEW n \in Nat, NEW f, NEW g, NEW R, NEW acc, Lined(n, f, R, acc),
         \A k \in 1..n : Begins(g[k], f[k])
  PROVE  Lined(n, g, R, acc)
  <1>1. ASSUME NEW k \in 1..n
        PROVE  InLine(g[k], R, acc) /\ Range(g[k]) \subseteq Range(f[k])
    <2>1. InLine(f[k], R, acc) /\ Begins(g[k], f[k])
      BY DEF Lined
    <2> QED
      BY <2>1 DEF InLine, Begins, Range
  <1>2. ASSUME NEW k \in 1..n, NEW l \in 1..n, k < l
        PROVE  Ahead(g[k], g[l], R, acc)
    <2>1. Ahead(f[k], f[l], R, acc)
      BY <1>2 DEF Lined
    <2> QED
      BY <1>1, <2>1 DEF Ahead
  <1> QED
    BY <1>1, <1>2 DEF Lined

(* The order may grow, and traces that stand nowhere may count.            *)
LEMMA LinedGrow ==
  ASSUME NEW n \in Nat, NEW f, NEW R, NEW T, NEW acc, NEW new, Lined(n, f, R, acc),
         \A x, y : Before(acc, x, y) => Before(new, x, y),
         \A k \in 1..n : Range(f[k]) \cap T \subseteq R
  PROVE  Lined(n, f, T, new)
  <1>1. \A k \in 1..n : InLine(f[k], T, new)
    BY DEF Lined, InLine, Range
  <1>2. ASSUME NEW k \in 1..n, NEW l \in 1..n, k < l
        PROVE  Ahead(f[k], f[l], T, new)
    <2>1. Ahead(f[k], f[l], R, acc)
      BY <1>2 DEF Lined
    <2> QED
      BY <2>1 DEF Ahead
  <1> QED
    BY <1>1, <1>2 DEF Lined

(* Between two neighbours, traces move forward.                            *)
LEMMA LinedTwo ==
  ASSUME NEW n \in Nat, NEW f, NEW g, NEW R, NEW acc, Lined(n, f, R, acc),
         NEW k \in 1..n, k + 1 \in 1..n,
         InLine(g[k], R, acc), InLine(g[k + 1], R, acc), Ahead(g[k], g[k + 1], R, acc),
         Range(g[k]) \subseteq Range(f[k]) \cup Range(f[k + 1]),
         Range(g[k + 1]) \subseteq Range(f[k + 1]),
         \A l \in (1..n) \ {k, k + 1} : g[l] = f[l]
  PROVE  Lined(n, g, R, acc)
  <1>1. \A l \in 1..n : InLine(g[l], R, acc)
    BY DEF Lined
  <1>2. ASSUME NEW i \in 1..n, NEW j \in 1..n, i < j
        PROVE  Ahead(g[i], g[j], R, acc)
    <2>1. CASE i = k /\ j = k + 1
      BY <2>1
    <2>2. CASE i < k
      <3>1. g[i] = f[i]
        BY <1>2, <2>2
      <3>2. Ahead(f[i], f[j], R, acc) /\ Ahead(f[i], f[k], R, acc) /\ Ahead(f[i], f[k + 1], R, acc)
        BY <1>2, <2>2 DEF Lined
      <3>3. Range(g[j]) \subseteq Range(f[j]) \cup Range(f[k]) \cup Range(f[k + 1])
        BY DEF Lined
      <3> QED
        BY <3>1, <3>2, <3>3 DEF Ahead
    <2>3. CASE j > k + 1
      <3>1. g[j] = f[j]
        BY <1>2, <2>3
      <3>2. /\ Ahead(f[i], f[j], R, acc) /\ Ahead(f[k], f[j], R, acc) /\ Ahead(f[k + 1], f[j], R, acc)
        BY <1>2, <2>3 DEF Lined
      <3>3. Range(g[i]) \subseteq Range(f[i]) \cup Range(f[k]) \cup Range(f[k + 1])
        BY DEF Lined
      <3> QED
        BY <3>1, <3>2, <3>3 DEF Ahead
    <2> QED
      BY <1>2, <2>1, <2>2, <2>3
  <1> QED
    BY <1>1, <1>2 DEF Lined

(* The head of one moves to the end of the one before it.                  *)
LEMMA LinedMove ==
  ASSUME NEW S, NEW n \in Nat, NEW f, NEW g, NEW R, NEW acc, Lined(n, f, R, acc),
         NEW k \in 1..n, k + 1 \in 1..n,
         f[k] \in Seq(S), f[k + 1] \in Seq(S), f[k + 1] # << >>,
         g[k] = Append(f[k], Head(f[k + 1])), g[k + 1] = Tail(f[k + 1]),
         \A l \in (1..n) \ {k, k + 1} : g[l] = f[l]
  PROVE  Lined(n, g, R, acc)
  <1> DEFINE a == f[k]
             b == f[k + 1]
             x == Head(b)
             c == Append(a, x)
             r == Tail(b)
  <1>1. InLine(a, R, acc) /\ InLine(b, R, acc) /\ Ahead(a, b, R, acc)
    BY DEF Lined
  <1>2. /\ a \in Seq(S) /\ b \in Seq(S) /\ b # << >>
        /\ g[k] = c /\ g[k + 1] = r
    OBVIOUS
  <1> HIDE DEF a, b
  <1>3. /\ x \in S /\ r \in Seq(S) /\ x = b[1] /\ Len(b) \in Nat \ {0}
        /\ Len(r) = Len(b) - 1 /\ \A i \in 1..Len(r) : r[i] = b[i + 1]
    BY <1>2, HeadTailProperties, LenProperties, EmptySeq
  <1> HIDE DEF x, r
  <1>4. /\ Len(a) \in Nat /\ c \in Seq(S) /\ Len(c) = Len(a) + 1 /\ c[Len(a) + 1] = x
        /\ \A i \in 1..Len(a) : c[i] = a[i]
    BY <1>2, <1>3, AppendProperties, LenProperties
  <1>5. /\ DOMAIN a = 1..Len(a) /\ DOMAIN b = 1..Len(b) /\ DOMAIN r = 1..Len(r)
        /\ DOMAIN c = 1..Len(c)
    BY <1>2, <1>3, <1>4, LenProperties
  <1> HIDE DEF c
  <1>6. \A i \in DOMAIN r : i + 1 \in DOMAIN b /\ r[i] = b[i + 1] /\ 1 < i + 1
    BY SMTT(60), <1>3, <1>5
  <1>7. \A i \in DOMAIN c : (i \in DOMAIN a /\ c[i] = a[i]) \/ (i = Len(a) + 1 /\ c[i] = b[1])
    BY <1>3, <1>4, <1>5
  <1>8. 1 \in DOMAIN b
    BY <1>3, <1>5
  <1>9. Range(c) \subseteq Range(a) \cup Range(b) /\ Range(r) \subseteq Range(b)
    BY <1>6, <1>7, <1>8 DEF Range
  <1>10. InLine(r, R, acc)
    <2>1. \A i, j \in DOMAIN r : i < j => i + 1 < j + 1
      BY <1>3, <1>5
    <2> QED
      BY <1>1, <1>6, <2>1 DEF InLine
  <1>11. InLine(c, R, acc)
    <2> SUFFICES ASSUME NEW i \in DOMAIN c, NEW j \in DOMAIN c, i < j, c[i] \in R, c[j] \in R
                 PROVE  Before(acc, c[i], c[j])
      BY DEF InLine
    <2>1. i \in DOMAIN a /\ c[i] = a[i]
      BY <1>4, <1>5, <1>7
    <2>2. CASE j \in DOMAIN a /\ c[j] = a[j]
      BY <1>1, <2>1, <2>2 DEF InLine
    <2>3. CASE c[j] = b[1]
      BY <1>1, <1>8, <2>1, <2>3 DEF Ahead, Range
    <2> QED
      BY <1>7, <2>2, <2>3
  <1>12. Ahead(c, r, R, acc)
    <2> SUFFICES ASSUME NEW i \in DOMAIN c, NEW j \in DOMAIN r, c[i] \in R, r[j] \in R
                 PROVE  Before(acc, c[i], r[j])
      BY DEF Ahead, Range
    <2>1. j + 1 \in DOMAIN b /\ r[j] = b[j + 1] /\ 1 < j + 1
      BY <1>6
    <2>2. CASE i \in DOMAIN a /\ c[i] = a[i]
      BY <1>1, <2>1, <2>2 DEF Ahead, Range
    <2>3. CASE c[i] = b[1]
      BY <1>1, <1>8, <2>1, <2>3 DEF InLine
    <2> QED
      BY <1>7, <2>2, <2>3
  <1> QED
    BY <1>2, <1>9, <1>10, <1>11, <1>12, LinedTwo DEF a, b

(* What one holds is added to the one before it.                           *)
LEMMA LinedJoin ==
  ASSUME NEW S, NEW n \in Nat, NEW f, NEW g, NEW R, NEW acc, Lined(n, f, R, acc),
         NEW k \in 1..n, k + 1 \in 1..n,
         f[k] \in Seq(S), f[k + 1] \in Seq(S),
         g[k] = f[k] \o f[k + 1], g[k + 1] = << >>,
         \A l \in (1..n) \ {k, k + 1} : g[l] = f[l]
  PROVE  Lined(n, g, R, acc)
  <1> DEFINE a == f[k]
             b == f[k + 1]
             c == a \o b
  <1>1. InLine(a, R, acc) /\ InLine(b, R, acc) /\ Ahead(a, b, R, acc)
    BY DEF Lined
  <1>2. a \in Seq(S) /\ b \in Seq(S) /\ g[k] = c /\ g[k + 1] = << >> /\ DOMAIN << >> = {}
    OBVIOUS
  <1> HIDE DEF a, b
  <1>3. /\ Len(a) \in Nat /\ Len(b) \in Nat /\ c \in Seq(S) /\ Len(c) = Len(a) + Len(b)
        /\ \A i \in 1..(Len(a) + Len(b)) : c[i] = IF i <= Len(a) THEN a[i] ELSE b[i - Len(a)]
    BY <1>2, ConcatProperties, LenProperties
  <1>4. DOMAIN a = 1..Len(a) /\ DOMAIN b = 1..Len(b) /\ DOMAIN c = 1..(Len(a) + Len(b))
    BY <1>2, <1>3, LenProperties
  <1> HIDE DEF c
  <1>5. \A i \in DOMAIN c :
          \/ i \in DOMAIN a /\ c[i] = a[i]
          \/ i \notin DOMAIN a /\ i - Len(a) \in DOMAIN b /\ c[i] = b[i - Len(a)]
    BY <1>3, <1>4
  <1>6. Range(c) \subseteq Range(a) \cup Range(b) /\ Range(<< >>) = {}
    BY SMTT(60), <1>2, <1>5 DEF Range
  <1>7. InLine(c, R, acc)
    <2> SUFFICES ASSUME NEW i \in DOMAIN c, NEW j \in DOMAIN c, i < j, c[i] \in R, c[j] \in R
                 PROVE  Before(acc, c[i], c[j])
      BY DEF InLine
    <2>1. CASE i \in DOMAIN a /\ j \in DOMAIN a
      BY <1>1, <1>5, <2>1 DEF InLine
    <2>2. CASE i \in DOMAIN a /\ j \notin DOMAIN a
      BY <1>1, <1>5, <2>2 DEF Ahead, Range
    <2>3. CASE i \notin DOMAIN a
      <3>1. j \notin DOMAIN a /\ i - Len(a) < j - Len(a)
        BY <1>3, <1>4, <2>3
      <3>2. /\ i - Len(a) \in DOMAIN b /\ c[i] = b[i - Len(a)]
            /\ j - Len(a) \in DOMAIN b /\ c[j] = b[j - Len(a)]
        BY <1>5, <2>3, <3>1
      <3> QED
        BY <1>1, <3>1, <3>2 DEF InLine
    <2> QED
      BY <2>1, <2>2, <2>3
  <1>8. InLine(<< >>, R, acc) /\ Ahead(c, << >>, R, acc)
    BY <1>2, <1>6 DEF InLine, Ahead
  <1> QED
    BY <1>2, <1>6, <1>7, <1>8, LinedTwo DEF a, b

(* A trace that does not count, or that comes after all others, is added.  *)
LEMMA LinedAppend ==
  ASSUME NEW S, NEW n \in Nat, NEW f, NEW g, NEW R, NEW acc, Lined(n, f, R, acc),
         NEW k \in 1..n, f[k] \in Seq(S), NEW x \in S,
         \/ x \notin R
         \/ k = n /\ \A l \in 1..n : \A y \in Range(f[l]) \cap R : Before(acc, y, x),
         g[k] = Append(f[k], x),
         \A l \in (1..n) \ {k} : g[l] = f[l]
  PROVE  Lined(n, g, R, acc)
  <1> DEFINE a == f[k]
             c == Append(a, x)
  <1>1. a \in Seq(S) /\ g[k] = c /\ InLine(a, R, acc)
    BY DEF Lined
  <1> HIDE DEF a
  <1>2. /\ Len(a) \in Nat /\ c \in Seq(S) /\ Len(c) = Len(a) + 1 /\ c[Len(a) + 1] = x
        /\ \A i \in 1..Len(a) : c[i] = a[i]
    BY <1>1, AppendProperties, LenProperties
  <1>3. DOMAIN a = 1..Len(a) /\ DOMAIN c = 1..(Len(a) + 1)
    BY <1>1, <1>2, LenProperties
  <1> HIDE DEF c
  <1>4. \A i \in DOMAIN c : (i \in DOMAIN a /\ c[i] = a[i]) \/ (i = Len(a) + 1 /\ c[i] = x)
    BY <1>2, <1>3
  <1>5. Range(c) \subseteq Range(a) \cup {x}
    BY <1>4 DEF Range
  <1>6. InLine(c, R, acc)
    <2> SUFFICES ASSUME NEW i \in DOMAIN c, NEW j \in DOMAIN c, i < j, c[i] \in R, c[j] \in R
                 PROVE  Before(acc, c[i], c[j])
      BY DEF InLine
    <2>1. i \in DOMAIN a /\ c[i] = a[i] /\ a[i] \in Range(a)
      BY <1>2, <1>3, <1>4 DEF Range
    <2>2. CASE j \in DOMAIN a /\ c[j] = a[j]
      BY <1>1, <2>1, <2>2 DEF InLine
    <2>3. CASE c[j] = x
      BY <2>1, <2>3 DEF a
    <2> QED
      BY <1>4, <2>2, <2>3
  <1>7. \A l \in 1..n : InLine(g[l], R, acc)
    BY <1>1, <1>6 DEF Lined
  <1>8. ASSUME NEW i \in 1..n, NEW j \in 1..n, i < j
        PROVE  Ahead(g[i], g[j], R, acc)
    <2>1. Ahead(f[i], f[j], R, acc)
      BY <1>8 DEF Lined
    <2>2. CASE x \notin R
      <3>1. \A l \in 1..n : Range(g[l]) \cap R \subseteq Range(f[l]) \cap R
        BY <1>1, <1>5, <2>2 DEF a
      <3> QED
        BY <2>1, <3>1 DEF Ahead
    <2>3. CASE k = n /\ \A l \in 1..n : \A y \in Range(f[l]) \cap R : Before(acc, y, x)
      <3>1. g[i] = f[i] /\ Range(g[j]) \subseteq Range(f[j]) \cup {x}
        BY <1>1, <1>5, <1>8, <2>3 DEF a
      <3> QED
        BY <2>1, <2>3, <3>1 DEF Ahead
    <2> QED
      BY <2>2, <2>3
  <1> QED
    BY <1>7, <1>8 DEF Lined

(* Traces that come after all others are put at the end of the line.       *)
LEMMA LinedLast ==
  ASSUME NEW n \in Nat \ {0}, NEW f, NEW g, NEW R, NEW acc, Lined(n, f, R, acc),
         InLine(g[n], R, acc),
         \A k \in 1..(n - 1) : g[k] = f[k] /\ Ahead(f[k], g[n], R, acc)
  PROVE  Lined(n, g, R, acc)
  <1>1. \A k \in 1..n : k \in 1..(n - 1) \/ k = n
    OBVIOUS
  <1>2. \A k \in 1..n : InLine(g[k], R, acc)
    BY <1>1 DEF Lined
  <1>3. ASSUME NEW k \in 1..n, NEW l \in 1..n, k < l
        PROVE  Ahead(g[k], g[l], R, acc)
    <2>1. k \in 1..(n - 1)
      BY <1>3
    <2>2. Ahead(f[k], f[l], R, acc)
      BY <1>3 DEF Lined
    <2> QED
      BY <1>1, <2>1, <2>2
  <1> QED
    BY <1>2, <1>3 DEF Lined

(* Appending to a sequence without repetition extends its order.           *)
LEMMA BeforeAppend ==
  ASSUME NEW S, NEW s \in Seq(S), NEW t \in S
  PROVE  /\ \A x, y : Before(s, x, y) => Before(Append(s, t), x, y)
         /\ \A x \in Range(s) : Before(Append(s, t), x, t)
  <1> DEFINE n == Len(s)
             u == Append(s, t)
  <1>1. /\ n \in Nat /\ u \in Seq(S) /\ Len(u) = n + 1 /\ u[n + 1] = t
        /\ \A i \in 1..n : u[i] = s[i]
    BY AppendProperties, LenProperties
  <1>2. DOMAIN s = 1..n /\ DOMAIN u = 1..(n + 1)
    BY <1>1, LenProperties
  <1> HIDE DEF n, u
  <1>3. \A i \in DOMAIN s : i \in DOMAIN u /\ u[i] = s[i] /\ i < n + 1
    BY <1>1, <1>2
  <1>4. n + 1 \in DOMAIN u
    BY <1>1, <1>2
  <1>5. \A x, y : Before(s, x, y) => Before(u, x, y)
    BY <1>3 DEF Before
  <1>6. \A x \in Range(s) : Before(u, x, t)
    BY <1>1, <1>3, <1>4 DEF Before, Range
  <1> QED
    BY <1>5, <1>6 DEF u

(* Without repetition, no two traces come before each other.               *)
LEMMA BeforeOnce ==
  ASSUME NEW S, NEW s \in Seq(S), IsInjective(s), NEW x, NEW y, Before(s, x, y)
  PROVE  ~Before(s, y, x)
  <1> SUFFICES ASSUME Before(s, y, x) PROVE FALSE
    OBVIOUS
  <1>1. PICK i \in DOMAIN s, j \in DOMAIN s : i < j /\ s[i] = x /\ s[j] = y
    BY DEF Before
  <1>2. PICK k \in DOMAIN s, l \in DOMAIN s : k < l /\ s[k] = y /\ s[l] = x
    BY DEF Before
  <1>3. DOMAIN s \subseteq Nat
    BY LenProperties
  <1>4. i = l /\ j = k
    BY <1>1, <1>2 DEF IsInjective
  <1> QED
    BY <1>1, <1>2, <1>3, <1>4

-----------------------------------------------------------------------------
(* Traces stay in line                                                     *)

(* Every trace that is held outside waiting was accepted; a trace of the   *)
(* batch is nowhere on its way to the consumer.                            *)
LEMMA OrderFacts ==
  ASSUME TypeInv, Accounts
  PROVE  /\ accepted \in Seq(Traces) /\ queue \in Seq(Traces) /\ batch \in Seq(Traces)
         /\ channel \in Seq(Traces) /\ consumed \in Seq(Traces)
         /\ \A c \in Conns : /\ replied[c] \in Seq(Traces) /\ pending[c] \in Seq(Traces)
                             /\ InFlight(c) \in Seq(Traces)
         /\ Range(queue) \cup Range(batch) \subseteq Range(accepted)
         /\ Range(batch) \cap (Range(consumed) \cup Range(channel)) = {}
         /\ \A c \in Conns : Range(batch) \cap (Range(pending[c]) \cup Range(InFlight(c))) = {}
  <1>1. HeldFacts
    BY HeldValues
  <1>2. /\ accepted \in Seq(Traces) /\ queue \in Seq(Traces) /\ batch \in Seq(Traces)
        /\ channel \in Seq(Traces) /\ consumed \in Seq(Traces)
        /\ \A c \in Conns : replied[c] \in Seq(Traces) /\ pending[c] \in Seq(Traces)
    BY DEF TypeInv, TypeOK, ForwarderTypeOK, AcceptorTypeOK
  <1>3. \A c \in Conns : InFlight(c) \in Seq(Traces)
    BY <1>1, Places DEF HeldFacts
  <1>4. Range(queue) \cup Range(batch) \subseteq Range(accepted)
    <2>1. At("queue") \in Location \ {Waiting} /\ At("batch") \in Location \ {Waiting}
      BY Places DEF At
    <2> QED
      BY <1>1, <2>1 DEF HeldFacts, Accounts, Accounted
  <1>5. Range(batch) \cap (Range(consumed) \cup Range(channel)) = {}
    <2>1. /\ At("batch") \in Location /\ At("consumed") \in Location
          /\ At("channel") \in Location
          /\ At("batch") # At("consumed") /\ At("batch") # At("channel")
      BY Places DEF At
    <2> QED
      BY <1>1, <2>1 DEF HeldFacts, Accounts, Accounted
  <1>6. ASSUME NEW c \in Conns
        PROVE  Range(batch) \cap (Range(pending[c]) \cup Range(InFlight(c))) = {}
    <2>1. /\ At("batch") \in Location /\ <<"pending", c>> \in Location
          /\ <<"flight", c>> \in Location
          /\ At("batch") # <<"pending", c>> /\ At("batch") # <<"flight", c>>
      BY Places DEF At
    <2> QED
      BY <1>1, <2>1 DEF HeldFacts, Accounts, Accounted
  <1> QED
    BY <1>2, <1>3, <1>4, <1>5, <1>6

(* Every sequence begins with itself and with the empty one.               *)
LEMMA BeginsSame == \A s : Begins(s, s) /\ Begins(<< >>, s)
  BY DEF Begins

(* Places between the queue and the consumer lose what they held last.     *)
LEMMA OrderShrinks ==
  ASSUME OrderInv, UNCHANGED <<accepted, replied, consumed>>,
         Begins(batch', batch), Begins(queue', queue), Begins(channel', channel),
         \A c \in Conns : /\ Begins(pending'[c], pending[c])
                          /\ Begins(InFlight(c)', InFlight(c))
  PROVE  OrderInv'
  <1> SUFFICES ASSUME NEW c \in Conns
               PROVE  /\ Range(pending'[c]) \cup Range(InFlight(c)') \subseteq Range(replied[c])
                      /\ Lined(3, Leaving(c)', Traces, accepted)
                      /\ Lined(4, Arriving(c)', Range(replied[c]), accepted)
    BY DEF OrderInv
  <1>1. \A s, t : Begins(s, t) => Range(s) \subseteq Range(t)
    BY DEF Begins, Range
  <1>2. Range(pending'[c]) \cup Range(InFlight(c)') \subseteq Range(replied[c])
    BY <1>1 DEF OrderInv
  <1>3. Lined(3, Leaving(c)', Traces, accepted)
    <2> DEFINE f == Leaving(c)
               g == Leaving(c)'
    <2>1. Lined(3, f, Traces, accepted)
      BY DEF OrderInv
    <2>2. \A k \in 1..3 : Begins(g[k], f[k])
      BY BeginsSame DEF Leaving
    <2> HIDE DEF f, g
    <2> QED
      BY <2>1, <2>2, LinedPrefix DEF g
  <1>4. Lined(4, Arriving(c)', Range(replied[c]), accepted)
    <2> DEFINE f == Arriving(c)
               g == Arriving(c)'
    <2>1. Lined(4, f, Range(replied[c]), accepted)
      BY DEF OrderInv
    <2>2. \A k \in 1..4 : Begins(g[k], f[k])
      BY BeginsSame DEF Arriving
    <2> HIDE DEF f, g
    <2> QED
      BY <2>1, <2>2, LinedPrefix DEF g
  <1> QED
    BY <1>2, <1>3, <1>4

(* A trace enters the queue behind all others.                             *)
LEMMA OrderEnqueue ==
  ASSUME TypeInv, Accounts, OrderInv, NEW t \in Traces, t \notin Range(accepted),
         Enqueue(t), UNCHANGED <<replied, batch, channel, consumed, pending>>,
         \A c \in Conns : InFlight(c)' = InFlight(c)
  PROVE  OrderInv'
  <1>1. /\ accepted' = Append(accepted, t) /\ queue' = Append(queue, t)
        /\ accepted \in Seq(Traces) /\ queue \in Seq(Traces)
    BY OrderFacts DEF Enqueue
  <1>2. /\ Range(accepted') = Range(accepted) \cup {t} /\ IsInjective(accepted')
        /\ \A x, y : Before(accepted, x, y) => Before(accepted', x, y)
        /\ \A x \in Range(accepted) : Before(accepted', x, t)
    BY <1>1, RangeAppend, BeforeAppend DEF OrderInv
  <1> SUFFICES ASSUME NEW c \in Conns
               PROVE  /\ Lined(3, Leaving(c)', Traces, accepted')
                      /\ Lined(4, Arriving(c)', Range(replied[c]), accepted')
    BY <1>2 DEF OrderInv
  <1> DEFINE new == accepted'
  <1>3. Lined(3, Leaving(c)', Traces, new)
    <2> DEFINE f == Leaving(c)
               g == Leaving(c)'
    <2>1. Lined(3, f, Traces, accepted)
      BY DEF OrderInv
    <2>2. \A k \in 1..3 : Range(f[k]) \subseteq Range(accepted)
      BY OrderFacts DEF OrderInv, Leaving
    <2>3. f[3] \in Seq(Traces) /\ g[3] = Append(f[3], t) /\ \A k \in (1..3) \ {3} : g[k] = f[k]
      BY <1>1 DEF Leaving
    <2> HIDE DEF f, g, new
    <2>4. \A x, y : Before(accepted, x, y) => Before(new, x, y)
      BY <1>2 DEF new
    <2>5. Lined(3, f, Traces, new)
      BY <2>1, <2>4, LinedGrow
    <2>6. \A l \in 1..3 : \A y \in Range(f[l]) \cap Traces : Before(new, y, t)
      BY <1>2, <2>2 DEF new
    <2> QED
      BY <2>3, <2>5, <2>6, LinedAppend DEF g
  <1>4. Lined(4, Arriving(c)', Range(replied[c]), new)
    <2>1. Arriving(c)' = Arriving(c)
      BY DEF Arriving
    <2> DEFINE f == Arriving(c)
               R == Range(replied[c])
    <2>2. Lined(4, f, R, accepted)
      BY DEF OrderInv
    <2>3. \A k \in 1..4 : Range(f[k]) \cap R \subseteq R
      OBVIOUS
    <2>4. \A x, y : Before(accepted, x, y) => Before(new, x, y)
      BY <1>2
    <2> HIDE DEF f, R, new
    <2>5. Lined(4, f, R, new)
      BY <2>2, <2>3, <2>4, LinedGrow
    <2> QED
      BY <2>1, <2>5 DEF f, R
  <1> QED
    BY <1>3, <1>4

(* A trace moves from the queue to the batch.                              *)
LEMMA OrderTake ==
  ASSUME TypeInv, Accounts, OrderInv, queue # << >>,
         batch' = Append(batch, Head(queue)), queue' = Tail(queue),
         UNCHANGED <<accepted, replied, channel, consumed, pending, up>>
  PROVE  OrderInv'
  <1>1. \A c \in Conns : InFlight(c)' = InFlight(c) /\ Arriving(c)' = Arriving(c)
    BY DEF InFlight, NextUp, Arriving
  <1> SUFFICES ASSUME NEW c \in Conns PROVE Lined(3, Leaving(c)', Traces, accepted)
    BY <1>1 DEF OrderInv
  <1> DEFINE f == Leaving(c)
             g == Leaving(c)'
  <1>2. Lined(3, f, Traces, accepted)
    BY DEF OrderInv
  <1>3. /\ f[2] \in Seq(Traces) /\ f[3] \in Seq(Traces) /\ f[3] # << >>
        /\ g[2] = Append(f[2], Head(f[3])) /\ g[3] = Tail(f[3])
        /\ \A k \in (1..3) \ {2, 3} : g[k] = f[k]
    BY OrderFacts DEF Leaving
  <1> HIDE DEF f, g
  <1>4. 2 \in 1..3 /\ 2 + 1 \in 1..3 /\ 2 + 1 = 3
    OBVIOUS
  <1>5. Lined(3, g, Traces, accepted)
    BY <1>2, <1>3, <1>4, LinedMove
  <1> QED
    BY <1>5 DEF g

(* The batch is cut to the reply and joins what was replied before; on a   *)
(* live connection it is on its way behind that.                           *)
LEMMA OrderAnswer ==
  ASSUME TypeInv, Accounts, OrderInv, NEW c \in Conns, NEW n \in 0..Len(batch),
         InFlight(c) = << >>,
         InFlight(c)' = << >> \/ InFlight(c)' = SubSeq(batch, 1, n),
         replied' = [replied EXCEPT ![c] = @ \o SubSeq(batch, 1, n)], batch' = << >>,
         UNCHANGED <<accepted, queue, channel, consumed, pending>>,
         \A d \in Conns \ {c} : InFlight(d)' = InFlight(d)
  PROVE  OrderInv'
  <1> DEFINE reply == SubSeq(batch, 1, n)
             R == Range(replied[c])
             T == Range(replied'[c])
  <1>1. reply \in Seq(Traces) /\ Begins(reply, batch) /\ Range(reply) \subseteq Range(batch)
    <2>1. batch \in Seq(Traces) /\ Len(batch) \in Nat
      BY OrderFacts, LenProperties
    <2>2. /\ reply \in Seq(Traces) /\ Len(reply) = n
          /\ \A i \in 1..n : reply[i] = batch[i]
      <3>1. \A i \in 1..n : batch[i] \in Traces
        BY <2>1, ElementOfSeq
      <3> QED
        BY <2>1, <3>1, SubSeqProperties
    <2>3. DOMAIN reply = 1..n /\ DOMAIN batch = 1..Len(batch) /\ 1..n \subseteq 1..Len(batch)
      BY <2>1, <2>2, LenProperties
    <2>4. Begins(reply, batch)
      BY <2>2, <2>3 DEF Begins
    <2> QED
      BY <2>2, <2>4 DEF Begins, Range
  <1>2. replied'[c] = replied[c] \o reply /\ \A d \in Conns \ {c} : replied'[d] = replied[d]
    BY DEF TypeInv, TypeOK, ForwarderTypeOK
  <1>3. T = R \cup Range(reply)
    <2>1. replied[c] \in Seq(Traces)
      BY OrderFacts
    <2>2. reply \in Seq(Traces)
      BY <1>1
    <2> HIDE DEF reply
    <2>3. Range(replied[c] \o reply) = Range(replied[c]) \cup Range(reply)
      BY <2>1, <2>2, RangeConcatenation
    <2> QED
      BY <1>2, <2>3
  <1>4. \A d \in Conns : /\ Lined(3, Leaving(d), Traces, accepted)
                         /\ Lined(4, Arriving(d), Range(replied[d]), accepted)
    BY DEF OrderInv
  <1>5. ASSUME NEW d \in Conns
        PROVE  Ahead(replied[d], batch, Traces, accepted)
    <2> DEFINE f == Leaving(d)
    <2>1. Lined(3, f, Traces, accepted) /\ f[1] = replied[d] /\ f[2] = batch
      BY <1>4 DEF Leaving
    <2> HIDE DEF f
    <2>2. 1 \in 1..3 /\ 2 \in 1..3 /\ 1 < 2
      OBVIOUS
    <2> QED
      BY <2>1, <2>2 DEF Lined
  <1>6. InLine(batch, Traces, accepted)
    <2> DEFINE f == Leaving(c)
    <2>1. Lined(3, f, Traces, accepted) /\ f[2] = batch /\ 2 \in 1..3
      BY <1>4 DEF Leaving
    <2> HIDE DEF f
    <2> QED
      BY <2>1 DEF Lined
  <1>7. \A x \in Range(batch) : x \in Traces
    BY OrderFacts, RangeIndexed, ElementOfSeq
  <1>8. ASSUME NEW d \in Conns
        PROVE  Range(batch) \cap Range(replied[d]) = {}
    <2> SUFFICES ASSUME NEW x \in Range(batch), x \in Range(replied[d]) PROVE FALSE
      OBVIOUS
    <2>1. Before(accepted, x, x)
      BY <1>5, <1>7 DEF Ahead
    <2> QED
      BY <2>1, BeforeOnce, OrderFacts DEF OrderInv
  <1> HIDE DEF reply, R, T
  <1>9. ASSUME NEW d \in Conns
        PROVE  Lined(3, Leaving(d)', Traces, accepted)
    <2> DEFINE f == Leaving(d)
               h == <<replied[d], reply, queue>>
               g == Leaving(d)'
    <2>1. Lined(3, f, Traces, accepted) /\ f = <<replied[d], batch, queue>>
      BY <1>4 DEF Leaving
    <2>2. \A k \in 1..3 : Begins(h[k], f[k])
      BY <1>1, <2>1, BeginsSame
    <2>3. h[1] \in Seq(Traces) /\ h[2] \in Seq(Traces)
      BY <1>1, OrderFacts
    <2>4. g = <<replied'[d], << >>, queue>>
      BY DEF Leaving, reply
    <2>5. d = c => g[1] = h[1] \o h[2] /\ g[2] = << >> /\ g[3] = h[3]
      BY SMTT(60), <1>2, <2>4
    <2>6. d # c => \A k \in 1..3 : Begins(g[k], f[k])
      BY <1>2, <2>1, <2>4, BeginsSame
    <2> HIDE DEF f, g, h
    <2>7. Lined(3, h, Traces, accepted)
      BY <2>1, <2>2, LinedPrefix
    <2>8. 1 \in 1..3 /\ 1 + 1 = 2 /\ 2 \in 1..3 /\ (1..3) \ {1, 2} = {3}
      OBVIOUS
    <2>9. d = c => Lined(3, g, Traces, accepted)
      BY <2>3, <2>5, <2>7, <2>8, LinedJoin
    <2>10. d # c => Lined(3, g, Traces, accepted)
      BY <2>1, <2>6, LinedPrefix
    <2> QED
      BY <2>9, <2>10 DEF g
  <1>10. Lined(4, Arriving(c)', T, accepted)
    <2> DEFINE f == Arriving(c)
               g == Arriving(c)'
    <2>1. Lined(4, f, R, accepted) /\ f = <<consumed, channel, pending[c], InFlight(c)>>
      BY <1>4 DEF Arriving, R
    <2>2. \A k \in 1..4 : Range(f[k]) \cap Range(reply) = {}
      BY <1>1, <2>1, OrderFacts
    <2>3. g = <<consumed, channel, pending[c], InFlight(c)'>>
      BY DEF Arriving
    <2>4. /\ \A k \in 1..3 : g[k] = f[k] /\ g[4] = InFlight(c)'
          /\ f[4] = << >>
      BY <2>1, <2>3
    <2> HIDE DEF f, g
    <2>5. Lined(4, f, T, accepted)
      <3>1. \A k \in 1..4 : Range(f[k]) \cap T \subseteq R
        BY <1>3, <2>2
      <3> QED
        BY <2>1, <3>1, LinedGrow
    <2>6. CASE InFlight(c)' = << >>
      <3>1. \A k \in 1..4 : Begins(g[k], f[k])
        BY <2>4, <2>6, BeginsSame
      <3> QED
        BY <2>5, <3>1, LinedPrefix DEF g
    <2>7. CASE InFlight(c)' = reply
      <3>1. InLine(reply, T, accepted)
        BY <1>1, <1>6, <1>7 DEF InLine, Begins, Range
      <3>2. ASSUME NEW k \in 1..3
            PROVE  Ahead(f[k], reply, T, accepted)
        <4>1. \A x \in Range(f[k]) \cap T : x \in Range(replied[c])
          BY <1>3, <2>2 DEF R
        <4>2. \A y \in Range(reply) : y \in Range(batch) /\ y \in Traces
          BY <1>1, <1>7
        <4>3. \A x \in Range(replied[c]) : x \in Traces
          BY SMTT(60), OrderFacts, RangeIndexed, ElementOfSeq
        <4> QED
          BY <1>5, <4>1, <4>2, <4>3 DEF Ahead
      <3>3. 4 \in Nat \ {0} /\ 4 - 1 = 3
        OBVIOUS
      <3> QED
        BY <2>4, <2>5, <2>7, <3>1, <3>2, <3>3, LinedLast DEF g
    <2> QED
      BY <2>6, <2>7 DEF reply
  <1>11. ASSUME NEW d \in Conns \ {c}
         PROVE  Lined(4, Arriving(d)', Range(replied'[d]), accepted)
    <2>1. Arriving(d)' = Arriving(d)
      BY DEF Arriving
    <2> QED
      BY <1>2, <1>4, <2>1
  <1>12. \A d \in Conns : Range(replied'[d]) \subseteq Range(accepted)
    BY <1>1, <1>2, <1>3, OrderFacts DEF OrderInv, T, R
  <1>13. ASSUME NEW d \in Conns
         PROVE  Range(pending'[d]) \cup Range(InFlight(d)') \subseteq Range(replied'[d])
    <2>1. CASE d = c
      BY <1>3, <2>1, RangeEmpty DEF OrderInv, T, R, reply
    <2>2. CASE d # c
      BY <1>2, <2>2 DEF OrderInv
    <2> QED
      BY <2>1, <2>2
  <1>14. ASSUME NEW d \in Conns, NEW e \in Conns \ {d}
         PROVE  Range(replied'[d]) \cap Range(replied'[e]) = {}
    <2>1. Range(replied[d]) \cap Range(replied[e]) = {}
      BY DEF OrderInv
    <2>2. \A a \in Conns : /\ a # c => Range(replied'[a]) = Range(replied[a])
                           /\ a = c => Range(replied'[a]) = Range(replied[a]) \cup Range(reply)
      BY <1>2, <1>3 DEF T, R
    <2>3. \A a \in Conns : Range(replied[a]) \cap Range(reply) = {}
      BY <1>1, <1>8
    <2> QED
      BY <2>1, <2>2, <2>3
  <1>15. IsInjective(accepted)'
    BY DEF OrderInv
  <1>16. accepted' = accepted
    OBVIOUS
  <1>17. \A d \in Conns : Lined(4, Arriving(d)', Range(replied'[d]), accepted)
    BY <1>10, <1>11 DEF T
  <1> SUFFICES ASSUME NEW d \in Conns
               PROVE  /\ Lined(3, Leaving(d)', Traces, accepted)
                      /\ Lined(4, Arriving(d)', Range(replied'[d]), accepted)
    BY <1>12, <1>13, <1>14, <1>15, <1>16 DEF OrderInv
  <1> QED
    BY <1>9, <1>17

(* The handler reads the reply that was on its way.                        *)
LEMMA OrderReceive ==
  ASSUME TypeInv, Accounts, OrderInv, NEW c \in Conns, pending[c] = << >>,
         InFlight(c)' = << >>, pending' = [pending EXCEPT ![c] = InFlight(c)],
         UNCHANGED <<accepted, replied, batch, queue, channel, consumed>>,
         \A d \in Conns \ {c} : InFlight(d)' = InFlight(d)
  PROVE  OrderInv'
  <1>1. pending'[c] = InFlight(c) /\ \A d \in Conns \ {c} : pending'[d] = pending[d]
    BY DEF TypeInv, TypeOK, AcceptorTypeOK
  <1>2. \A d \in Conns : Leaving(d)' = Leaving(d)
    BY DEF Leaving
  <1>3. \A d \in Conns \ {c} : Arriving(d)' = Arriving(d)
    BY <1>1 DEF Arriving
  <1>4. Lined(4, Arriving(c)', Range(replied[c]), accepted)
    <2> DEFINE f == Arriving(c)
               g == Arriving(c)'
               R == Range(replied[c])
    <2>1. Lined(4, f, R, accepted)
      BY DEF OrderInv
    <2>2. f[3] \in Seq(Traces) /\ f[4] \in Seq(Traces) /\ f[3] = << >>
      BY OrderFacts DEF Arriving
    <2>3. f[3] \o f[4] = f[4]
      BY <2>2, ConcatEmptySeq
    <2>4. g[3] = f[3] \o f[4]
      BY <1>1, <2>3 DEF Arriving
    <2>5. g[4] = << >> /\ \A k \in (1..4) \ {3, 4} : g[k] = f[k]
      BY DEF Arriving
    <2>6. 3 \in 1..4 /\ 4 \in 1..4 /\ 3 + 1 = 4 /\ 4 \in Nat
      OBVIOUS
    <2> HIDE DEF f, g, R
    <2>7. Lined(4, g, R, accepted)
      BY <2>1, <2>2, <2>4, <2>5, <2>6, LinedJoin
    <2> QED
      BY <2>7 DEF g, R
  <1>5. \A d \in Conns : Range(pending'[d]) \cup Range(InFlight(d)') \subseteq Range(replied[d])
    BY <1>1, RangeEmpty DEF OrderInv
  <1>6. \A d \in Conns : Lined(4, Arriving(d)', Range(replied[d]), accepted)
    BY <1>3, <1>4 DEF OrderInv
  <1> SUFFICES ASSUME NEW d \in Conns
               PROVE  /\ Lined(3, Leaving(d)', Traces, accepted)
                      /\ Lined(4, Arriving(d)', Range(replied[d]), accepted)
    BY <1>5 DEF OrderInv
  <1> QED
    BY <1>2, <1>6 DEF OrderInv

(* A handler pushes a trace between those of the other handlers.           *)
LEMMA OrderPush ==
  ASSUME TypeInv, Accounts, OrderInv, NEW c \in Conns, pending[c] # << >>,
         channel' = Append(channel, Head(pending[c])),
         pending' = [pending EXCEPT ![c] = Tail(@)],
         UNCHANGED <<accepted, replied, batch, queue, consumed, up>>
  PROVE  OrderInv'
  <1> DEFINE x == Head(pending[c])
  <1>1. pending'[c] = Tail(pending[c]) /\ \A d \in Conns \ {c} : pending'[d] = pending[d]
    BY DEF TypeInv, TypeOK, AcceptorTypeOK
  <1>2. \A d \in Conns : Leaving(d)' = Leaving(d) /\ InFlight(d)' = InFlight(d)
    BY DEF Leaving, InFlight, NextUp
  <1>3. /\ x \in Traces /\ x \in Range(replied[c])
        /\ Range(Tail(pending[c])) \subseteq Range(pending[c])
    <2>1. pending[c] \in Seq(Traces)
      BY OrderFacts
    <2>2. x \in Traces /\ Range(pending[c]) = {x} \cup Range(Tail(pending[c]))
      BY <2>1, SeqFacts, RangeTail
    <2>3. Range(pending[c]) \subseteq Range(replied[c])
      BY DEF OrderInv
    <2> QED
      BY <2>2, <2>3
  <1>4. ASSUME NEW d \in Conns
        PROVE  Lined(4, Arriving(d)', Range(replied[d]), accepted)
    <2> DEFINE f == Arriving(d)
               g == Arriving(d)'
               R == Range(replied[d])
    <2>1. Lined(4, f, R, accepted)
      BY DEF OrderInv
    <2>2. f[2] \in Seq(Traces) /\ f[3] \in Seq(Traces) /\ g[2] = Append(f[2], x)
      BY OrderFacts DEF Arriving
    <2>3. g[1] = f[1] /\ g[4] = f[4] /\ g[3] = pending'[d] /\ f[3] = pending[d]
      BY <1>2 DEF Arriving
    <2>4. d # c => x \notin R
      BY <1>3 DEF OrderInv
    <2> HIDE DEF f, g, R
    <2>5. CASE d = c
      <3>1. f[3] # << >> /\ x = Head(f[3]) /\ g[3] = Tail(f[3])
        BY <1>1, <2>3, <2>5
      <3>2. 2 \in 1..4 /\ 3 \in 1..4 /\ 2 + 1 = 3 /\ 4 \in Nat /\ (1..4) \ {2, 3} = {1, 4}
        OBVIOUS
      <3> HIDE DEF x
      <3> QED
        BY <2>1, <2>2, <2>3, <3>1, <3>2, LinedMove DEF g, R
    <2>6. CASE d # c
      <3>1. \A k \in (1..4) \ {2} : g[k] = f[k]
        BY <1>1, <2>3, <2>6
      <3>2. 2 \in 1..4 /\ 4 \in Nat /\ x \in Traces /\ x \notin R
        BY <1>3, <2>4, <2>6
      <3> HIDE DEF x
      <3>3. Lined(4, g, R, accepted)
        BY <2>1, <2>2, <3>1, <3>2, LinedAppend
      <3> QED
        BY <3>3 DEF g, R
    <2> QED
      BY <2>5, <2>6
  <1>5. \A d \in Conns : Range(pending'[d]) \cup Range(InFlight(d)') \subseteq Range(replied[d])
    BY <1>1, <1>2, <1>3 DEF OrderInv
  <1> SUFFICES ASSUME NEW d \in Conns
               PROVE  /\ Lined(3, Leaving(d)', Traces, accepted)
                      /\ Lined(4, Arriving(d)', Range(replied[d]), accepted)
    BY <1>5 DEF OrderInv
  <1> QED
    BY <1>2, <1>4 DEF OrderInv

(* The consumer reads a trace.                                             *)
LEMMA OrderConsume ==
  ASSUME TypeInv, Accounts, OrderInv, channel # << >>,
         consumed' = Append(consumed, Head(channel)), channel' = Tail(channel),
         UNCHANGED <<accepted, replied, batch, queue, pending, up>>
  PROVE  OrderInv'
  <1>1. \A d \in Conns : Leaving(d)' = Leaving(d) /\ InFlight(d)' = InFlight(d)
    BY DEF Leaving, InFlight, NextUp
  <1>2. ASSUME NEW d \in Conns
        PROVE  Lined(4, Arriving(d)', Range(replied[d]), accepted)
    <2> DEFINE f == Arriving(d)
               g == Arriving(d)'
               R == Range(replied[d])
    <2>1. Lined(4, f, R, accepted)
      BY DEF OrderInv
    <2>2. /\ f[1] \in Seq(Traces) /\ f[2] \in Seq(Traces) /\ f[2] # << >>
          /\ g[1] = Append(f[1], Head(f[2])) /\ g[2] = Tail(f[2])
      BY OrderFacts DEF Arriving
    <2>3. g[3] = f[3] /\ g[4] = f[4]
      BY <1>1 DEF Arriving
    <2>4. 1 \in 1..4 /\ 2 \in 1..4 /\ 1 + 1 = 2 /\ 4 \in Nat /\ (1..4) \ {1, 2} = {3, 4}
      OBVIOUS
    <2> HIDE DEF f, g, R
    <2> QED
      BY <2>1, <2>2, <2>3, <2>4, LinedMove DEF g, R
  <1> QED
    BY <1>1, <1>2 DEF OrderInv

(* Logging adds to the end of the queue, or changes nothing in line.       *)
LEMMA OrderProducers ==
  ASSUME TypeInv, Accounts, OrderInv, Producers, UNCHANGED acceptorVars
  PROVE  OrderInv'
  <1>1. /\ UNCHANGED <<replied, batch, channel, consumed, pending>>
        /\ \A c \in Conns : InFlight(c)' = InFlight(c)
    BY DEF Producers, Send, TrySend, FinishSend, acceptorVars, linkVars, InFlight,
         NextUp
  <1>2. CASE UNCHANGED <<queue, accepted>>
    BY <1>1, <1>2, BeginsSame, OrderShrinks
  <1>3. ASSUME NEW t \in Traces, t \in fresh, Enqueue(t)
        PROVE  OrderInv'
    BY <1>1, <1>3, OrderEnqueue DEF Accounts, Accounted
  <1>4. ASSUME NEW i \in 1..Len(waiting), Enqueue(waiting[i])
        PROVE  OrderInv'
    <2>1. waiting[i] \in Traces /\ waiting[i] \in Range(waiting)
      BY RangeIndexed, ElementOfSeq DEF TypeInv, TypeOK, ForwarderTypeOK
    <2>2. waiting[i] \notin Range(accepted)
      BY <2>1, HeldValues, Places DEF HeldFacts, Accounts, Accounted
    <2> QED
      BY <1>1, <1>4, <2>1, <2>2, OrderEnqueue
  <1>5. ASSUME NEW t \in Traces, Send(t) \/ TrySend(t)
        PROVE  OrderInv'
    BY <1>2, <1>3, <1>5 DEF Send, TrySend
  <1>6. ASSUME NEW i \in 1..Len(waiting), FinishSend(i)
        PROVE  OrderInv'
    BY <1>4, <1>6 DEF FinishSend
  <1> QED
    BY <1>5, <1>6 DEF Producers

(* The forwarder task takes traces in order, answers in order, or drops.   *)
LEMMA OrderForwarder ==
  ASSUME TypeInv, ProtocolInv, BatchInv, Accounts, OrderInv, ForwarderTask,
         UNCHANGED acceptorVars
  PROVE  OrderInv'
  <1>0. UNCHANGED <<pending, channel, consumed>>
    BY DEF acceptorVars
  <1>1. ASSUME NEW c \in Conns, Connect(c)
        PROVE  OrderInv'
    <2>1. /\ UNCHANGED <<queue, accepted, replied, batch>>
          /\ up' = [up EXCEPT ![c] = <<Propose>>]
      BY <1>1 DEF Connect, Open
    <2>2. InFlight(c)' = << >>
      <3>1. up'[c] = <<Propose>>
        BY <2>1, LinkTypes
      <3>2. Head(<<Propose>>) = Propose /\ Propose.type # "Reply"
        BY DEF Propose
      <3> QED
        BY <3>1, <3>2 DEF InFlight, NextUp
    <2>3. \A d \in Conns \ {c} : InFlight(d)' = InFlight(d)
      BY <2>1, LinkTypes DEF InFlight, NextUp
    <2>4. \A d \in Conns : Begins(InFlight(d)', InFlight(d))
      BY <2>2, <2>3, BeginsSame
    <2> QED
      BY <1>0, <2>1, <2>4, BeginsSame, OrderShrinks
  <1>2. ASSUME \/ ConnectFails \/ WakeUp \/ HandshakeAnswered \/ StopDraining
               \/ AcceptorIsDone \/ ConnectionLost
        PROVE  OrderInv'
    <2>1. UNCHANGED <<accepted, replied, up>>
      BY <1>2 DEF ConnectFails, WakeUp, HandshakeAnswered, StopDraining, AcceptorIsDone,
         ConnectionLost, linkVars
    <2>2. (batch' = batch \/ batch' = << >>) /\ (queue' = queue \/ queue' = << >>)
      BY <1>2 DEF ConnectFails, WakeUp, HandshakeAnswered, StopDraining, AcceptorIsDone,
         ConnectionLost, GiveUp
    <2>3. \A c \in Conns : InFlight(c)' = InFlight(c)
      BY <2>1 DEF InFlight, NextUp
    <2> QED
      BY <1>0, <2>1, <2>2, <2>3, BeginsSame, OrderShrinks
  <1>3. ASSUME TakeFirst
        PROVE  OrderInv'
    <2>1. batch = << >>
      BY <1>3 DEF TakeFirst, BatchInv
    <2>2. <<Head(queue)>> = Append(<< >>, Head(queue))
      OBVIOUS
    <2> QED
      BY <1>0, <1>3, <2>1, <2>2, OrderTake DEF TakeFirst, linkVars
  <1>4. ASSUME TakeAnother
        PROVE  OrderInv'
    BY <1>0, <1>4, OrderTake DEF TakeAnother, linkVars
  <1>5. ASSUME AnswerRequest
        PROVE  OrderInv'
    <2> DEFINE n == Taken(Head(down[conn]).count)
    <2>1. /\ replied' = [replied EXCEPT ![conn] = @ \o SubSeq(batch, 1, n)]
          /\ batch' = << >> /\ UNCHANGED <<accepted, queue>>
      BY <1>5 DEF AnswerRequest
    <2>2. PICK c \in Conns : c = conn
      BY <1>5, AnswerFacts
    <2>3. /\ n \in 0..Len(batch) /\ InFlight(c) = << >>
          /\ \A d \in Conns \ {c} : InFlight(d)' = InFlight(d)
      BY <1>5, <2>2, AnswerFacts
    <2>4. InFlight(c)' = InFlight(conn)'
      BY <1>5, <2>2 DEF AnswerRequest
    <2>5. InFlight(c)' = << >> \/ InFlight(c)' = SubSeq(batch, 1, n)
      BY <1>5, <2>4, AnswerFacts DEF TheReply
    <2> HIDE DEF n
    <2> QED
      BY <1>0, <2>1, <2>2, <2>3, <2>5, OrderAnswer
  <1> QED
    BY <1>1, <1>2, <1>3, <1>4, <1>5 DEF ForwarderTask

(* A handler reads and pushes in order, or drops.                          *)
LEMMA OrderHandler ==
  ASSUME TypeInv, ProtocolInv, Accounts, OrderInv, NEW c \in Conns,
         Handler(c) \/ ForeignAcceptor(c), UNCHANGED forwarderVars
  PROVE  OrderInv'
  <1>0. /\ UNCHANGED <<accepted, queue, batch, replied>> /\ UpInv(c)
        /\ up \in [Conns -> Seq(ForwarderMessage)]
        /\ pending \in [Conns -> Seq(Traces)]
    BY LinkTypes DEF forwarderVars, ProtocolInv, TypeInv, TypeOK, AcceptorTypeOK
  <1>1. ASSUME NextUp(c, "Propose") \/ NextUp(c, "Reply"),
               up' = [up EXCEPT ![c] = Tail(@)]
        PROVE  InFlight(c)' = << >> /\ \A d \in Conns \ {c} : InFlight(d)' = InFlight(d)
    BY <1>0, <1>1, OneMessage DEF InFlight, NextUp
  <1>2. ASSUME AcceptHandshake(c) \/ RefuseHandshake(c)
        PROVE  OrderInv'
    <2>1. /\ NextUp(c, "Propose") /\ up' = [up EXCEPT ![c] = Tail(@)]
          /\ UNCHANGED <<pending, channel, consumed>>
      BY <1>2 DEF AcceptHandshake, RefuseHandshake
    <2>2. \A d \in Conns : Begins(InFlight(d)', InFlight(d))
      BY <1>1, <2>1, BeginsSame
    <2> QED
      BY <1>0, <2>1, <2>2, BeginsSame, OrderShrinks
  <1>3. ASSUME RequestTraces(c) \/ SendDone(c) \/ HandlerEnds(c) \/ PushFails(c)
        PROVE  OrderInv'
    <2>1. UNCHANGED <<up, channel, consumed>>
      BY <1>3 DEF RequestTraces, SendDone, HandlerEnds, PushFails, linkVars
    <2>2. \A d \in Conns : InFlight(d)' = InFlight(d)
      BY <2>1 DEF InFlight, NextUp
    <2>3. \A d \in Conns : pending'[d] = pending[d] \/ pending'[d] = << >>
      BY <1>0, <1>3 DEF RequestTraces, SendDone, HandlerEnds, PushFails
    <2> QED
      BY <1>0, <2>1, <2>2, <2>3, BeginsSame, OrderShrinks
  <1>4. ASSUME ReceiveReply(c)
        PROVE  OrderInv'
    <2>1. /\ NextUp(c, "Reply") /\ apc[c] = "awaiting"
          /\ up' = [up EXCEPT ![c] = Tail(@)]
          /\ pending' = [pending EXCEPT ![c] = Head(up[c]).traces]
          /\ UNCHANGED <<channel, consumed>>
      BY <1>4 DEF ReceiveReply
    <2>2. InFlight(c) = Head(up[c]).traces /\ pending[c] = << >>
      BY <2>1 DEF InFlight, TypeInv, PendingOK
    <2>3. InFlight(c)' = << >> /\ \A d \in Conns \ {c} : InFlight(d)' = InFlight(d)
      BY <1>1, <2>1
    <2>4. pending' = [pending EXCEPT ![c] = InFlight(c)]
      BY <2>1, <2>2
    <2> QED
      BY <1>0, <2>1, <2>2, <2>3, <2>4, OrderReceive
  <1>5. ASSUME PushTrace(c)
        PROVE  OrderInv'
    <2>1. /\ pending[c] # << >>
          /\ channel' = Append(channel, Head(pending[c]))
          /\ pending' = [pending EXCEPT ![c] = Tail(@)]
          /\ UNCHANGED <<consumed, up>>
      BY <1>5 DEF PushTrace, TypeInv, PendingOK, linkVars
    <2> QED
      BY <1>0, <2>1, OrderPush
  <1> QED
    BY <1>2, <1>3, <1>4, <1>5 DEF Handler, ForeignAcceptor

(* The consumer reads in order, or drops the channel.                      *)
LEMMA OrderConsumer ==
  ASSUME TypeInv, Accounts, OrderInv, Consume \/ DropHandle, UNCHANGED forwarderVars
  PROVE  OrderInv'
  <1>1. UNCHANGED <<accepted, queue, batch, replied, pending, up>>
    BY DEF forwarderVars, Consume, DropHandle, linkVars
  <1>2. CASE Consume
    BY <1>1, <1>2, OrderConsume DEF Consume
  <1>3. CASE DropHandle
    <2>1. channel' = << >> /\ consumed' = consumed
      BY <1>3 DEF DropHandle
    <2>2. \A c \in Conns : InFlight(c)' = InFlight(c)
      BY <1>1 DEF InFlight, NextUp
    <2> QED
      BY <1>1, <2>1, <2>2, BeginsSame, OrderShrinks
  <1> QED
    BY <1>2, <1>3

(* A break leaves the reply on its way, or takes it.                       *)
LEMMA BreakFacts ==
  ASSUME TypeInv, ProtocolInv, NEW c \in Conns, Break(c)
  PROVE  /\ up'[c] = up[c] \/ up'[c] = << >>
         /\ \A d \in Conns \ {c} : up'[d] = up[d]
  <1>1. up \in [Conns -> Seq(ForwarderMessage)] /\ Len(up[c]) <= 1
    BY LinkTypes DEF ProtocolInv, UpInv
  <1>2. PICK i \in 0..Len(up[c]) : up' = [up EXCEPT ![c] = SubSeq(@, 1, i)]
    BY DEF Break
  <1> QED
    BY <1>1, <1>2, CutReply

(* A break may take a reply out of line; nothing else moves.               *)
LEMMA OrderBreak ==
  ASSUME TypeInv, ProtocolInv, OrderInv, NEW c \in Conns, Break(c),
         UNCHANGED <<forwarderVars, acceptorVars>>
  PROVE  OrderInv'
  <1>1. UNCHANGED <<accepted, queue, batch, replied, pending, channel, consumed>>
    BY DEF forwarderVars, acceptorVars
  <1>2. \A d \in Conns : InFlight(d)' = InFlight(d) \/ InFlight(d)' = << >>
    BY BreakFacts DEF InFlight, NextUp
  <1> QED
    BY <1>1, <1>2, BeginsSame, OrderShrinks

(* Nothing is in line at first.                                            *)
LEMMA OrderInit == Init => OrderInv
  <1> SUFFICES ASSUME Init, NEW c \in Conns
               PROVE  /\ IsInjective(accepted)
                      /\ Range(replied[c]) = {}
                      /\ Range(pending[c]) = {} /\ Range(InFlight(c)) = {}
                      /\ Lined(3, Leaving(c), Traces, accepted)
                      /\ Lined(4, Arriving(c), Range(replied[c]), accepted)
    BY RangeEmpty DEF OrderInv, Init, ForwarderInit
  <1>1. /\ accepted = << >> /\ replied[c] = << >> /\ batch = << >> /\ queue = << >>
        /\ consumed = << >> /\ channel = << >> /\ pending[c] = << >> /\ InFlight(c) = << >>
    BY DEF Init, LinkInit, ForwarderInit, AcceptorInit, InFlight, NextUp
  <1>2. ASSUME NEW n \in Nat, NEW f, NEW R, \A k \in 1..n : f[k] = << >>
        PROVE  Lined(n, f, R, accepted)
    <2>1. \A k \in 1..n : DOMAIN f[k] = {} /\ Range(f[k]) = {}
      BY <1>2, RangeEmpty
    <2> QED
      BY <2>1 DEF Lined, InLine, Ahead
  <1>3. \A k \in 1..3 : Leaving(c)[k] = << >>
    BY <1>1 DEF Leaving
  <1>4. \A k \in 1..4 : Arriving(c)[k] = << >>
    BY <1>1 DEF Arriving
  <1> QED
    BY <1>1, <1>2, <1>3, <1>4, RangeEmpty

(* Every step of the system keeps the traces in line.                      *)
LEMMA OrderStep ==
  ASSUME IInv, OrderInv, [Next]_vars
  PROVE  OrderInv'
  <1> USE DEF IInv
  <1>1. CASE ForwarderStep
    BY <1>1, OrderForwarder, OrderProducers DEF ForwarderStep
  <1>2. CASE AcceptorStep
    BY <1>2, OrderHandler, OrderConsumer DEF AcceptorStep
  <1>3. CASE LinkStep
    BY <1>3, OrderBreak DEF LinkStep
  <1>4. CASE UNCHANGED vars
    <2>1. /\ UNCHANGED <<accepted, replied, consumed, batch, queue, channel, pending>>
          /\ \A c \in Conns : InFlight(c)' = InFlight(c)
      BY <1>4 DEF vars, linkVars, forwarderVars, acceptorVars, InFlight, NextUp
    <2> QED
      BY <2>1, BeginsSame, OrderShrinks
  <1> QED
    BY <1>1, <1>2, <1>3, <1>4 DEF Next

(* What left over one connection was accepted in that order, and the       *)
(* consumer sees it in that order: no handler overtakes itself, whatever   *)
(* those of other connections push in between (acceptor.rs).               *)
THEOREM DeliveredInOrderCorrect == Spec => []DeliveredInOrder
  <1>1. Init => OrderInv
    BY OrderInit
  <1>2. IInv /\ OrderInv /\ [Next]_vars => OrderInv'
    BY OrderStep
  <1>3. IInv /\ OrderInv => DeliveredInOrder
    <2> SUFFICES ASSUME IInv, OrderInv, NEW c \in Conns, NEW i \in DOMAIN replied[c],
                        NEW j \in DOMAIN replied[c], i < j
                 PROVE  /\ Before(accepted, replied[c][i], replied[c][j])
                        /\ ~Before(consumed, replied[c][j], replied[c][i])
      BY DEF DeliveredInOrder
    <2> DEFINE x == replied[c][i]
               y == replied[c][j]
    <2>1. /\ x \in Traces /\ y \in Traces
          /\ x \in Range(replied[c]) /\ y \in Range(replied[c])
      <3>1. replied[c] \in Seq(Traces)
        BY OrderFacts DEF IInv
      <3> QED
        BY <3>1, RangeIndexed, ElementOfSeq
    <2>2. InLine(replied[c], Traces, accepted)
      <3> DEFINE f == Leaving(c)
      <3>1. Lined(3, f, Traces, accepted) /\ f[1] = replied[c] /\ 1 \in 1..3
        BY DEF OrderInv, Leaving
      <3> HIDE DEF f
      <3> QED
        BY <3>1 DEF Lined
    <2>3. InLine(consumed, Range(replied[c]), accepted)
      <3> DEFINE f == Arriving(c)
                 R == Range(replied[c])
      <3>1. Lined(4, f, R, accepted) /\ f[1] = consumed /\ 1 \in 1..4
        BY DEF OrderInv, Arriving
      <3> HIDE DEF f, R
      <3> QED
        BY <3>1 DEF Lined, R
    <2>4. Before(accepted, x, y)
      BY <2>1, <2>2 DEF InLine
    <2>5. Before(consumed, y, x) => Before(accepted, y, x)
      BY <2>1, <2>3 DEF InLine, Before
    <2>6. accepted \in Seq(Traces) /\ IsInjective(accepted)
      BY OrderFacts DEF IInv, OrderInv
    <2> QED
      BY <2>4, <2>5, <2>6, BeforeOnce
  <1> QED
    BY <1>1, <1>2, <1>3, IInvCorrect, PTL DEF Spec

-----------------------------------------------------------------------------
(* No reply is empty                                                       *)

(* The first n > 0 traces of a batch that is not empty.                    *)
LEMMA CutNotEmpty ==
  ASSUME NEW S, NEW s \in Seq(S), s # << >>, NEW n \in 0..Len(s), n # 0
  PROVE  SubSeq(s, 1, n) # << >>
  <1>1. Len(s) \in Nat /\ \A i \in 1..n : s[i] \in S
    BY LenProperties, ElementOfSeq
  <1>2. Len(SubSeq(s, 1, n)) = n
    BY <1>1, SubSeqProperties
  <1>3. Len(<< >>) = 0
    BY EmptySeq
  <1> QED
    BY <1>2, <1>3

(* The forwarder waits for a first trace, and a request for none is not    *)
(* made: so every reply holds one.                                         *)
LEMMA FullForwarder ==
  ASSUME 0 \notin RequestCounts, TypeInv, ProtocolInv, FullInv, ForwarderTask
  PROVE  FullInv'
  <1>0. up \in [Conns -> Seq(ForwarderMessage)] /\ batch \in Seq(Traces)
        /\ queue \in Seq(Traces)
    BY LinkTypes DEF TypeInv, TypeOK, ForwarderTypeOK
  <1>1. ASSUME NEW c \in Conns, Connect(c)
        PROVE  FullInv'
    <2>1. fpc' = "handshake" /\ up' = [up EXCEPT ![c] = <<Propose>>]
      BY <1>1 DEF Connect, Open
    <2>2. up'[c] = <<Propose>> /\ Head(<<Propose>>) = Propose /\ Propose.type # "Reply"
      BY <1>0, <2>1 DEF Propose
    <2>3. \A d \in Conns \ {c} : up'[d] = up[d]
      BY <1>0, <2>1
    <2> QED
      BY <2>1, <2>2, <2>3 DEF FullInv, NextUp
  <1>2. ASSUME \/ ConnectFails \/ WakeUp \/ HandshakeAnswered \/ StopDraining
               \/ AcceptorIsDone \/ ConnectionLost
        PROVE  FullInv'
    <2>1. /\ up' = up
          /\ fpc' \in {"draining", "request"} =>
               fpc \in {"draining", "request"} /\ batch' = batch
      BY <1>2 DEF ConnectFails, WakeUp, HandshakeAnswered, StopDraining, AcceptorIsDone,
         ConnectionLost, GiveUp, linkVars
    <2> QED
      BY <2>1 DEF FullInv, NextUp
  <1>3. ASSUME TakeFirst \/ TakeAnother
        PROVE  FullInv'
    <2>1. up' = up /\ queue # << >>
          /\ (batch' = <<Head(queue)>> \/ batch' = Append(batch, Head(queue)))
      BY <1>3 DEF TakeFirst, TakeAnother, linkVars
    <2>2. Head(queue) \in Traces
      BY <1>0, <2>1, SeqFacts
    <2>3. <<Head(queue)>> # << >>
      OBVIOUS
    <2>4. Append(batch, Head(queue)) # << >>
      BY <1>0, <2>2, AppendProperties
    <2> QED
      BY <2>1, <2>3, <2>4 DEF FullInv, NextUp
  <1>4. ASSUME AnswerRequest
        PROVE  FullInv'
    <2> DEFINE n == Taken(Head(down[conn]).count)
    <2>1. fpc = "request" /\ fpc' \in {"waiting", "sleeping"}
      BY <1>4 DEF AnswerRequest
    <2>2. /\ Head(down[conn]).count \in Nat \ {0} /\ n \in 0..Len(batch)
          /\ conn \in Conns /\ up[conn] = << >>
      BY <1>4, AnswerFacts, RequestCountsAssumption
    <2>3. batch # << >> /\ Len(batch) \in Nat \ {0}
      BY <1>0, <2>1, SeqFacts DEF FullInv
    <2>4. n # 0
      BY <2>2, <2>3 DEF Taken
    <2> DEFINE reply == SubSeq(batch, 1, n)
    <2>5. reply # << >>
      <3> HIDE DEF n
      <3> QED
        BY <1>0, <2>2, <2>3, <2>4, CutNotEmpty
    <2>6. up' = [up EXCEPT ![conn] = Queued(@, conn, TraceObjectsReply(reply))]
      BY <1>4 DEF AnswerRequest
    <2> HIDE DEF n, reply
    <2>7. up'[conn] = << >> \/ up'[conn] = <<TraceObjectsReply(reply)>>
      BY <1>0, <2>2, <2>6 DEF Queued
    <2>8. /\ Head(<<TraceObjectsReply(reply)>>) = TraceObjectsReply(reply)
          /\ TraceObjectsReply(reply).traces = reply
      BY DEF TraceObjectsReply
    <2>9. \A d \in Conns \ {conn} : up'[d] = up[d]
      BY <1>0, <2>6
    <2> QED
      BY <2>1, <2>5, <2>7, <2>8, <2>9 DEF FullInv, NextUp
  <1> QED
    BY <1>1, <1>2, <1>3, <1>4 DEF ForwarderTask

(* Every step keeps replies and waiting batches non-empty.                 *)
LEMMA FullStep ==
  ASSUME 0 \notin RequestCounts, IInv, FullInv, [Next]_vars
  PROVE  FullInv'
  <1>0. TypeInv /\ ProtocolInv
    BY DEF IInv
  <1>1. ASSUME \A c \in Conns : up'[c] = up[c] \/ up'[c] = << >>, UNCHANGED <<fpc, batch>>
        PROVE  FullInv'
    BY <1>1 DEF FullInv, NextUp
  <1>2. CASE ForwarderStep
    <2>1. Producers => UNCHANGED <<up, fpc, batch>>
      BY DEF Producers, Send, TrySend, FinishSend, linkVars
    <2> QED
      BY <1>0, <1>1, <1>2, <2>1, FullForwarder DEF ForwarderStep
  <1>3. CASE AcceptorStep
    <2>1. UNCHANGED <<fpc, batch>>
      BY <1>3 DEF AcceptorStep, forwarderVars
    <2>2. Consume \/ DropHandle => up' = up
      BY DEF Consume, DropHandle, linkVars
    <2>3. ASSUME NEW c \in Conns, Handler(c) \/ ForeignAcceptor(c)
          PROVE  \A d \in Conns : up'[d] = up[d] \/ up'[d] = << >>
      <3>1. up' = up \/ (up[c] # << >> /\ up' = [up EXCEPT ![c] = Tail(@)])
        BY <2>3 DEF Handler, ForeignAcceptor, AcceptHandshake, RefuseHandshake,
           RequestTraces, SendDone, ReceiveReply, PushTrace, PushFails, HandlerEnds,
           linkVars, NextUp
      <3>2. up[c] # << >> => Tail(up[c]) = << >>
        BY <1>0, OneMessage DEF ProtocolInv
      <3> QED
        BY <1>0, <3>1, <3>2, LinkTypes
    <2> QED
      BY <1>1, <1>3, <2>1, <2>2, <2>3 DEF AcceptorStep
  <1>4. CASE LinkStep
    BY <1>0, <1>1, <1>4, BreakFacts DEF LinkStep, forwarderVars
  <1>5. CASE UNCHANGED vars
    BY <1>1, <1>5 DEF vars, linkVars, forwarderVars
  <1> QED
    BY <1>2, <1>3, <1>4, <1>5 DEF Next

(* As long as no acceptor asks for zero traces, no reply to a blocking     *)
(* request is empty (messages.rs:26): the forwarder waits for a first      *)
(* trace before it reads the request, and no failure empties the batch     *)
(* without ending the session.                                             *)
THEOREM NonEmptyRepliesCorrect ==
  ASSUME 0 \notin RequestCounts
  PROVE  Spec => []NonEmptyReplies
  <1>1. Init => FullInv
    BY DEF Init, ForwarderInit, LinkInit, FullInv, NextUp
  <1>2. IInv /\ FullInv /\ [Next]_vars => FullInv'
    BY FullStep
  <1>3. IInv /\ FullInv => NonEmptyReplies
    <2> SUFFICES ASSUME IInv, FullInv, NEW c \in Conns, NEW i \in Replies(c)
                 PROVE  InFlight(c) # << >>
      BY DEF NonEmptyReplies
    <2>1. up[c] \in Seq(ForwarderMessage) /\ Len(up[c]) \in Nat /\ Len(up[c]) <= 1
      BY LinkTypes, LenProperties DEF IInv, ProtocolInv, UpInv
    <2>2. i \in 1..Len(up[c]) /\ up[c][i].type = "Reply"
      BY <2>1, LenProperties DEF Replies
    <2>3. i = 1 /\ up[c] # << >>
      BY <2>1, <2>2, EmptySeq
    <2>4. NextUp(c, "Reply")
      BY <2>1, <2>2, <2>3, SeqFacts DEF NextUp
    <2> QED
      BY <2>4 DEF FullInv, InFlight
  <1> QED
    BY <1>1, <1>2, <1>3, IInvCorrect, PTL DEF Spec
=============================================================================
