-------------------------- MODULE GCProtocolProofs --------------------------
(***************************************************************************)
(* Proofs about GCProtocol, for any workers, clients and bounds.           *)
(***************************************************************************)
EXTENDS GCInvariant, TLAPS, FiniteSetTheorems, FunctionTheorems, SequenceTheorems

NW == Cardinality(Worker)

USE DEF LastClient, DeadAnswers, LastWorker, EndRound, Honours, StatsComplete, DropOne

LEMMA WorkerCount == NW \in Nat /\ NW > 0
  BY WorkersAssumption, FS_CardinalityType, FS_EmptySet DEF NW

-----------------------------------------------------------------------------
(***************************************************************************)
(* Connections.                                                            *)
(***************************************************************************)
LEMMA MessageTypes ==
  /\ Msg("REGISTER") \in Message /\ Msg("ACK_AGENT") \in Message
  /\ Msg("GC_START") \in Message /\ Msg("GC_FINISH") \in Message
  /\ Msg("DO_FLUSH") \in Message /\ Msg("STAT") \in Message
  /\ Msg("EOF") \in Message
  /\ \A g \in Nat : Request(g) \in Message
  BY DEF Msg, Request, Message

LEMMA Fields ==
  /\ \A t : Msg(t).type = t
  /\ \A g : Request(g).type = "GC_REQUEST" /\ Request(g).gen = g
  BY DEF Msg, Request

\* Only a request carries data: any other message is known by its type
LEMMA PlainMessages ==
  \A m \in Message : m.type # "GC_REQUEST" => m = Msg(m.type)
  BY DEF Msg, Message

\* What the three operations on connections return, channel by channel
LEMMA Sending ==
  ASSUME NetTypeOK, NEW m \in Message
  PROVE  /\ \A X : SendAll(toWorker, X, m) \in [Worker -> Seq(Message)]
         /\ \A X : SendAll(toClient, X, m) \in [Client -> Seq(Message)]
         /\ \A w \in Worker : Send(fromWorker, w, m) \in [Worker -> Seq(Message)]
         /\ \A c \in Client : Send(fromClient, c, m) \in [Client -> Seq(Message)]
  BY DEF NetTypeOK, SendAll, Send

LEMMA FromWorker ==
  ASSUME NetTypeOK, NEW w \in Worker, NEW t, Arrived(fromWorker, w, t)
  PROVE  /\ Receive(fromWorker, w) \in [Worker -> Seq(Message)]
         /\ Head(fromWorker[w]) \in Message
  BY DEF NetTypeOK, Receive, Arrived

LEMMA ToWorker ==
  ASSUME NetTypeOK, NEW w \in Worker, NEW t, Arrived(toWorker, w, t)
  PROVE  Receive(toWorker, w) \in [Worker -> Seq(Message)]
  BY DEF NetTypeOK, Receive, Arrived

LEMMA FromClient ==
  ASSUME NetTypeOK, NEW c \in Client, NEW t, Arrived(fromClient, c, t)
  PROVE  Receive(fromClient, c) \in [Client -> Seq(Message)]
  BY DEF NetTypeOK, Receive, Arrived

LEMMA ToClient ==
  ASSUME NetTypeOK, NEW c \in Client, NEW t, Arrived(toClient, c, t)
  PROVE  Receive(toClient, c) \in [Client -> Seq(Message)]
  BY DEF NetTypeOK, Receive, Arrived

-----------------------------------------------------------------------------
(***************************************************************************)
(* Type correctness.  A step changes the type of a part of the state only  *)
(* if it changes the part.                                                 *)
(***************************************************************************)
LEMMA TypeFrame ==
  /\ ControllerTypeOK /\ UNCHANGED ctlVars => ControllerTypeOK'
  /\ StatTypeOK /\ UNCHANGED statVars => StatTypeOK'
  /\ WorkerTypeOK /\ UNCHANGED workerVars => WorkerTypeOK'
  /\ ClientTypeOK /\ UNCHANGED clientVars => ClientTypeOK'
  /\ NetTypeOK /\ UNCHANGED netVars => NetTypeOK'
  BY DEF ControllerTypeOK, StatTypeOK, WorkerTypeOK, ClientTypeOK, NetTypeOK,
         ctlVars, statVars, workerVars, clientVars, netVars

LEMMA StartCollectionType ==
  ASSUME ControllerTypeOK, NetTypeOK, StartCollection
  PROVE  ControllerTypeOK' /\ toWorker' \in [Worker -> Seq(Message)]
  BY MessageTypes, Sending, WorkerCount DEF ControllerTypeOK, StartCollection, NW

LEMMA FlushSystemType ==
  ASSUME ControllerTypeOK, NetTypeOK, FlushSystem
  PROVE  /\ ControllerTypeOK'
         /\ toWorker' \in [Worker -> Seq(Message)]
         /\ toClient' \in [Client -> Seq(Message)]
  BY MessageTypes, Sending DEF ControllerTypeOK, FlushSystem

\* Every variable holds what its counterpart in the C code can
THEOREM TypeCorrect == Spec => []TypeOK
<1>1. Init => TypeOK
  BY ClientsAssumption, WorkerCount
  DEF NW, Init, TypeOK, ControllerTypeOK, StatTypeOK, WorkerTypeOK, ClientTypeOK, NetTypeOK
<1>2. TypeOK /\ [Next]_vars => TypeOK'
  <2> SUFFICES ASSUME TypeOK, [Next]_vars PROVE TypeOK'
    OBVIOUS
  <2> USE TypeFrame, MessageTypes DEF TypeOK
  <2>1. CASE ConsoleCollect
    <3>1. NetTypeOK'
      BY <2>1, StartCollectionType
      DEF ConsoleCollect, NetTypeOK
    <3>2. ControllerTypeOK'
      BY <2>1, StartCollectionType
      DEF ConsoleCollect
    <3> QED
      BY <2>1, <3>1, <3>2 DEF ConsoleCollect
  <2>2. CASE ConsoleFlush
    <3>1. NetTypeOK'
      BY <2>2, FlushSystemType
      DEF ConsoleFlush, NetTypeOK
    <3>2. ControllerTypeOK'
      BY <2>2, FlushSystemType
      DEF ConsoleFlush
    <3> QED
      BY <2>2, <3>1, <3>2 DEF ConsoleFlush
  <2>3. ASSUME NEW w \in Worker, RecvWorkerStart(w) PROVE TypeOK'
    <3>1. fromWorker' \in [Worker -> Seq(Message)]
      BY <2>3, FromWorker DEF RecvWorkerStart
    <3>2. toClient' \in [Client -> Seq(Message)]
      BY <2>3, Sending DEF RecvWorkerStart, NetTypeOK
    <3>3. NetTypeOK'
      BY <2>3, <3>1, <3>2 DEF RecvWorkerStart, NetTypeOK
    <3>4. ControllerTypeOK'
      BY <2>3 DEF RecvWorkerStart, ControllerTypeOK
    <3> QED
      BY <2>3, <3>3, <3>4 DEF RecvWorkerStart
  <2>4. ASSUME NEW w \in Worker, RecvWorkerFinish(w) PROVE TypeOK'
    <3>1. fromWorker' \in [Worker -> Seq(Message)]
      BY <2>4, FromWorker DEF RecvWorkerFinish
    <3>2. \A X, Y : SendAll(SendAll(toClient, X, Msg("GC_FINISH")), Y, Msg("ACK_AGENT"))
                     \in [Client -> Seq(Message)]
      BY DEF SendAll, NetTypeOK
    <3>3. toClient' \in [Client -> Seq(Message)]
      BY <2>4, <3>2 DEF RecvWorkerFinish, NetTypeOK
    <3>4. NetTypeOK'
      BY <2>4, <3>1, <3>3 DEF RecvWorkerFinish, NetTypeOK
    <3>5. ControllerTypeOK'
      BY <2>4 DEF RecvWorkerFinish, ControllerTypeOK
    <3> QED
      BY <2>4, <3>4, <3>5 DEF RecvWorkerFinish
  <2>5. ASSUME NEW w \in Worker, RecvWorkerRequest(w) PROVE TypeOK'
    <3>1. NetTypeOK'
      BY <2>5, FromWorker, StartCollectionType
      DEF RecvWorkerRequest, NetTypeOK
    <3>2. ControllerTypeOK'
      BY <2>5, StartCollectionType
      DEF RecvWorkerRequest
    <3> QED
      BY <2>5, <3>1, <3>2 DEF RecvWorkerRequest
  <2>6. ASSUME NEW w \in Worker, RecvStat(w) PROVE TypeOK'
    <3>1. fromWorker' \in [Worker -> Seq(Message)]
      BY <2>6, FromWorker DEF RecvStat
    <3>2. toClient' \in [Client -> Seq(Message)]
      BY <2>6, Sending DEF RecvStat, NetTypeOK
    <3>3. NetTypeOK'
      BY <2>6, <3>1, <3>2 DEF RecvStat, NetTypeOK
    <3>4. StatTypeOK'
      BY <2>6, WorkerCount DEF RecvStat, StatTypeOK, NW
    <3> QED
      BY <2>6, <3>3, <3>4 DEF RecvStat
  <2>7. ASSUME NEW w \in Worker, WorkerReceive(w) PROVE TypeOK'
    <3> USE DEF WorkerStart, WorkerFinish, WorkerFlush
    <3>1. toWorker' \in [Worker -> Seq(Message)]
      BY <2>7, ToWorker DEF WorkerReceive
    <3>2. fromWorker' \in [Worker -> Seq(Message)]
      BY <2>7, Sending DEF WorkerReceive
    <3>3. NetTypeOK'
      BY <2>7, <3>1, <3>2 DEF WorkerReceive, NetTypeOK
    <3>4. WorkerTypeOK'
      BY <2>7 DEF WorkerReceive, WorkerTypeOK
    <3> QED
      BY <2>7, <3>3, <3>4 DEF WorkerReceive
  <2>8. ASSUME NEW w \in Worker, WorkerRequest(w) PROVE TypeOK'
    <3>1. Request(wgen[w] + 1) \in Message
      BY <2>8
      DEF WorkerTypeOK
    <3>2. NetTypeOK'
      BY <2>8, <3>1, Sending
      DEF WorkerRequest, NetTypeOK
    <3>3. WorkerTypeOK'
      BY <2>8
      DEF WorkerRequest, WorkerTypeOK
    <3> QED
      BY <2>8, <3>1, <3>2, <3>3 DEF WorkerRequest
  <2>9. ASSUME NEW c \in Client, RecvRegister(c) PROVE TypeOK'
    <3>1. NetTypeOK'
      BY <2>9, FromClient, Sending
      DEF RecvRegister, NetTypeOK
    <3>2. ControllerTypeOK'
      BY <2>9
      DEF RecvRegister, ControllerTypeOK
    <3> QED
      BY <2>9, <3>1, <3>2 DEF RecvRegister
  <2>10. ASSUME NEW c \in Client, RecvClientCollect(c) PROVE TypeOK'
    <3>1. NetTypeOK'
      BY <2>10, FromClient, StartCollectionType
      DEF RecvClientCollect, NetTypeOK
    <3>2. ControllerTypeOK'
      BY <2>10, StartCollectionType
      DEF RecvClientCollect
    <3> QED
      BY <2>10, <3>1, <3>2 DEF RecvClientCollect
  <2>11. ASSUME NEW c \in Client, RecvClientFinish(c) \/ RecvClientEOF(c)
         PROVE  TypeOK'
    <3> USE DEF RecvClientFinish, RecvClientEOF, ClientResponded
    <3>1. fromClient' \in [Client -> Seq(Message)]
      BY <2>11, FromClient
    <3>2. toWorker' \in [Worker -> Seq(Message)]
      BY <2>11, Sending DEF NetTypeOK
    <3>3. NetTypeOK'
      BY <2>11, <3>1, <3>2 DEF NetTypeOK
    <3>4. ControllerTypeOK'
      BY <2>11, WorkerCount DEF ControllerTypeOK, NW
    <3> QED
      BY <2>11, <3>3, <3>4
  <2>12. ASSUME NEW c \in Client, RecvClientFlush(c) PROVE TypeOK'
    <3>1. NetTypeOK'
      BY <2>12, FromClient, FlushSystemType
      DEF RecvClientFlush, NetTypeOK
    <3>2. ControllerTypeOK'
      BY <2>12, FlushSystemType
      DEF RecvClientFlush
    <3>3. StatTypeOK'
      BY <2>12
      DEF RecvClientFlush, StatTypeOK
    <3> QED
      BY <2>12, <3>1, <3>2, <3>3 DEF RecvClientFlush
  <2>13. ASSUME NEW c \in Client, ClientReceive(c) PROVE TypeOK'
    <3> USE DEF ClientAck, ClientGCStart, ClientGCFinish, ClientFlushed, ClientStat
    <3>1. NetTypeOK'
      BY <2>13, ToClient DEF ClientReceive, NetTypeOK
    <3>2. ClientTypeOK'
      <4>1. CASE ClientAck(c)
        BY <4>1 DEF ClientTypeOK
      <4>2. CASE ClientGCStart(c)
        BY <4>2 DEF ClientTypeOK
      <4>3. CASE ClientGCFinish(c)
        BY <4>3 DEF ClientTypeOK
      <4>4. CASE ClientFlushed(c)
        BY <4>4
      <4>5. CASE ClientStat(c)
        <5>1. blocked' \in [Client -> BOOLEAN]
          BY <4>5 DEF ClientTypeOK
        <5> QED
          BY <4>5, <5>1 DEF ClientTypeOK
      <4> QED
        BY <2>13, <4>1, <4>2, <4>3, <4>4, <4>5 DEF ClientReceive
    <3> QED
      BY <2>13, <3>1, <3>2 DEF ClientReceive
  <2>14. ASSUME NEW c \in Client, ClientCompute(c) PROVE TypeOK'
    <3>1. NetTypeOK'
      BY <2>14, Sending
      DEF ClientCompute, OpDone, Undefer, MarkDone, NetTypeOK, netVars
    <3>2. ClientTypeOK'
      BY <2>14
      DEF ClientCompute, OpDone, Undefer, MarkDone, ClientTypeOK
    <3> QED
      BY <2>14, <3>1, <3>2 DEF ClientCompute, OpDone, Undefer, MarkDone
  <2>15. ASSUME NEW c \in Client, ClientCommand(c) PROVE TypeOK'
    <3> USE DEF ClientConnect, ClientLeave, OpStart, ClientCollect, ClientFlush
    <3>1. CASE ClientConnect(c)
      <4>1. NetTypeOK'
        BY <3>1, Sending DEF NetTypeOK
      <4>2. ClientTypeOK'
        BY <3>1 DEF ClientTypeOK
      <4> QED
        BY <3>1, <4>1, <4>2
    <3>2. CASE ClientLeave(c)
      <4>1. fromClient' \in [Client -> Seq(Message)]
        BY <3>2, Sending
      <4>2. NetTypeOK'
        BY <3>2, <4>1 DEF NetTypeOK
      <4>3. ClientTypeOK'
        BY <3>2 DEF ClientTypeOK
      <4> QED
        BY <3>2, <4>2, <4>3
    <3>3. CASE OpStart(c)
      <4>1. ClientTypeOK'
        BY <3>3 DEF ClientTypeOK
      <4> QED
        BY <3>3, <4>1
    <3>4. CASE ClientCollect(c) \/ ClientFlush(c)
      <4>1. fromClient' \in [Client -> Seq(Message)]
        BY <3>4, Sending
      <4>2. NetTypeOK'
        BY <3>4, <4>1 DEF NetTypeOK
      <4>3. ClientTypeOK'
        BY <3>4 DEF ClientTypeOK
      <4> QED
        BY <3>4, <4>2, <4>3
    <3> QED
      BY <2>15, <3>1, <3>2, <3>3, <3>4 DEF ClientCommand
  <2>16. CASE UNCHANGED vars
    BY <2>16 DEF vars
  <2> QED
    BY <2>1, <2>2, <2>3, <2>4, <2>5, <2>6, <2>7, <2>8, <2>9, <2>10, <2>11, <2>12,
       <2>13, <2>14, <2>15, <2>16
    DEF Next, ControllerFromWorker, ControllerFromClient
<1> QED BY <1>1, <1>2, PTL DEF Spec

-----------------------------------------------------------------------------
(***************************************************************************)
(* The controller's counts and sets fit its state, whatever the flushes,   *)
(* the disconnections and the answers that arrive out of turn.  Given      *)
(* TypeOK, RoundBookkeeping is inductive: no connection has to be known.   *)
(***************************************************************************)
THEOREM BookkeepingCorrect == Spec => []RoundBookkeeping
<1>1. Init => RoundBookkeeping
  BY DEF Init, RoundBookkeeping
<1>2. TypeOK /\ RoundBookkeeping /\ [Next]_vars => RoundBookkeeping'
  <2> SUFFICES ASSUME TypeOK, RoundBookkeeping, [Next]_vars PROVE RoundBookkeeping'
    OBVIOUS
  <2> USE WorkerCount DEF NW, RoundBookkeeping
  <2>1. ASSUME StartCollection, gc_state = "READY" PROVE RoundBookkeeping'
    BY <2>1 DEF StartCollection
  <2>2. ASSUME FlushSystem PROVE RoundBookkeeping'
    BY <2>2 DEF FlushSystem
  <2>3. ASSUME NEW c \in Client, ClientResponded(c), c \in need_client_fd_set,
               client_fd_set' \in {client_fd_set, client_fd_set \ {c}},
               UNCHANGED defer_client_fd_set
        PROVE  RoundBookkeeping'
    BY <2>3 DEF ClientResponded
  <2>4. ASSUME UNCHANGED ctlVars PROVE RoundBookkeeping'
    BY <2>4 DEF ctlVars
  <2>5. ASSUME NEW w \in Worker, RecvWorkerStart(w) PROVE RoundBookkeeping'
    BY <2>5 DEF RecvWorkerStart, TypeOK, ControllerTypeOK
  <2>6. ASSUME NEW w \in Worker, RecvWorkerFinish(w) PROVE RoundBookkeeping'
    BY <2>6 DEF RecvWorkerFinish, TypeOK, ControllerTypeOK
  <2>7. ASSUME NEW w \in Worker, RecvWorkerRequest(w) \/ RecvStat(w)
        PROVE  RoundBookkeeping'
    BY <2>7, <2>1, <2>4 DEF RecvWorkerRequest, RecvStat
  <2>8. ASSUME NEW c \in Client, RecvRegister(c) PROVE RoundBookkeeping'
    BY <2>8 DEF RecvRegister
  <2>9. ASSUME NEW c \in Client, RecvClientCollect(c) \/ RecvClientFlush(c)
        PROVE  RoundBookkeeping'
    BY <2>9, <2>1, <2>2, <2>4 DEF RecvClientCollect, RecvClientFlush
  <2>10. ASSUME NEW c \in Client, RecvClientFinish(c) PROVE RoundBookkeeping'
    BY <2>10, <2>3, <2>4 DEF RecvClientFinish, ctlVars
  <2>11. ASSUME NEW c \in Client, RecvClientEOF(c) PROVE RoundBookkeeping'
    <3>1. CASE c \in need_client_fd_set
      BY <2>11, <3>1, <2>3 DEF RecvClientEOF
    <3>2. CASE c \notin need_client_fd_set
      BY <2>11, <3>2 DEF RecvClientEOF
    <3> QED
      BY <3>1, <3>2
  <2>12. ASSUME NEW w \in Worker, WorkerReceive(w) \/ WorkerRequest(w)
         PROVE  RoundBookkeeping'
    BY <2>12, <2>4
    DEF WorkerReceive, WorkerStart, WorkerFinish, WorkerFlush, WorkerRequest
  <2>13. ASSUME NEW c \in Client,
                ClientReceive(c) \/ ClientCompute(c) \/ ClientCommand(c)
         PROVE  RoundBookkeeping'
    BY <2>13, <2>4
    DEF ClientReceive, ClientAck, ClientGCStart, ClientGCFinish, ClientFlushed,
        ClientStat, ClientCompute, OpDone, Undefer, MarkDone, ClientCommand,
        ClientConnect, ClientLeave, OpStart, ClientCollect, ClientFlush
  <2> QED
    BY <2>1, <2>2, <2>4, <2>5, <2>6, <2>7, <2>8, <2>9, <2>10, <2>11, <2>12, <2>13
    DEF Next, ControllerFromWorker, ControllerFromClient, ConsoleCollect,
        ConsoleFlush, vars
<1> QED BY <1>1, <1>2, TypeCorrect, PTL DEF Spec

-----------------------------------------------------------------------------
(***************************************************************************)
(* Sequences: what occurs in them, and how often, when they grow or shrink.*)
(***************************************************************************)
LEMMA AfterAppend ==
  ASSUME NEW s \in Seq(Message), NEW x \in Message, NEW m \in Message
  PROVE  /\ InTransit(m, Append(s, x)) <=> InTransit(m, s) \/ m = x
         /\ Once(m, s) /\ (x = m => ~InTransit(m, s)) => Once(m, Append(s, x))
  <1>1. /\ Append(s, x) \in Seq(Message) /\ Len(Append(s, x)) = Len(s) + 1
        /\ DOMAIN s = 1..Len(s) /\ DOMAIN Append(s, x) = 1..(Len(s) + 1)
        /\ Len(s) \in Nat
    OBVIOUS
  <1>2. \A i \in 1..(Len(s) + 1) :
          Append(s, x)[i] = IF i \in 1..Len(s) THEN s[i] ELSE x
    OBVIOUS
  <1>3. InTransit(m, Append(s, x)) <=> InTransit(m, s) \/ m = x
    BY <1>1, <1>2 DEF InTransit
  <1>4. Once(m, s) /\ (x = m => ~InTransit(m, s)) => Once(m, Append(s, x))
    BY <1>1, <1>2 DEF Once, InTransit
  <1> QED BY <1>3, <1>4

LEMMA AfterTail ==
  ASSUME NEW s \in Seq(Message), s # << >>, NEW m \in Message
  PROVE  /\ InTransit(m, Tail(s)) => InTransit(m, s)
         /\ InTransit(m, s) => m = Head(s) \/ InTransit(m, Tail(s))
         /\ InTransit(Head(s), s)
         /\ Once(m, s) => Once(m, Tail(s)) /\ (m = Head(s) => ~InTransit(m, Tail(s)))
  <1>1. /\ Tail(s) \in Seq(Message) /\ Len(Tail(s)) = Len(s) - 1
        /\ DOMAIN s = 1..Len(s) /\ DOMAIN Tail(s) = 1..(Len(s) - 1)
        /\ Len(s) \in Nat /\ Len(s) > 0 /\ Head(s) = s[1]
    OBVIOUS
  <1>2. \A i \in 1..(Len(s) - 1) : Tail(s)[i] = s[i + 1]
    OBVIOUS
  <1>3. InTransit(m, Tail(s)) => InTransit(m, s)
    BY <1>1, <1>2 DEF InTransit
  <1>4. InTransit(m, s) => m = Head(s) \/ InTransit(m, Tail(s))
    <2> SUFFICES ASSUME NEW i \in 1..Len(s), s[i] = m, i # 1
                 PROVE  InTransit(m, Tail(s))
      BY <1>1 DEF InTransit
    <2>1. i - 1 \in 1..(Len(s) - 1) /\ Tail(s)[i - 1] = m
      BY <1>1, <1>2
    <2> QED BY <1>1, <2>1 DEF InTransit
  <1>5. InTransit(Head(s), s)
    BY <1>1 DEF InTransit
  <1>6. Once(m, s) => Once(m, Tail(s)) /\ (m = Head(s) => ~InTransit(m, Tail(s)))
    <2> SUFFICES ASSUME Once(m, s)
                 PROVE  Once(m, Tail(s)) /\ (m = Head(s) => ~InTransit(m, Tail(s)))
      OBVIOUS
    <2>1. \A i \in 1..(Len(s) - 1) : i + 1 \in 1..Len(s) /\ i + 1 # 1
      BY <1>1
    <2>2. Once(m, Tail(s))
      BY <1>1, <1>2, <2>1 DEF Once
    <2>3. m = Head(s) => ~InTransit(m, Tail(s))
      BY <1>1, <1>2, <2>1 DEF Once, InTransit
    <2> QED BY <2>2, <2>3
  <1> QED BY <1>3, <1>4, <1>5, <1>6

\* A message other than a request is what its type says
LEMMA PlainFromClient ==
  ASSUME NetTypeOK, NEW c \in Client, NEW t, t # "GC_REQUEST", Arrived(fromClient, c, t)
  PROVE  fromClient[c] # << >> /\ Head(fromClient[c]) = Msg(t)
  <1>1. fromClient[c] \in Seq(Message) /\ fromClient[c] # << >>
    BY DEF NetTypeOK, Arrived
  <1>2. Head(fromClient[c]) \in Message
    BY <1>1
  <1> QED BY <1>1, <1>2, PlainMessages DEF Arrived

LEMMA PlainToClient ==
  ASSUME NetTypeOK, NEW c \in Client, NEW t, t # "GC_REQUEST", Arrived(toClient, c, t)
  PROVE  toClient[c] # << >> /\ Head(toClient[c]) = Msg(t)
  <1>1. toClient[c] \in Seq(Message) /\ toClient[c] # << >>
    BY DEF NetTypeOK, Arrived
  <1>2. Head(toClient[c]) \in Message
    BY <1>1
  <1> QED BY <1>1, <1>2, PlainMessages DEF Arrived

-----------------------------------------------------------------------------
(***************************************************************************)
(* The life of a connection.                                               *)
(***************************************************************************)
ClientView(d) == <<conn[d], cstate[d], marking[d], pc[d]>>

\* The controller writes to a client, or changes its mind about which it serves
LEMMA LifeServed ==
  ASSUME NEW d \in Client, Life(d), UNCHANGED <<ClientView(d), fromClient[d]>>,
         conn[d] = "gone" => UNCHANGED toClient[d],
         InTransit(Msg("ACK_AGENT"), toClient'[d]) => d \in client_fd_set',
         d \in client_fd_set => d \in client_fd_set',
         Admitted(d)' => Admitted(d),
         d \in defer_client_fd_set' => d \notin client_fd_set'
  PROVE  Life(d)'
  BY DEF Life, ClientView, Registering, Admitted, EndsLast

LEMMA LifeFrame ==
  ASSUME Lives, UNCHANGED <<clientVars, toClient, fromClient, client_fd_set>>,
         defer_client_fd_set' \subseteq defer_client_fd_set
  PROVE  Lives'
  BY DEF Lives, Life, clientVars, Registering, Admitted, EndsLast

\* What SendAll does to one client's connection
LEMMA SentTo ==
  ASSUME NetTypeOK, NEW X, NEW m \in Message, NEW d \in Client,
         toClient' = SendAll(toClient, X, m)
  PROVE  /\ toClient'[d] = IF d \in X THEN Append(toClient[d], m) ELSE toClient[d]
         /\ \A n \in Message : InTransit(n, toClient'[d]) =>
                 InTransit(n, toClient[d]) \/ (d \in X /\ n = m)
  <1>1. toClient'[d] = IF d \in X THEN Append(toClient[d], m) ELSE toClient[d]
    BY DEF SendAll, NetTypeOK
  <1>2. toClient[d] \in Seq(Message)
    BY DEF NetTypeOK
  <1> QED BY <1>1, <1>2, AfterAppend

\* A message other than ACK_AGENT is sent to some of the clients that listen
LEMMA LifeBroadcast ==
  ASSUME TypeOK, Lives, UNCHANGED <<clientVars, fromClient, client_fd_set>>,
         defer_client_fd_set' \subseteq defer_client_fd_set,
         NEW X, NEW m \in Message, m # Msg("ACK_AGENT"),
         toClient' = SendAll(toClient, Listening(X), m)
  PROVE  Lives'
  <1> SUFFICES ASSUME NEW d \in Client PROVE Life(d)'
    BY DEF Lives
  <1>1. Life(d) /\ UNCHANGED <<ClientView(d), fromClient[d]>>
    BY DEF Lives, clientVars, ClientView
  <1>2. conn[d] = "gone" => UNCHANGED toClient[d]
    BY SentTo DEF Listening, TypeOK
  <1>3. InTransit(Msg("ACK_AGENT"), toClient'[d]) => d \in client_fd_set'
    BY <1>1, SentTo, MessageTypes DEF TypeOK, Life
  <1>4. (Admitted(d)' => Admitted(d)) /\ (d \in defer_client_fd_set' => d \notin client_fd_set')
    BY <1>1 DEF Life, Admitted
  <1> QED BY <1>1, <1>2, <1>3, <1>4, LifeServed

LEMMA LifeWorkerFinish ==
  ASSUME TypeOK, Lives, NEW w \in Worker, RecvWorkerFinish(w)
  PROVE  Lives'
  <1>1. CASE UNCHANGED <<toClient, client_fd_set, defer_client_fd_set>>
    BY <1>1, LifeFrame DEF RecvWorkerFinish
  <1>2. CASE /\ toClient' = SendAll(SendAll(toClient, Listening(client_fd_set), Msg("GC_FINISH")),
                                   Listening(defer_client_fd_set), Msg("ACK_AGENT"))
             /\ client_fd_set' = client_fd_set \cup defer_client_fd_set
             /\ defer_client_fd_set' = {}
    <2> SUFFICES ASSUME NEW d \in Client PROVE Life(d)'
      BY DEF Lives
    <2> DEFINE first == IF d \in Listening(client_fd_set)
                        THEN Append(toClient[d], Msg("GC_FINISH")) ELSE toClient[d]
    <2>1. Life(d) /\ UNCHANGED <<ClientView(d), fromClient[d]>>
      BY DEF RecvWorkerFinish, Lives, clientVars, ClientView
    <2>2. toClient'[d] = IF d \in Listening(defer_client_fd_set)
                         THEN Append(first, Msg("ACK_AGENT")) ELSE first
      BY <1>2 DEF SendAll, TypeOK, NetTypeOK
    <2>3. toClient[d] \in Seq(Message)
      BY DEF TypeOK, NetTypeOK
    <2>4. first \in Seq(Message)
          /\ (InTransit(Msg("ACK_AGENT"), first) => InTransit(Msg("ACK_AGENT"), toClient[d]))
      BY <2>3, AfterAppend, MessageTypes DEF Msg
    <2>5. InTransit(Msg("ACK_AGENT"), toClient'[d]) => d \in client_fd_set'
      BY <1>2, <2>1, <2>2, <2>4, AfterAppend, MessageTypes DEF Life, Listening
    <2>6. conn[d] = "gone" => UNCHANGED toClient[d]
      BY <2>2 DEF Listening
    <2> HIDE DEF first
    <2> QED
      BY <1>2, <2>1, <2>5, <2>6, LifeServed DEF Admitted
  <1> QED BY <1>1, <1>2 DEF RecvWorkerFinish

\* The controller reads the next message of a client
LEMMA LifeRead ==
  ASSUME NetTypeOK, NEW c \in Client, Life(c), fromClient[c] # << >>,
         fromClient' = Receive(fromClient, c), UNCHANGED conn[c]
  PROVE  /\ EndsLast(c)' /\ Once(Msg("REGISTER"), fromClient'[c])
         /\ Registering(c)' => Registering(c)
         /\ \A d \in Client \ {c} : UNCHANGED fromClient[d]
         /\ Head(fromClient[c]) = Msg("REGISTER") => Registering(c) /\ ~Registering(c)'
         /\ Head(fromClient[c]) = Msg("EOF") => conn[c] = "gone" /\ fromClient'[c] = << >>
  <1>1. fromClient[c] \in Seq(Message) /\ fromClient'[c] = Tail(fromClient[c])
        /\ \A d \in Client \ {c} : UNCHANGED fromClient[d]
    BY DEF NetTypeOK, Receive
  <1>2. /\ Once(Msg("REGISTER"), fromClient'[c]) /\ (Registering(c)' => Registering(c))
        /\ Head(fromClient[c]) = Msg("REGISTER") => Registering(c) /\ ~Registering(c)'
    BY <1>1, AfterTail, MessageTypes DEF Life, Registering
  <1>3. /\ DOMAIN fromClient[c] = 1..Len(fromClient[c]) /\ Len(fromClient[c]) \in Nat
        /\ Len(fromClient[c]) > 0 /\ Head(fromClient[c]) = fromClient[c][1]
        /\ DOMAIN fromClient'[c] = 1..(Len(fromClient[c]) - 1)
        /\ Len(fromClient'[c]) = Len(fromClient[c]) - 1
    BY <1>1
  <1>4. \A i \in 1..(Len(fromClient[c]) - 1) : fromClient'[c][i] = fromClient[c][i + 1]
    BY <1>1
  <1>5. EndsLast(c)'
    <2> SUFFICES ASSUME NEW i \in 1..(Len(fromClient[c]) - 1),
                        fromClient'[c][i] = Msg("EOF")
                 PROVE  i = Len(fromClient'[c]) /\ conn'[c] = "gone"
      BY <1>3 DEF EndsLast
    <2>1. i + 1 \in DOMAIN fromClient[c] /\ fromClient[c][i + 1] = Msg("EOF")
      BY <1>3, <1>4
    <2>2. i + 1 = Len(fromClient[c]) /\ conn[c] = "gone"
      BY <2>1 DEF EndsLast, Life
    <2> QED BY <1>3, <2>2
  <1>6. Head(fromClient[c]) = Msg("EOF") => conn[c] = "gone" /\ fromClient'[c] = << >>
    <2> SUFFICES ASSUME Head(fromClient[c]) = Msg("EOF")
                 PROVE  conn[c] = "gone" /\ fromClient'[c] = << >>
      OBVIOUS
    <2>1. 1 \in DOMAIN fromClient[c] /\ fromClient[c][1] = Msg("EOF")
      BY <1>3
    <2>2. conn[c] = "gone" /\ Len(fromClient[c]) = 1
      BY <2>1 DEF EndsLast, Life
    <2> QED BY <1>1, <1>3, <2>2
  <1> QED BY <1>1, <1>2, <1>5, <1>6

\* A client writes to the controller
LEMMA LifeWrite ==
  ASSUME NetTypeOK, NEW c \in Client, Life(c), conn[c] # "gone", NEW m \in Message,
         fromClient' = Send(fromClient, c, m),
         m = Msg("EOF") => conn'[c] = "gone",
         m = Msg("REGISTER") => ~Registering(c)
  PROVE  /\ EndsLast(c)' /\ Once(Msg("REGISTER"), fromClient'[c])
         /\ Registering(c)' <=> Registering(c) \/ m = Msg("REGISTER")
         /\ \A d \in Client \ {c} : UNCHANGED fromClient[d]
  <1>1. fromClient[c] \in Seq(Message) /\ fromClient'[c] = Append(fromClient[c], m)
        /\ \A d \in Client \ {c} : UNCHANGED fromClient[d]
    BY DEF NetTypeOK, Send
  <1>2. /\ Once(Msg("REGISTER"), fromClient'[c])
        /\ Registering(c)' <=> Registering(c) \/ m = Msg("REGISTER")
    BY <1>1, AfterAppend, MessageTypes DEF Life, Registering
  <1>3. /\ DOMAIN fromClient[c] = 1..Len(fromClient[c]) /\ Len(fromClient[c]) \in Nat
        /\ DOMAIN fromClient'[c] = 1..(Len(fromClient[c]) + 1)
        /\ Len(fromClient'[c]) = Len(fromClient[c]) + 1
    BY <1>1
  <1>4. \A i \in 1..(Len(fromClient[c]) + 1) :
          fromClient'[c][i] = IF i \in 1..Len(fromClient[c]) THEN fromClient[c][i] ELSE m
    BY <1>1
  <1>5. EndsLast(c)'
    BY <1>3, <1>4 DEF EndsLast, Life
  <1> QED BY <1>1, <1>2, <1>5

\* The other clients are not concerned
LEMMA LifeOthers ==
  ASSUME TypeOK, Lives, NEW c \in Client, Life(c)',
         \A d \in Client \ {c} :
           /\ UNCHANGED <<ClientView(d), fromClient[d], toClient[d]>>
           /\ d \in client_fd_set' <=> d \in client_fd_set
           /\ d \in defer_client_fd_set' <=> d \in defer_client_fd_set
  PROVE  Lives'
  <1> SUFFICES ASSUME NEW d \in Client \ {c} PROVE Life(d)'
    BY DEF Lives
  <1> QED
    BY DEF Lives, Life, ClientView, Registering, Admitted, EndsLast

LEMMA LifeRegister ==
  ASSUME TypeOK, Lives, NEW c \in Client, RecvRegister(c)
  PROVE  Lives'
  <1>1. Head(fromClient[c]) = Msg("REGISTER") /\ fromClient[c] # << >>
    BY PlainFromClient DEF RecvRegister, TypeOK
  <1>2. /\ Life(c) /\ NetTypeOK /\ UNCHANGED <<conn, cstate, marking, pc>>
        /\ fromClient' = Receive(fromClient, c)
    BY DEF RecvRegister, Lives, TypeOK, clientVars
  <1>3. /\ EndsLast(c)' /\ Once(Msg("REGISTER"), fromClient'[c]) /\ ~Registering(c)'
        /\ conn[c] \in {"wait", "gone"} /\ ~Admitted(c)
        /\ \A d \in Client \ {c} : UNCHANGED fromClient[d]
    BY <1>1, <1>2, LifeRead DEF Life
  <1>4. \A d \in Client \ {c} : UNCHANGED toClient[d]
    BY DEF RecvRegister, SendAll, TypeOK, NetTypeOK, Listening
  <1>5. conn[c] = "gone" => toClient'[c] = toClient[c]
    BY DEF RecvRegister, SendAll, TypeOK, NetTypeOK, Listening
  <1>6. InTransit(Msg("ACK_AGENT"), toClient'[c]) => c \in client_fd_set'
    BY <1>2, <1>3 DEF RecvRegister, Life, Admitted
  <1>7. Life(c)'
    BY <1>2, <1>3, <1>5, <1>6 DEF RecvRegister, Life, Admitted
  <1> QED
    BY <1>2, <1>3, <1>4, <1>7, LifeOthers DEF RecvRegister, ClientView

LEMMA LifeEOF ==
  ASSUME TypeOK, Lives, NEW c \in Client, RecvClientEOF(c)
  PROVE  Lives'
  <1>1. Head(fromClient[c]) = Msg("EOF") /\ fromClient[c] # << >>
    BY PlainFromClient DEF RecvClientEOF, TypeOK
  <1>2. /\ Life(c) /\ NetTypeOK /\ UNCHANGED <<conn, cstate, marking, pc, toClient>>
        /\ fromClient' = Receive(fromClient, c)
        /\ client_fd_set' = client_fd_set \ {c} /\ UNCHANGED defer_client_fd_set
    BY DEF RecvClientEOF, Lives, TypeOK, clientVars
  <1>3. /\ EndsLast(c)' /\ Once(Msg("REGISTER"), fromClient'[c])
        /\ Registering(c)' => Registering(c)
        /\ conn[c] = "gone"
        /\ \A d \in Client \ {c} : UNCHANGED fromClient[d]
    BY <1>1, <1>2, LifeRead
  <1>4. ~InTransit(Msg("ACK_AGENT"), toClient'[c])
    BY <1>2, <1>3 DEF Life, InTransit
  <1>5. Life(c)'
    BY <1>2, <1>3, <1>4 DEF Life, Admitted
  <1> QED
    BY <1>2, <1>3, <1>5, LifeOthers DEF ClientView

\* Any other message of a client is read, and the controller sends nothing
LEMMA LifeHeard ==
  ASSUME TypeOK, Lives, NEW c \in Client, fromClient[c] # << >>,
         fromClient' = Receive(fromClient, c),
         UNCHANGED <<clientVars, toClient, client_fd_set, defer_client_fd_set>>
  PROVE  Lives'
  <1>1. /\ EndsLast(c)' /\ Once(Msg("REGISTER"), fromClient'[c])
        /\ Registering(c)' => Registering(c)
        /\ \A d \in Client \ {c} : UNCHANGED fromClient[d]
    BY LifeRead DEF Lives, TypeOK, clientVars
  <1>2. Life(c)'
    BY <1>1 DEF Lives, Life, Admitted, clientVars
  <1> QED
    BY <1>1, <1>2, LifeOthers DEF ClientView, clientVars

LEMMA LifeConnect ==
  ASSUME TypeOK, Lives, NEW c \in Client, ClientConnect(c) \/ ClientLeave(c)
  PROVE  Lives'
  <1>1. Life(c) /\ NetTypeOK /\ UNCHANGED <<client_fd_set, defer_client_fd_set>>
    BY DEF ClientConnect, ClientLeave, Lives, TypeOK, ctlVars
  <1>2. \A d \in Client \ {c} : UNCHANGED <<ClientView(d), toClient[d]>>
    BY DEF ClientConnect, ClientLeave, ClientView, TypeOK, ClientTypeOK, NetTypeOK
  <1>3. CASE ClientConnect(c)
    <2>1. /\ conn[c] = "off" /\ conn'[c] = "wait"
          /\ UNCHANGED <<cstate, marking, pc, toClient>>
      BY <1>3 DEF ClientConnect, TypeOK, ClientTypeOK
    <2>2. /\ EndsLast(c)' /\ Once(Msg("REGISTER"), fromClient'[c])
          /\ \A d \in Client \ {c} : UNCHANGED fromClient[d]
      BY <1>1, <1>3, <2>1, LifeWrite, MessageTypes, Fields DEF ClientConnect, Life
    <2>3. Life(c)'
      BY <1>1, <2>1, <2>2 DEF Life, Admitted
    <2> QED BY <1>1, <1>2, <2>2, <2>3, LifeOthers
  <1>4. CASE ClientLeave(c)
    <2>1. /\ conn[c] \in {"wait", "up"} /\ conn'[c] = "gone" /\ toClient'[c] = << >>
          /\ cstate'[c] = "IDLE" /\ marking'[c] = 0 /\ pc'[c] = "idle"
      BY <1>4 DEF ClientLeave, TypeOK, ClientTypeOK, NetTypeOK
    <2>2. /\ EndsLast(c)' /\ Once(Msg("REGISTER"), fromClient'[c])
          /\ Registering(c)' => Registering(c)
          /\ \A d \in Client \ {c} : UNCHANGED fromClient[d]
      BY <1>1, <1>4, <2>1, LifeWrite, MessageTypes, Fields DEF ClientLeave
    <2>3. ~InTransit(Msg("ACK_AGENT"), toClient'[c])
      BY <2>1 DEF InTransit
    <2>4. Life(c)'
      BY <1>1, <2>1, <2>2, <2>3 DEF Life, Admitted
    <2> QED BY <1>1, <1>2, <2>2, <2>4, LifeOthers
  <1> QED BY <1>3, <1>4

\* A client that is connected writes to the controller, or does not
LEMMA LifeWritten ==
  ASSUME TypeOK, Lives, NEW c \in Client, conn[c] = "up",
         UNCHANGED <<conn, toClient, client_fd_set, defer_client_fd_set>>,
         \A d \in Client \ {c} : UNCHANGED ClientView(d),
         NEW m \in Message \ {Msg("EOF"), Msg("REGISTER")},
         fromClient' \in {fromClient, Send(fromClient, c, m)}
  PROVE  Lives'
  <1>1. Life(c) /\ NetTypeOK
    BY DEF Lives, TypeOK
  <1>2. /\ EndsLast(c)' /\ Once(Msg("REGISTER"), fromClient'[c])
        /\ Registering(c)' => Registering(c)
        /\ \A d \in Client \ {c} : UNCHANGED fromClient[d]
    <2>1. CASE UNCHANGED fromClient
      BY <1>1, <2>1 DEF Life, EndsLast, Registering
    <2>2. CASE fromClient' = Send(fromClient, c, m)
      BY <1>1, <2>2, LifeWrite
    <2> QED BY <2>1, <2>2
  <1>3. Life(c)'
    BY <1>1, <1>2 DEF Life, Admitted
  <1> QED BY <1>2, <1>3, LifeOthers

\* A client that is connected reads its next message
LEMMA LifeTold ==
  ASSUME TypeOK, Lives, NEW c \in Client, ClientReceive(c)
  PROVE  Lives'
  <1> USE DEF ClientReceive, ClientAck, ClientGCStart, ClientGCFinish, ClientFlushed, ClientStat
  <1>1. /\ Life(c) /\ toClient[c] \in Seq(Message) /\ toClient[c] # << >>
        /\ toClient'[c] = Tail(toClient[c])
        /\ \A d \in Client \ {c} : UNCHANGED toClient[d]
        /\ UNCHANGED <<fromClient, client_fd_set, defer_client_fd_set>>
    BY DEF Lives, TypeOK, NetTypeOK, Receive, Arrived, ctlVars
  <1>2. \A d \in Client \ {c} : UNCHANGED ClientView(d)
    BY DEF ClientView, clientVars, TypeOK, ClientTypeOK
  <1>3. InTransit(Msg("ACK_AGENT"), toClient'[c]) => InTransit(Msg("ACK_AGENT"), toClient[c])
    BY <1>1, AfterTail, MessageTypes
  <1>4. CASE ClientAck(c)
    <2>1. InTransit(Msg("ACK_AGENT"), toClient[c])
      BY <1>1, <1>4, AfterTail, PlainToClient DEF TypeOK
    <2>2. conn[c] = "wait" /\ conn'[c] = "up" /\ UNCHANGED <<cstate, marking, pc>>
      BY <1>4 DEF TypeOK, ClientTypeOK
    <2>3. Life(c)'
      BY <1>1, <1>3, <2>1, <2>2 DEF Life, Registering, Admitted, EndsLast
    <2> QED BY <1>1, <1>2, <2>3, LifeOthers
  <1>5. CASE ~ClientAck(c)
    <2>1. conn[c] = "up" /\ UNCHANGED conn
      BY <1>5 DEF clientVars
    <2>2. Life(c)'
      BY <1>1, <1>3, <2>1 DEF Life, Registering, Admitted, EndsLast
    <2> QED BY <1>1, <1>2, <2>2, LifeOthers
  <1> QED BY <1>4, <1>5

(***************************************************************************)
(* The life of a connection (run_controller, init_agent): a client is      *)
(* registered once, admitted or deferred, and sends nothing after its end  *)
(* of file, whatever flushes happen.                                       *)
(***************************************************************************)
THEOREM ConnectionsLive == Spec => []Lives
<1>1. Init => Lives
  BY DEF Init, Lives, Life, Registering, Admitted, EndsLast, Once, InTransit
<1>2. TypeOK /\ Lives /\ [Next]_vars => Lives'
  <2> SUFFICES ASSUME TypeOK, Lives, [Next]_vars PROVE Lives'
    OBVIOUS
  <2>1. CASE ConsoleCollect
    BY <2>1, LifeFrame DEF ConsoleCollect, StartCollection
  <2>2. ASSUME FlushSystem, UNCHANGED <<clientVars, fromClient>> PROVE Lives'
    BY <2>2, LifeBroadcast, MessageTypes, Fields DEF FlushSystem
  <2>3. ASSUME NEW w \in Worker, RecvWorkerStart(w) PROVE Lives'
    BY <2>3, LifeBroadcast, LifeFrame, MessageTypes, Fields DEF RecvWorkerStart
  <2>4. ASSUME NEW w \in Worker, RecvWorkerRequest(w) PROVE Lives'
    BY <2>4, LifeFrame DEF RecvWorkerRequest, StartCollection, ctlVars
  <2>5. ASSUME NEW w \in Worker, RecvStat(w) PROVE Lives'
    BY <2>5, LifeBroadcast, LifeFrame, MessageTypes, Fields DEF RecvStat, ctlVars
  <2>6. ASSUME NEW w \in Worker, WorkerReceive(w) \/ WorkerRequest(w) PROVE Lives'
    BY <2>6, LifeFrame
    DEF WorkerReceive, WorkerStart, WorkerFinish, WorkerFlush, WorkerRequest, ctlVars
  <2>7. ASSUME NEW c \in Client, RecvClientCollect(c) \/ RecvClientFinish(c) PROVE Lives'
    BY <2>7, LifeHeard
    DEF RecvClientCollect, RecvClientFinish, ClientResponded, StartCollection, Arrived, ctlVars
  <2>8. ASSUME NEW c \in Client, RecvClientFlush(c) PROVE Lives'
    <3>1. /\ UNCHANGED <<clientVars, client_fd_set>> /\ defer_client_fd_set' = {}
          /\ fromClient[c] # << >> /\ fromClient' = Receive(fromClient, c)
          /\ toClient' = SendAll(toClient, Listening(client_fd_set), Msg("DO_FLUSH"))
      BY <2>8 DEF RecvClientFlush, FlushSystem, Arrived
    <3>2. /\ EndsLast(c)' /\ Once(Msg("REGISTER"), fromClient'[c])
          /\ Registering(c)' => Registering(c)
          /\ \A d \in Client \ {c} : UNCHANGED fromClient[d]
      BY <3>1, LifeRead DEF Lives, TypeOK, clientVars
    <3>3. ASSUME NEW d \in Client
          PROVE  /\ InTransit(Msg("ACK_AGENT"), toClient'[d])
                      => InTransit(Msg("ACK_AGENT"), toClient[d])
                 /\ conn[d] = "gone" => UNCHANGED toClient[d]
      BY <3>1, SentTo, MessageTypes, Fields DEF TypeOK, Listening
    <3>4. ASSUME NEW d \in Client \ {c} PROVE Life(d)'
      BY <3>1, <3>2, <3>3, LifeServed DEF Lives, Life, ClientView, clientVars, Admitted
    <3>5. Life(c)'
      BY <3>1, <3>2, <3>3 DEF Lives, Life, Admitted, clientVars
    <3> QED BY <3>4, <3>5 DEF Lives
  <2>9. ASSUME NEW c \in Client, ClientCompute(c) \/ OpStart(c) \/ ClientCollect(c)
                                   \/ ClientFlush(c)
        PROVE  Lives'
    <3>1. conn[c] = "up"
      BY <2>9 DEF ClientCompute, OpStart, ClientCollect, ClientFlush, OpDone, Undefer, MarkDone,
                  Busy, AtConsole, Lives, Life
    <3>2. /\ \A d \in Client \ {c} : UNCHANGED ClientView(d)
          /\ UNCHANGED <<conn, toClient, client_fd_set, defer_client_fd_set>>
      BY <2>9 DEF ClientCompute, OpStart, ClientCollect, ClientFlush, OpDone, Undefer, MarkDone,
                  ClientView, TypeOK, ClientTypeOK, ctlVars, netVars
    <3>3. \E m \in {Msg("GC_FINISH"), Msg("GC_START"), Msg("DO_FLUSH")} :
            fromClient' \in {fromClient, Send(fromClient, c, m)}
      BY <2>9 DEF ClientCompute, OpStart, ClientCollect, ClientFlush, OpDone, Undefer, MarkDone,
                  netVars
    <3>4. {Msg("GC_FINISH"), Msg("GC_START"), Msg("DO_FLUSH")}
            \subseteq Message \ {Msg("EOF"), Msg("REGISTER")}
      BY MessageTypes, Fields
    <3> QED BY <3>1, <3>2, <3>3, <3>4, LifeWritten
  <2>10. CASE UNCHANGED vars
    BY <2>10, LifeFrame DEF vars, clientVars, ctlVars, netVars
  <2> QED
    BY <2>1, <2>2, <2>3, <2>4, <2>5, <2>6, <2>7, <2>8, <2>9, <2>10, LifeWorkerFinish,
       LifeRegister, LifeEOF, LifeConnect, LifeTold
    DEF Next, ControllerFromWorker, ControllerFromClient, ClientCommand, ConsoleFlush
<1> QED BY <1>1, <1>2, TypeCorrect, PTL DEF Spec

\* A client that arrives during a round is served only after it, whatever the
\* flushes: it is deferred, and while it is it has not been acknowledged
THEOREM NewcomersAlwaysWait == Spec => []NewcomersWait
<1>1. TypeOK /\ RoundBookkeeping /\ Lives => NewcomersWait
  BY DEF TypeOK, ClientTypeOK, RoundBookkeeping, Lives, Life, Admitted, NewcomersWait
<1> QED BY <1>1, TypeCorrect, BookkeepingCorrect, ConnectionsLive, PTL

-----------------------------------------------------------------------------
(***************************************************************************)
(* Statistics.  A flush orders one set of them; every order becomes an     *)
(* answer, and every answer is counted towards a set.                      *)
(***************************************************************************)

\* Division, as far as the provers know it
LEMMA Quotient ==
  ASSUME NEW n \in Nat, n > 0
  PROVE  \A a \in Nat : /\ a = n * (a \div n) + (a % n)
                        /\ a % n \in 0 .. n - 1 /\ a \div n \in Int
  OBVIOUS

\* A number has one quotient and one remainder
LEMMA QuotientIsOne ==
  ASSUME NEW n \in Nat, n > 0, NEW p \in Int, NEW q \in Int,
         NEW r \in 0 .. n - 1, NEW s \in 0 .. n - 1, n * q + r = n * p + s
  PROVE  r = s
<1>1. ASSUME NEW x \in Int, NEW y \in Int, NEW u \in 0 .. n - 1, NEW v \in 0 .. n - 1,
             n * x + u = n * y + v, x < y
      PROVE  FALSE
  <2>1. n * y >= n * (x + 1)
    BY <1>1
  <2>2. n * (x + 1) = n * x + n
    OBVIOUS
  <2> DEFINE a == n * x  b == n * y  c == n * (x + 1)
  <2>3. a \in Int /\ b \in Int /\ c \in Int /\ b >= c /\ c = a + n /\ a + u = b + v
    BY <1>1, <2>1, <2>2
  <2> HIDE DEF a, b, c
  <2> QED BY <2>3
<1> QED BY <1>1

\* A whole set more leaves the same remainder, less than a set leaves itself
LEMMA Remainders ==
  ASSUME NEW n \in Nat, n > 0
  PROVE  /\ 0 % n = 0
         /\ \A a \in Nat : /\ (a + n) % n = a % n
                           /\ a % n = 0 /\ a < n => a = 0
<1> USE Quotient, QuotientIsOne
<1>1. 0 % n = 0
  <2>1. 0 = n * (0 \div n) + (0 % n) /\ 0 = n * 0 + 0
    OBVIOUS
  <2> QED BY <2>1
<1>2. ASSUME NEW a \in Nat PROVE (a + n) % n = a % n
  <2> DEFINE q == a \div n  p == (a + n) \div n  r == a % n  s == (a + n) % n
  <2>1. /\ a = n * q + r /\ a + n = n * p + s
        /\ q \in Int /\ p \in Int /\ r \in 0 .. n - 1 /\ s \in 0 .. n - 1
    OBVIOUS
  <2> HIDE DEF q, p, r, s
  <2>2. n * (q + 1) + r = n * p + s /\ q + 1 \in Int
    BY <2>1
  <2>3. r = s
    BY <2>1, <2>2
  <2> QED BY <2>3 DEF r, s
<1>3. ASSUME NEW a \in Nat, a % n = 0, a < n PROVE a = 0
  <2>1. a = n * (a \div n) + 0 /\ a = n * 0 + a
    BY <1>3
  <2> QED BY <1>3, <2>1
<1> QED BY <1>1, <1>2, <1>3

\* How many messages of a type the connections with the workers hold
Channels == [Worker -> Seq(Message)]
Count(ch, t) == Cardinality(Occurrences(ch, t))
Counted(ch, t) == IsFiniteSet(Occurrences(ch, t)) /\ Count(ch, t) \in Nat

\* An occurrence is a worker and a place on its connection
LEMMA OccurrencesAre ==
  ASSUME NEW ch, NEW t
  PROVE  \A x : x \in Occurrences(ch, t) <=>
                  \E w \in Worker : \E i \in DOMAIN ch[w] : x = <<w, i>> /\ ch[w][i].type = t
  BY DEF Occurrences

\* One message more on a connection
LEMMA SentOne ==
  ASSUME NEW ch \in Channels, NEW t, NEW w \in Worker, NEW m \in Message, Counted(ch, t)
  PROVE  /\ Counted(Send(ch, w, m), t)
         /\ Count(Send(ch, w, m), t) = Count(ch, t) + (IF m.type = t THEN 1 ELSE 0)
<1> DEFINE x == <<w, Len(ch[w]) + 1>>
           O == Occurrences(ch, t)
           P == Occurrences(Send(ch, w, m), t)
<1>1. /\ \A v \in Worker : v # w => Send(ch, w, m)[v] = ch[v]
      /\ Send(ch, w, m)[w] = Append(ch[w], m)
  BY DEF Send, Channels
<1>2. ch[w] \in Seq(Message) /\ Len(ch[w]) \in Nat /\ DOMAIN ch[w] = 1 .. Len(ch[w])
  BY DEF Channels
<1>3. /\ DOMAIN Append(ch[w], m) = 1 .. Len(ch[w]) + 1
      /\ \A i \in DOMAIN ch[w] : Append(ch[w], m)[i] = ch[w][i]
      /\ Append(ch[w], m)[Len(ch[w]) + 1] = m
  BY <1>2
<1>4. x \notin O
  BY <1>2, OccurrencesAre
<1>5. P = IF m.type = t THEN O \cup {x} ELSE O
  <2>1. ASSUME NEW y PROVE y \in P <=> y \in O \/ (m.type = t /\ y = x)
    <3>1. \A i : i \in DOMAIN Append(ch[w], m) <=> i \in DOMAIN ch[w] \/ i = Len(ch[w]) + 1
      BY <1>2, <1>3
    <3>2. Len(ch[w]) + 1 \notin DOMAIN ch[w]
      BY <1>2
    <3> QED BY <1>1, <1>3, <3>1, <3>2, OccurrencesAre
  <2> HIDE DEF P, O, x
  <2> QED BY <2>1
<1> HIDE DEF O, P, x
<1>6. IsFiniteSet(O) /\ Cardinality(O) \in Nat
  BY DEF Counted, Count, O
<1>7. IsFiniteSet(P) /\ Cardinality(P) = Cardinality(O) + (IF m.type = t THEN 1 ELSE 0)
  BY <1>4, <1>5, <1>6, FS_AddElement
<1> QED BY <1>6, <1>7 DEF Counted, Count, O, P

\* One message more for every worker
LEMMA SentAll ==
  ASSUME NEW ch \in Channels, NEW t, NEW m \in Message, Counted(ch, t)
  PROVE  /\ Counted(SendAll(ch, Worker, m), t)
         /\ Count(SendAll(ch, Worker, m), t) = Count(ch, t) + (IF m.type = t THEN NW ELSE 0)
<1> DEFINE new == {<<w, Len(ch[w]) + 1>> : w \in Worker}
           O == Occurrences(ch, t)
           P == Occurrences(SendAll(ch, Worker, m), t)
<1>1. \A w \in Worker : SendAll(ch, Worker, m)[w] = Append(ch[w], m)
  BY DEF SendAll, Channels
<1>2. ASSUME NEW w \in Worker
      PROVE  /\ Len(ch[w]) \in Nat /\ DOMAIN ch[w] = 1 .. Len(ch[w])
             /\ DOMAIN Append(ch[w], m) = 1 .. Len(ch[w]) + 1
             /\ \A i \in DOMAIN ch[w] : Append(ch[w], m)[i] = ch[w][i]
             /\ Append(ch[w], m)[Len(ch[w]) + 1] = m
             /\ Len(ch[w]) + 1 \notin DOMAIN ch[w]
             /\ \A i : i \in DOMAIN Append(ch[w], m) <=> i \in DOMAIN ch[w] \/ i = Len(ch[w]) + 1
  <2>1. ch[w] \in Seq(Message)
    BY DEF Channels
  <2> QED BY <2>1
<1>3. new \cap O = {}
  BY <1>2, OccurrencesAre
<1>4. P = IF m.type = t THEN O \cup new ELSE O
  <2>1. ASSUME NEW y PROVE y \in P <=> y \in O \/ (m.type = t /\ y \in new)
    BY <1>1, <1>2, OccurrencesAre
  <2> HIDE DEF P, O, new
  <2> QED BY <2>1
<1>5. IsFiniteSet(new) /\ Cardinality(new) = NW
  <2> DEFINE f == [w \in Worker |-> <<w, Len(ch[w]) + 1>>]
  <2>1. f \in Bijection(Worker, new)
    <3>1. f \in [Worker -> new]
      OBVIOUS
    <3>2. \A v, w \in Worker : f[v] = f[w] => v = w
      OBVIOUS
    <3>3. \A y \in new : \E w \in Worker : f[w] = y
      OBVIOUS
    <3> HIDE DEF f, new
    <3> QED BY <3>1, <3>2, <3>3, Fun_IsBij
  <2>2. ExistsBijection(Worker, new)
    BY <2>1 DEF ExistsBijection
  <2> QED BY <2>2, WorkersAssumption, FS_Bijection DEF NW
<1> HIDE DEF O, P, new
<1>6. IsFiniteSet(O) /\ Cardinality(O) \in Nat
  BY DEF Counted, Count, O
<1>7. Cardinality(O \cup new) = Cardinality(O) + NW /\ IsFiniteSet(O \cup new)
  <2>1. Cardinality(O \cap new) = 0
    BY <1>3, FS_EmptySet
  <2> QED BY <1>5, <1>6, <2>1, WorkerCount, FS_Union
<1>8. IsFiniteSet(P) /\ Cardinality(P) = Cardinality(O) + (IF m.type = t THEN NW ELSE 0)
  BY <1>4, <1>6, <1>7
<1> QED BY <1>6, <1>8, WorkerCount DEF Counted, Count, O, P

\* The first message of a connection is taken: the others move up
LEMMA TakenOne ==
  ASSUME NEW ch \in Channels, NEW t, NEW w \in Worker, ch[w] # << >>, Counted(ch, t)
  PROVE  /\ Counted(Receive(ch, w), t)
         /\ Count(ch, t) = Count(Receive(ch, w), t) + (IF Head(ch[w]).type = t THEN 1 ELSE 0)
<1> DEFINE O == Occurrences(ch, t)
           P == Occurrences(Receive(ch, w), t)
           R == O \ {<<w, 1>>}
           f == [x \in R |-> IF x[1] = w THEN <<w, x[2] - 1>> ELSE x]
<1>1. /\ \A v \in Worker : v # w => Receive(ch, w)[v] = ch[v]
      /\ Receive(ch, w)[w] = Tail(ch[w])
  BY DEF Receive, Channels
<1>2. ch[w] \in Seq(Message) /\ Len(ch[w]) \in Nat /\ DOMAIN ch[w] = 1 .. Len(ch[w]) /\ Len(ch[w]) > 0
  BY DEF Channels
<1>3. /\ DOMAIN Tail(ch[w]) = 1 .. Len(ch[w]) - 1
      /\ \A i \in 1 .. Len(ch[w]) - 1 : Tail(ch[w])[i] = ch[w][i + 1]
      /\ Head(ch[w]) = ch[w][1]
  BY <1>2
<1>4. ASSUME NEW v \in Worker, NEW i
      PROVE  /\ <<v, i>> \in O <=> i \in DOMAIN ch[v] /\ ch[v][i].type = t
             /\ v # w => (<<v, i>> \in P <=> i \in DOMAIN ch[v] /\ ch[v][i].type = t)
             /\ v = w => (<<v, i>> \in P <=> i \in 1 .. Len(ch[w]) - 1 /\ ch[w][i + 1].type = t)
  <2>1. <<v, i>> \in O <=> i \in DOMAIN ch[v] /\ ch[v][i].type = t
    BY OccurrencesAre
  <2>2. <<v, i>> \in P <=> i \in DOMAIN Receive(ch, w)[v] /\ Receive(ch, w)[v][i].type = t
    BY OccurrencesAre
  <2>3. CASE v # w
    BY <1>1, <2>1, <2>2, <2>3
  <2>4. CASE v = w
    <3>1. Receive(ch, w)[v] = Tail(ch[w])
      BY <1>1, <2>4
    <3> QED BY <1>3, <2>1, <2>2, <2>4, <3>1
  <2> QED BY <2>3, <2>4
<1>5. \A x \in O \cup P : \E v \in Worker : \E i : x = <<v, i>>
  BY OccurrencesAre
<1>6. f \in Bijection(R, P)
  <2>1. ASSUME NEW x \in R PROVE f[x] \in P
    <3>1. PICK v, i : v \in Worker /\ x = <<v, i>>
      BY <1>5
    <3> QED BY <1>2, <1>4, <3>1
  <2>2. ASSUME NEW x \in R, NEW y \in R, f[x] = f[y] PROVE x = y
    <3>1. PICK v, i : v \in Worker /\ x = <<v, i>>
      BY <1>5
    <3>2. PICK u, j : u \in Worker /\ y = <<u, j>>
      BY <1>5
    <3> QED BY <1>2, <1>4, <2>2, <3>1, <3>2
  <2>3. ASSUME NEW y \in P PROVE \E x \in R : f[x] = y
    <3>1. PICK v, i : v \in Worker /\ y = <<v, i>>
      BY <1>5
    <3>2. CASE v = w
      <4>1. i \in 1 .. Len(ch[w]) - 1 /\ ch[w][i + 1].type = t
        BY <1>4, <3>1, <3>2
      <4>2. <<w, i + 1>> \in O
        BY <1>2, <1>4, <4>1
      <4>3. i + 1 # 1 /\ (i + 1) - 1 = i
        BY <1>2, <4>1
      <4>4. <<w, i + 1>> \in R
        BY <4>2, <4>3
      <4>5. f[<<w, i + 1>>] = <<w, i>>
        BY <4>3, <4>4
      <4> QED BY <3>1, <3>2, <4>4, <4>5
    <3>3. CASE v # w
      <4>1. y \in R
        BY <1>4, <3>1, <3>3
      <4> QED BY <3>1, <3>3, <4>1
    <3> QED BY <3>2, <3>3
  <2>4. f = [x \in R |-> f[x]]
    OBVIOUS
  <2> HIDE DEF R, P, f
  <2> QED BY <2>1, <2>2, <2>3, <2>4, Fun_IsBij
<1>7. <<w, 1>> \in O <=> Head(ch[w]).type = t
  BY <1>2, <1>3, <1>4
<1> HIDE DEF O, P, f
<1>8. IsFiniteSet(O) /\ Cardinality(O) \in Nat
  BY DEF Counted, Count, O
<1>9a. /\ IsFiniteSet(R)
       /\ Cardinality(R) = (IF <<w, 1>> \in O THEN Cardinality(O) - 1 ELSE Cardinality(O))
  BY <1>8, FS_RemoveElement
<1> HIDE DEF R
<1>9. IsFiniteSet(R) /\ Cardinality(O) = Cardinality(R) + (IF Head(ch[w]).type = t THEN 1 ELSE 0)
  BY <1>7, <1>8, <1>9a
<1>10. IsFiniteSet(P) /\ Cardinality(P) = Cardinality(R)
  BY <1>6, <1>9, FS_Bijection DEF ExistsBijection
<1> QED BY <1>8, <1>9, <1>10, FS_CardinalityType DEF Counted, Count, O, P

\* The inductive invariant of the statistics
AllCounted == Counted(toWorker, "DO_FLUSH") /\ Counted(fromWorker, "STAT")
StatInv == AllCounted /\ StatsAccounted

Orders == Count(toWorker, "DO_FLUSH")
Answers == Count(fromWorker, "STAT")

\* What is owed is what has been ordered and what has been answered
LEMMA OwedIs == Owed = Orders + Answers /\ Owed' = Orders' + Answers'
  BY DEF Owed, Orders, Answers, Count

\* The connections are sequences of messages
LEMMA Connections == NetTypeOK => toWorker \in Channels /\ fromWorker \in Channels
  BY DEF NetTypeOK, Channels

\* A step after which as many statistics are owed, and nothing else changed
LEMMA StatFrame ==
  ASSUME StatInv, AllCounted', Orders' + Answers' = Orders + Answers, UNCHANGED statVars
  PROVE  StatInv'
<1>1. Owed' = Owed
  BY OwedIs
<1> QED BY <1>1 DEF StatInv, StatsAccounted, statVars

\* What is taken from a connection, and sent on one, and is no statistic
LEMMA QuietToWorker ==
  ASSUME NetTypeOK, AllCounted,
         \/ UNCHANGED toWorker
         \/ \E m \in Message : m.type # "DO_FLUSH" /\ toWorker' = SendAll(toWorker, Worker, m)
         \/ \E w \in Worker : \E t : t # "DO_FLUSH" /\ Arrived(toWorker, w, t)
                                 /\ toWorker' = Receive(toWorker, w)
  PROVE  Counted(toWorker, "DO_FLUSH")' /\ Orders' = Orders
<1>0. toWorker \in Channels /\ Counted(toWorker, "DO_FLUSH") /\ Orders \in Nat
  BY Connections DEF AllCounted, Counted, Orders
<1>1. CASE UNCHANGED toWorker
  BY <1>0, <1>1 DEF Counted, Orders, Count
<1>2. ASSUME NEW m \in Message, m.type # "DO_FLUSH", toWorker' = SendAll(toWorker, Worker, m)
      PROVE  Counted(toWorker, "DO_FLUSH")' /\ Orders' = Orders
  <2>1. /\ Counted(SendAll(toWorker, Worker, m), "DO_FLUSH")
        /\ Count(SendAll(toWorker, Worker, m), "DO_FLUSH") = Orders + 0
    BY <1>0, <1>2, SentAll DEF Orders
  <2> QED BY <1>0, <1>2, <2>1 DEF Counted, Orders, Count
<1>3. ASSUME NEW w \in Worker, NEW t, t # "DO_FLUSH", Arrived(toWorker, w, t),
             toWorker' = Receive(toWorker, w)
      PROVE  Counted(toWorker, "DO_FLUSH")' /\ Orders' = Orders
  <2>1. toWorker[w] # << >> /\ Head(toWorker[w]).type # "DO_FLUSH"
    BY <1>3 DEF Arrived
  <2>2. /\ Counted(Receive(toWorker, w), "DO_FLUSH")
        /\ Orders = Count(Receive(toWorker, w), "DO_FLUSH") + 0
    BY <1>0, <2>1, TakenOne DEF Orders
  <2> QED BY <1>3, <2>2 DEF Counted, Orders, Count
<1> QED BY <1>1, <1>2, <1>3

\* The same of what the workers send
LEMMA QuietFromWorker ==
  ASSUME NetTypeOK, AllCounted,
         \/ UNCHANGED fromWorker
         \/ \E w \in Worker : \E m \in Message : m.type # "STAT" /\ fromWorker' = Send(fromWorker, w, m)
         \/ \E w \in Worker : \E t : t # "STAT" /\ Arrived(fromWorker, w, t)
                                     /\ fromWorker' = Receive(fromWorker, w)
  PROVE  Counted(fromWorker, "STAT")' /\ Answers' = Answers
<1>0. fromWorker \in Channels /\ Counted(fromWorker, "STAT") /\ Answers \in Nat
  BY Connections DEF AllCounted, Counted, Answers
<1>1. CASE UNCHANGED fromWorker
  BY <1>0, <1>1 DEF Counted, Answers, Count
<1>2. ASSUME NEW w \in Worker, NEW m \in Message, m.type # "STAT", fromWorker' = Send(fromWorker, w, m)
      PROVE  Counted(fromWorker, "STAT")' /\ Answers' = Answers
  <2>1. /\ Counted(Send(fromWorker, w, m), "STAT")
        /\ Count(Send(fromWorker, w, m), "STAT") = Answers + 0
    BY <1>0, <1>2, SentOne DEF Answers
  <2> QED BY <1>0, <1>2, <2>1 DEF Counted, Answers, Count
<1>3. ASSUME NEW w \in Worker, NEW t, t # "STAT", Arrived(fromWorker, w, t),
             fromWorker' = Receive(fromWorker, w)
      PROVE  Counted(fromWorker, "STAT")' /\ Answers' = Answers
  <2>1. fromWorker[w] # << >> /\ Head(fromWorker[w]).type # "STAT"
    BY <1>3 DEF Arrived
  <2>2. /\ Counted(Receive(fromWorker, w), "STAT")
        /\ Answers = Count(Receive(fromWorker, w), "STAT") + 0
    BY <1>0, <2>1, TakenOne DEF Answers
  <2> QED BY <1>3, <2>2 DEF Counted, Answers, Count
<1> QED BY <1>1, <1>2, <1>3

\* A flush is ordered: every worker owes one more
LEMMA StatsOrdered ==
  ASSUME TypeOK, StatInv, FlushSystem, UNCHANGED <<stat_message_cnt, fromWorker>>
  PROVE  StatInv'
<1>0. toWorker \in Channels /\ AllCounted /\ Orders \in Nat /\ Answers \in Nat
  BY Connections DEF StatInv, AllCounted, Counted, Orders, Answers, TypeOK
<1>1. /\ Counted(SendAll(toWorker, Worker, Msg("DO_FLUSH")), "DO_FLUSH")
      /\ Count(SendAll(toWorker, Worker, Msg("DO_FLUSH")), "DO_FLUSH") = Orders + NW
  BY <1>0, SentAll, MessageTypes, Fields DEF AllCounted, Orders
<1>2. Counted(toWorker, "DO_FLUSH")' /\ Orders' = Orders + NW
  BY <1>1 DEF FlushSystem, Counted, Orders, Count
<1>3. Counted(fromWorker, "STAT")' /\ Answers' = Answers
  BY <1>0 DEF AllCounted, Counted, Answers, Count
<1>4. stat_message_cnt \in Nat
  BY WorkerCount DEF TypeOK, StatTypeOK, NW
<1>5. Owed' = Owed + NW /\ Owed \in Nat
  BY <1>0, <1>2, <1>3, OwedIs, WorkerCount
<1>6. Owed' > 0
  BY <1>5, WorkerCount
<1>7. (Owed + stat_message_cnt + NW) % NW = 0
  <2>1. (Owed + stat_message_cnt) % NW = 0 /\ Owed + stat_message_cnt \in Nat
    BY <1>4, <1>5 DEF StatInv, StatsAccounted, NW
  <2> QED BY <2>1, WorkerCount, Remainders
<1>8. Owed' + stat_message_cnt' = Owed + stat_message_cnt + NW
  BY <1>4, <1>5, WorkerCount
<1>9. (Owed' + stat_message_cnt') % Cardinality(Worker) = 0
  BY <1>7, <1>8 DEF NW
<1> QED BY <1>2, <1>3, <1>6, <1>9 DEF StatInv, AllCounted, StatsAccounted

\* An answer is read: one less is owed, and one more counted or a set complete
LEMMA StatRead ==
  ASSUME TypeOK, StatInv, NEW w \in Worker, RecvStat(w)
  PROVE  StatInv'
<1>0. fromWorker \in Channels /\ AllCounted /\ Orders \in Nat /\ Answers \in Nat
  BY Connections DEF StatInv, AllCounted, Counted, Orders, Answers, TypeOK
<1>1. fromWorker[w] # << >> /\ Head(fromWorker[w]).type = "STAT"
  BY DEF RecvStat, Arrived
<1>2. /\ Counted(Receive(fromWorker, w), "STAT")
      /\ Answers = Count(Receive(fromWorker, w), "STAT") + 1
  BY <1>0, <1>1, TakenOne DEF AllCounted, Answers
<1>3. PICK n \in Nat : Counted(fromWorker, "STAT")' /\ Answers = n + 1 /\ Answers' = n
  BY <1>2 DEF RecvStat, Counted, Answers, Count
<1>4. Counted(toWorker, "DO_FLUSH")' /\ Orders' = Orders
  BY <1>0 DEF RecvStat, AllCounted, Counted, Orders, Count
<1>5. PICK owed \in Nat : Owed = owed + 1 /\ Owed' = owed
  <2>1. Orders + n \in Nat /\ Orders + (n + 1) = (Orders + n) + 1
    BY <1>0
  <2> QED BY <1>3, <1>4, <2>1, OwedIs
<1>6. stat_message_cnt \in 0 .. NW - 1
  BY DEF TypeOK, StatTypeOK, NW
<1>7. (Owed + stat_message_cnt) % NW = 0
  BY DEF StatInv, StatsAccounted, NW
<1>8. CASE StatsComplete
  <2>1. stat_message_cnt' = 0 /\ flush_requestor_fd' = NoClient
    BY <1>8 DEF RecvStat, StatsComplete
  <2>2. stat_message_cnt + 1 = NW
    BY <1>6, <1>8, WorkerCount DEF StatsComplete, NW
  <2>3. Owed + stat_message_cnt = (owed + 0) + NW
    BY <1>5, <1>6, <2>2, WorkerCount
  <2>4. (owed + 0) % NW = 0
    BY <1>7, <2>3, WorkerCount, Remainders
  <2>5. (Owed' + stat_message_cnt') % Cardinality(Worker) = 0
    BY <1>5, <2>1, <2>4 DEF NW
  <2> QED BY <1>3, <1>4, <2>1, <2>5 DEF StatInv, AllCounted, StatsAccounted
<1>9. CASE ~StatsComplete
  <2>1. stat_message_cnt' = stat_message_cnt + 1 /\ flush_requestor_fd' = flush_requestor_fd
    BY <1>9 DEF RecvStat, StatsComplete
  <2>2. stat_message_cnt + 1 < NW /\ stat_message_cnt + 1 > 0 /\ stat_message_cnt + 1 \in Nat
    BY <1>6, <1>9, WorkerCount DEF StatsComplete, NW
  <2>3. Owed + stat_message_cnt = owed + (stat_message_cnt + 1)
    BY <1>5, <1>6
  <2>4. (owed + (stat_message_cnt + 1)) % NW = 0
    BY <1>7, <2>3
  <2>5. owed # 0
    <3>1. ASSUME owed = 0 PROVE FALSE
      <4>1. (stat_message_cnt + 1) % NW = 0
        BY <2>2, <2>4, <3>1
      <4> QED BY <2>2, <4>1, WorkerCount, Remainders
    <3> QED BY <3>1
  <2>6. Owed' > 0
    BY <1>5, <2>5
  <2>7. (Owed' + stat_message_cnt') % Cardinality(Worker) = 0
    BY <1>5, <2>1, <2>4 DEF NW
  <2> QED BY <1>3, <1>4, <2>6, <2>7 DEF StatInv, AllCounted, StatsAccounted
<1> QED BY <1>8, <1>9

\* A worker flushes: an order becomes an answer
LEMMA StatSent ==
  ASSUME TypeOK, StatInv, NEW w \in Worker, WorkerFlush(w)
  PROVE  StatInv'
<1>0. /\ toWorker \in Channels /\ fromWorker \in Channels
      /\ AllCounted /\ Orders \in Nat /\ Answers \in Nat
  BY Connections DEF StatInv, AllCounted, Counted, Orders, Answers, TypeOK
<1>1. toWorker[w] # << >> /\ Head(toWorker[w]).type = "DO_FLUSH"
  BY DEF WorkerFlush, Arrived
<1>2. /\ Counted(Receive(toWorker, w), "DO_FLUSH")
      /\ Orders = Count(Receive(toWorker, w), "DO_FLUSH") + 1
  BY <1>0, <1>1, TakenOne DEF AllCounted, Orders
<1>3. /\ Counted(Send(fromWorker, w, Msg("STAT")), "STAT")
      /\ Count(Send(fromWorker, w, Msg("STAT")), "STAT") = Answers + 1
  BY <1>0, SentOne, MessageTypes, Fields DEF AllCounted, Answers
<1>4. Counted(toWorker, "DO_FLUSH")' /\ Orders = Orders' + 1 /\ Orders' \in Nat
  BY <1>2 DEF WorkerFlush, Counted, Orders, Count
<1>5. Counted(fromWorker, "STAT")' /\ Answers' = Answers + 1
  BY <1>3 DEF WorkerFlush, Counted, Answers, Count
<1>6. Orders' + Answers' = Orders + Answers
  BY <1>0, <1>4, <1>5
<1> QED BY <1>4, <1>5, <1>6, StatFrame DEF WorkerFlush, AllCounted

\* A step that neither orders nor sends nor reads statistics
LEMMA StatQuiet ==
  ASSUME TypeOK, StatInv, UNCHANGED statVars,
         \/ UNCHANGED toWorker
         \/ \E m \in Message : m.type # "DO_FLUSH" /\ toWorker' = SendAll(toWorker, Worker, m)
         \/ \E w \in Worker : \E t : t # "DO_FLUSH" /\ Arrived(toWorker, w, t)
                                     /\ toWorker' = Receive(toWorker, w),
         \/ UNCHANGED fromWorker
         \/ \E w \in Worker : \E m \in Message : m.type # "STAT" /\ fromWorker' = Send(fromWorker, w, m)
         \/ \E w \in Worker : \E t : t # "STAT" /\ Arrived(fromWorker, w, t)
                                     /\ fromWorker' = Receive(fromWorker, w)
  PROVE  StatInv'
<1>1. Counted(toWorker, "DO_FLUSH")' /\ Orders' = Orders
  BY QuietToWorker DEF TypeOK, StatInv
<1>2. Counted(fromWorker, "STAT")' /\ Answers' = Answers
  BY QuietFromWorker DEF TypeOK, StatInv
<1> QED BY <1>1, <1>2, StatFrame DEF AllCounted

\* The statistics that flushes ask for come in whole sets, whatever the number of
\* flushes, of workers and of the answers under way: add_stat_message never
\* mixes up which set is complete, and forgets who asked only then
THEOREM StatsAlwaysAccounted == Spec => []StatsAccounted
<1>1. Init => StatInv
  <2> SUFFICES ASSUME Init PROVE StatInv
    OBVIOUS
  <2>1. Occurrences(toWorker, "DO_FLUSH") = {} /\ Occurrences(fromWorker, "STAT") = {}
    BY DEF Init, Occurrences
  <2>2. AllCounted /\ Owed = 0
    BY <2>1, FS_EmptySet DEF AllCounted, Counted, Count, Owed
  <2>3. (Owed + stat_message_cnt) % Cardinality(Worker) = 0
    BY <2>2, WorkerCount, Remainders DEF Init, NW
  <2> QED BY <2>2, <2>3 DEF Init, StatInv, StatsAccounted
<1>2. TypeOK /\ StatInv /\ [Next]_vars => StatInv'
  <2> SUFFICES ASSUME TypeOK, StatInv, [Next]_vars PROVE StatInv'
    OBVIOUS
  <2> USE MessageTypes, Fields
  <2>1. CASE ConsoleCollect
    BY <2>1, StatQuiet DEF ConsoleCollect, StartCollection
  <2>2. CASE ConsoleFlush
    BY <2>2, StatsOrdered DEF ConsoleFlush, statVars
  <2>3. ASSUME NEW w \in Worker,
               RecvWorkerStart(w) \/ RecvWorkerFinish(w) \/ RecvWorkerRequest(w)
        PROVE  StatInv'
    <3>1. UNCHANGED statVars
      BY <2>3 DEF RecvWorkerStart, RecvWorkerFinish, RecvWorkerRequest
    <3>2. \/ UNCHANGED toWorker
          \/ \E m \in Message : m.type # "DO_FLUSH" /\ toWorker' = SendAll(toWorker, Worker, m)
      BY <2>3 DEF RecvWorkerStart, RecvWorkerFinish, RecvWorkerRequest, StartCollection
    <3>3. \E t : t # "STAT" /\ Arrived(fromWorker, w, t) /\ fromWorker' = Receive(fromWorker, w)
      BY <2>3 DEF RecvWorkerStart, RecvWorkerFinish, RecvWorkerRequest
    <3> QED BY <3>1, <3>2, <3>3, StatQuiet
  <2>4. ASSUME NEW w \in Worker, RecvStat(w) PROVE StatInv'
    BY <2>4, StatRead
  <2>5. ASSUME NEW w \in Worker, WorkerStart(w) \/ WorkerFinish(w) PROVE StatInv'
    <3>1. UNCHANGED statVars
      BY <2>5 DEF WorkerStart, WorkerFinish
    <3>2. \E t : t # "DO_FLUSH" /\ Arrived(toWorker, w, t) /\ toWorker' = Receive(toWorker, w)
      BY <2>5 DEF WorkerStart, WorkerFinish
    <3>3. \E m \in Message : m.type # "STAT" /\ fromWorker' = Send(fromWorker, w, m)
      BY <2>5 DEF WorkerStart, WorkerFinish
    <3> QED BY <3>1, <3>2, <3>3, StatQuiet
  <2>6. ASSUME NEW w \in Worker, WorkerFlush(w) PROVE StatInv'
    BY <2>6, StatSent
  <2>7. ASSUME NEW w \in Worker, WorkerRequest(w) PROVE StatInv'
    <3>1. Request(wgen[w] + 1) \in Message /\ Request(wgen[w] + 1).type # "STAT"
      BY DEF TypeOK, WorkerTypeOK
    <3>2. fromWorker' = Send(fromWorker, w, Request(wgen[w] + 1)) /\ UNCHANGED <<statVars, toWorker>>
      BY <2>7 DEF WorkerRequest
    <3> QED BY <3>1, <3>2, StatQuiet
  <2>8. ASSUME NEW c \in Client, ControllerFromClient(c) PROVE StatInv'
    <3>1. CASE RecvClientFlush(c)
      BY <3>1, StatsOrdered DEF RecvClientFlush
    <3>2. CASE RecvRegister(c) \/ RecvClientCollect(c) \/ RecvClientFinish(c) \/ RecvClientEOF(c)
      <4>1. UNCHANGED <<statVars, fromWorker>>
        BY <3>2 DEF RecvRegister, RecvClientCollect, RecvClientFinish, RecvClientEOF
      <4>2. \/ UNCHANGED toWorker
            \/ \E m \in Message : m.type # "DO_FLUSH" /\ toWorker' = SendAll(toWorker, Worker, m)
        BY <3>2 DEF RecvRegister, RecvClientCollect, RecvClientFinish, RecvClientEOF,
                    StartCollection, ClientResponded
      <4> QED BY <4>1, <4>2, StatQuiet
    <3> QED BY <2>8, <3>1, <3>2 DEF ControllerFromClient
  <2>9. ASSUME NEW c \in Client, ClientReceive(c) \/ ClientCompute(c) \/ ClientCommand(c)
        PROVE  StatInv'
    <3>1. UNCHANGED <<statVars, toWorker, fromWorker>>
      BY <2>9 DEF ClientReceive, ClientCompute, ClientCommand, ClientAck, ClientGCStart,
                  ClientGCFinish, ClientFlushed, ClientStat, OpDone, Undefer, MarkDone,
                  ClientConnect, ClientLeave, OpStart, ClientCollect, ClientFlush, netVars
    <3> QED BY <3>1, StatQuiet
  <2>10. CASE UNCHANGED vars
    BY <2>10, StatQuiet DEF vars, netVars
  <2> QED BY <2>1, <2>2, <2>3, <2>4, <2>5, <2>6, <2>7, <2>8, <2>9, <2>10
          DEF Next, ControllerFromWorker, WorkerReceive
<1>3. StatInv => StatsAccounted
  BY DEF StatInv
<1> QED BY <1>1, <1>2, <1>3, TypeCorrect, PTL DEF Spec

-----------------------------------------------------------------------------
(***************************************************************************)
(* Proofs about a system that nobody flushes: the workers keep in step     *)
(* with the controller, and so do the clients.                             *)
(***************************************************************************)
USE DEF LastClient, DeadAnswers, LastWorker, EndRound, Honours, StatsComplete, DropOne

-----------------------------------------------------------------------------
(***************************************************************************)
(* Workers.                                                                *)
(***************************************************************************)

\* What SMT has to know of the short sequences of GCInvariant
LEMMA ShortSequences ==
  ASSUME NEW x \in Message, NEW y \in Message
  PROVE  /\ Append(<< >>, x) = <<x>> /\ Append(<<x>>, y) = <<x, y>>
         /\ Head(<<x>>) = x /\ Tail(<<x>>) = << >> /\ <<x>> # << >>
         /\ Head(<<x, y>>) = x /\ Tail(<<x, y>>) = <<y>> /\ <<x, y>> # << >>
  <1>1. Append(<< >>, x) = <<x>>
    OBVIOUS
  <1>2. Append(<<x>>, y) = <<x, y>>
    <2>1. Append(<<x>>, y) \in Seq(Message) /\ <<x, y>> \in Seq(Message)
      OBVIOUS
    <2>2. Len(Append(<<x>>, y)) = 2 /\ Len(<<x, y>>) = 2
      OBVIOUS
    <2>3. \A i \in 1..2 : Append(<<x>>, y)[i] = <<x, y>>[i]
      OBVIOUS
    <2> QED BY <2>1, <2>2, <2>3, SeqEqual
  <1>3. Head(<<x>>) = x /\ Tail(<<x>>) = << >> /\ <<x>> # << >>
    OBVIOUS
  <1>4. Head(<<x, y>>) = x /\ <<x, y>> # << >>
    OBVIOUS
  <1>5. Tail(<<x, y>>) = <<y>>
    <2>1. Tail(<<x, y>>) \in Seq(Message) /\ <<y>> \in Seq(Message)
      OBVIOUS
    <2>2. Len(Tail(<<x, y>>)) = 1 /\ Len(<<y>>) = 1
      OBVIOUS
    <2>3. \A i \in 1..1 : Tail(<<x, y>>)[i] = <<y>>[i]
      OBVIOUS
    <2> QED BY <2>1, <2>2, <2>3, SeqEqual
  <1> QED BY <1>1, <1>2, <1>3, <1>4, <1>5

WorkerView(v) == <<wstate[v], wgen[v], umgr[v], toWorker[v], fromWorker[v]>>

\* The stage of a worker depends on its own part of the state and the generation
LEMMA StageFrame ==
  ASSUME NEW v \in Worker, UNCHANGED <<WorkerView(v), gc_generation>>
  PROVE  /\ Idle(v) <=> Idle(v)'
         /\ Told(v) <=> Told(v)'
         /\ Reporting(v) <=> Reporting(v)'
         /\ Open(v) <=> Open(v)'
         /\ Sweeping(v) <=> Sweeping(v)'
         /\ Swept(v) <=> Swept(v)'
  BY DEF WorkerView, Idle, Told, Reporting, Open, Sweeping, Swept, Resting,
         Managing, Asked

LEMMA StagesExclude ==
  ASSUME NEW v \in Worker
  PROVE  /\ Sweeping(v) \/ Swept(v) => ~Idle(v)
         /\ (Sweeping(v) \/ Swept(v))' => ~Idle(v)'
  <1>1. Sweeping(v) \/ Swept(v) => ~Idle(v)
    BY ShortSequences, Fields DEF Sweeping, Swept, Idle, Resting, Managing, Asked
  <1>2. (Sweeping(v) \/ Swept(v))' => ~Idle(v)'
    BY ShortSequences, Fields DEF Sweeping, Swept, Idle, Resting, Managing, Asked
  <1> QED BY <1>1, <1>2

\* Counting the workers that have not been heard of
LEMMA CountOne ==
  ASSUME NEW S \in SUBSET Worker, NEW w \in S
  PROVE  /\ Cardinality(S \ {w}) = Cardinality(S) - 1
         /\ Cardinality(S) \in Nat
         /\ Cardinality(S) = 1 => S = {w}
  <1>1. IsFiniteSet(S)
    BY WorkersAssumption, FS_Subset
  <1>2. Cardinality(S) \in Nat /\ Cardinality(S \ {w}) = Cardinality(S) - 1
    BY <1>1, FS_CardinalityType, FS_RemoveElement
  <1>3. ASSUME Cardinality(S) = 1 PROVE S = {w}
    <2>1. Cardinality(S \ {w}) = 0 /\ IsFiniteSet(S \ {w})
      BY <1>1, <1>2, <1>3, FS_RemoveElement
    <2> QED
      BY <2>1, FS_EmptySet
  <1> QED BY <1>2, <1>3

\* All workers are told to begin
LEMMA RoundBegins ==
  ASSUME TypeOK, WorkersInStep, gc_state = "READY", StartCollection,
         UNCHANGED workerVars,
         NEW w \in Worker, fromWorker' \in {fromWorker, Receive(fromWorker, w)},
         fromWorker' # fromWorker => fromWorker[w] = <<Request(gc_generation + 1)>>
  PROVE  WorkersInStep'
  <1>1. ASSUME NEW v \in Worker PROVE Told(v)'
    <2>1. Idle(v)
      BY DEF WorkersInStep
    <2>2. toWorker'[v] = <<Msg("GC_START")>>
      BY <2>1, ShortSequences DEF Idle, StartCollection, SendAll, TypeOK, NetTypeOK
    <2>3. Request(gc_generation + 1) \in Message
      BY MessageTypes DEF TypeOK, ControllerTypeOK
    <2>4. Asked(v, << >>)'
      <3>1. CASE fromWorker'[v] = fromWorker[v]
        BY <2>1, <3>1 DEF Idle, Asked, workerVars
      <3>2. CASE fromWorker'[v] # fromWorker[v]
        <4>1. fromWorker'[v] = Tail(<<Request(gc_generation + 1)>>)
          BY <3>2 DEF Receive, TypeOK, NetTypeOK
        <4> QED
          BY <2>3, <4>1, ShortSequences DEF Asked
      <3> QED BY <3>1, <3>2
    <2>5. Resting(v, gc_generation - 1)'
      BY <2>1 DEF Idle, Resting, StartCollection, workerVars, TypeOK, ControllerTypeOK
    <2> QED
      BY <2>2, <2>4, <2>5 DEF Told
  <1>2. {v \in Worker : ~Open(v)'} = Worker
    BY <1>1 DEF Told, Open, Resting, Managing
  <1> QED
    BY <1>1, <1>2 DEF WorkersInStep, StartCollection

\* The controller reads a worker's first message: what it can be at each stage
LEMMA Readable ==
  ASSUME TypeOK, WorkersInStep, NEW w \in Worker, fromWorker[w] # << >>
  PROVE  \/ /\ gc_state = "WAIT_WORKER_START" /\ Reporting(w)
            /\ fromWorker[w] = <<Msg("GC_START")>>
         \/ /\ gc_state = "WAIT_WORKER_FINISH" /\ Swept(w)
            /\ Head(fromWorker[w]) = Msg("GC_FINISH")
         \/ /\ gc_state \in {"READY", "WAIT_WORKER_FINISH"} /\ Idle(w)
            /\ fromWorker[w] = <<Request(gc_generation + 1)>>
         \/ /\ gc_state = "WAIT_WORKER_START"
            /\ \/ Told(w) /\ fromWorker[w] = <<Request(gc_generation)>>
               \/ Reporting(w) /\ fromWorker[w] = <<Request(gc_generation), Msg("GC_START")>>
  <1>1. /\ Request(gc_generation + 1) \in Message /\ Request(gc_generation) \in Message
        /\ gc_generation \in Int
    BY MessageTypes DEF TypeOK, ControllerTypeOK
  <1>2. CASE Idle(w)
    <2>1. fromWorker[w] = <<Request(gc_generation + 1)>>
      BY <1>1, <1>2, ShortSequences DEF Idle, Asked, Resting
    <2> QED
      BY <1>2, <2>1 DEF WorkersInStep, Idle, Told, Reporting, Open, TypeOK, ControllerTypeOK,
                        Managing, Resting
  <1>3. CASE Told(w) /\ gc_state = "WAIT_WORKER_START"
    <2>1. wgen[w] + 1 = gc_generation
      BY <1>1, <1>3 DEF Told, Resting
    <2> QED
      BY <1>1, <1>3, <2>1, ShortSequences DEF Told, Asked
  <1>4. CASE Reporting(w) /\ gc_state = "WAIT_WORKER_START"
    BY <1>4 DEF Reporting
  <1>5. CASE Swept(w) /\ gc_state = "WAIT_WORKER_FINISH"
    <2>1. Head(fromWorker[w]) = Msg("GC_FINISH")
      BY <1>1, <1>5, ShortSequences, MessageTypes DEF Swept, Asked, Resting
    <2> QED
      BY <1>5, <2>1
  <1>6. ~Open(w) /\ ~Sweeping(w)
    BY DEF Open, Sweeping
  <1> QED
    BY <1>2, <1>3, <1>4, <1>5, <1>6 DEF WorkersInStep, TypeOK, ControllerTypeOK

\* The steps of one worker leave the others where they are
OthersKeep(w) == \A v \in Worker \ {w} : UNCHANGED WorkerView(v)

\* One more worker is heard of: the count goes down by one
LEMMA WorkerOpens ==
  ASSUME TypeOK, WorkersInStep, gc_state = "WAIT_WORKER_START",
         NEW w \in Worker, ~Open(w), Open(w)', OthersKeep(w), UNCHANGED gc_generation,
         need_worker_cnt' = need_worker_cnt - 1,
         gc_state' = IF need_worker_cnt = 1 THEN "WAIT_CLIENT" ELSE "WAIT_WORKER_START"
  PROVE  WorkersInStep'
  <1> DEFINE S == {v \in Worker : ~Open(v)}
  <1>1. \A v \in Worker \ {w} : /\ Told(v) <=> Told(v)'
                                /\ Reporting(v) <=> Reporting(v)'
                                /\ Open(v) <=> Open(v)'
    BY StageFrame DEF OthersKeep
  <1>2. {v \in Worker : ~Open(v)'} = S \ {w}
    BY <1>1
  <1>3. /\ Cardinality(S \ {w}) = need_worker_cnt - 1
        /\ need_worker_cnt = 1 => S = {w}
    BY CountOne DEF WorkersInStep
  <1>4. CASE need_worker_cnt = 1
    <2>1. \A v \in Worker : Open(v)'
      BY <1>2, <1>3, <1>4
    <2> QED
      BY <1>4, <2>1 DEF WorkersInStep
  <1>5. CASE need_worker_cnt # 1
    <2>1. \A v \in Worker : (Told(v) \/ Reporting(v) \/ Open(v))'
      BY <1>1 DEF WorkersInStep
    <2> QED
      BY <1>5, <2>1, <1>2, <1>3 DEF WorkersInStep
  <1> QED BY <1>4, <1>5

LEMMA WorkerRests ==
  ASSUME TypeOK, WorkersInStep, gc_state = "WAIT_WORKER_FINISH",
         NEW w \in Worker, ~Idle(w), Idle(w)', OthersKeep(w), UNCHANGED gc_generation,
         need_worker_cnt' = need_worker_cnt - 1,
         gc_state' = IF need_worker_cnt = 1 THEN "READY" ELSE "WAIT_WORKER_FINISH"
  PROVE  WorkersInStep'
  <1> DEFINE S == {v \in Worker : ~Idle(v)}
  <1>1. \A v \in Worker \ {w} : /\ Sweeping(v) <=> Sweeping(v)'
                                /\ Swept(v) <=> Swept(v)'
                                /\ Idle(v) <=> Idle(v)'
    BY StageFrame DEF OthersKeep
  <1>2. {v \in Worker : ~Idle(v)'} = S \ {w}
    BY <1>1
  <1>3. /\ Cardinality(S \ {w}) = need_worker_cnt - 1
        /\ need_worker_cnt = 1 => S = {w}
    BY CountOne DEF WorkersInStep
  <1>4. CASE need_worker_cnt = 1
    <2>1. \A v \in Worker : Idle(v)'
      BY <1>2, <1>3, <1>4
    <2> QED
      BY <1>4, <2>1 DEF WorkersInStep
  <1>5. CASE need_worker_cnt # 1
    <2>1. \A v \in Worker : (Sweeping(v) \/ Swept(v) \/ Idle(v))'
      BY <1>1 DEF WorkersInStep
    <2> QED
      BY <1>5, <2>1, <1>2, <1>3 DEF WorkersInStep
  <1> QED BY <1>4, <1>5

\* A worker moves on, but not to or from the stage that is counted
LEMMA WorkerMoves ==
  ASSUME TypeOK, WorkersInStep, NEW w \in Worker, OthersKeep(w),
         UNCHANGED <<gc_state, gc_generation, need_worker_cnt>>,
         Idle(w) => Idle(w)',
         Told(w) => (Told(w) \/ Reporting(w))',
         Reporting(w) => Reporting(w)',
         Open(w) => Open(w)',
         Sweeping(w) => (Sweeping(w) \/ Swept(w))',
         Swept(w) => Swept(w)'
  PROVE  WorkersInStep'
  <1>1. \A v \in Worker \ {w} : /\ Told(v) <=> Told(v)'
                                /\ Reporting(v) <=> Reporting(v)'
                                /\ Open(v) <=> Open(v)'
                                /\ Sweeping(v) <=> Sweeping(v)'
                                /\ Swept(v) <=> Swept(v)'
                                /\ Idle(v) <=> Idle(v)'
    BY StageFrame DEF OthersKeep
  <1>2. ASSUME gc_state = "WAIT_WORKER_START" PROVE WorkersInStep'
    <2>1. \A v \in Worker : (Told(v) \/ Reporting(v) \/ Open(v))'
      BY <1>1, <1>2 DEF WorkersInStep
    <2>2. Open(w) <=> Open(w)'
      BY <1>2, StagesExclude DEF WorkersInStep, Told, Reporting, Open, Resting, Managing
    <2>3. {v \in Worker : ~Open(v)'} = {v \in Worker : ~Open(v)}
      BY <1>1, <2>2
    <2> QED BY <1>2, <2>1, <2>3 DEF WorkersInStep
  <1>3. ASSUME gc_state = "WAIT_WORKER_FINISH" PROVE WorkersInStep'
    <2>1. \A v \in Worker : (Sweeping(v) \/ Swept(v) \/ Idle(v))'
      BY <1>1, <1>3 DEF WorkersInStep
    <2>2. Idle(w) <=> Idle(w)'
      BY <1>3, StagesExclude DEF WorkersInStep
    <2>3. {v \in Worker : ~Idle(v)'} = {v \in Worker : ~Idle(v)}
      BY <1>1, <2>2
    <2> QED BY <1>3, <2>1, <2>3 DEF WorkersInStep
  <1>4. CASE gc_state \in {"READY", "WAIT_CLIENT"}
    BY <1>1, <1>4 DEF WorkersInStep
  <1> QED BY <1>2, <1>3, <1>4 DEF TypeOK, ControllerTypeOK

-----------------------------------------------------------------------------
(***************************************************************************)
(* WorkersInStep is inductive, action by action.                           *)
(***************************************************************************)
LEMMA StartRead ==
  ASSUME TypeOK, WorkersInStep, NEW w \in Worker, RecvWorkerStart(w)
  PROVE  WorkersInStep'
  <1>1. /\ gc_state = "WAIT_WORKER_START" /\ Reporting(w)
        /\ fromWorker[w] = <<Msg("GC_START")>>
    BY Readable, ShortSequences, MessageTypes, Fields
    DEF RecvWorkerStart, Arrived, TypeOK, ControllerTypeOK
  <1>2. fromWorker'[w] = << >> /\ OthersKeep(w) /\ UNCHANGED <<workerVars, toWorker>>
    BY <1>1, ShortSequences, MessageTypes
    DEF RecvWorkerStart, Receive, OthersKeep, WorkerView, workerVars, TypeOK, NetTypeOK
  <1>3. Open(w)' /\ ~Open(w)
    BY <1>1, <1>2 DEF RecvWorkerStart, Reporting, Open, Managing, workerVars
  <1> QED
    BY <1>1, <1>2, <1>3, WorkerOpens DEF RecvWorkerStart

LEMMA FinishRead ==
  ASSUME TypeOK, WorkersInStep, NEW w \in Worker, RecvWorkerFinish(w)
  PROVE  WorkersInStep'
  <1>1. gc_state = "WAIT_WORKER_FINISH" /\ Swept(w)
    BY Readable, ShortSequences, MessageTypes, Fields
    DEF RecvWorkerFinish, Arrived, TypeOK, ControllerTypeOK
  <1>2. OthersKeep(w) /\ UNCHANGED <<workerVars, toWorker, gc_generation>>
    BY DEF RecvWorkerFinish, Receive, OthersKeep, WorkerView, workerVars, TypeOK, NetTypeOK
  <1>3. Asked(w, << >>)'
    <2>1. Request(wgen[w] + 1) \in Message
      BY MessageTypes DEF TypeOK, WorkerTypeOK
    <2>2. fromWorker'[w] = Tail(fromWorker[w])
      BY DEF RecvWorkerFinish, Receive, TypeOK, NetTypeOK
    <2>3. CASE fromWorker[w] = <<Msg("GC_FINISH")>>
      BY <2>2, <2>3, ShortSequences, MessageTypes DEF Asked
    <2>4. CASE /\ wstate[w] = "REQUESTED"
               /\ fromWorker[w] = Append(<<Msg("GC_FINISH")>>, Request(wgen[w] + 1))
      <3>1. fromWorker'[w] = <<Request(wgen[w] + 1)>>
        <4>1. /\ Append(<<Msg("GC_FINISH")>>, Request(wgen[w] + 1))
                   = <<Msg("GC_FINISH"), Request(wgen[w] + 1)>>
              /\ Tail(<<Msg("GC_FINISH"), Request(wgen[w] + 1)>>) = <<Request(wgen[w] + 1)>>
          BY <2>1, ShortSequences, MessageTypes
        <4> QED
          BY <2>2, <2>4, <4>1
      <3>2. Append(<< >>, Request(wgen[w] + 1)) = <<Request(wgen[w] + 1)>>
        BY <2>1, ShortSequences
      <3> QED
        BY <1>2, <2>4, <3>1, <3>2 DEF Asked, workerVars
    <2> QED
      BY <1>1, <2>3, <2>4 DEF Swept, Asked
  <1>4. Idle(w)' /\ ~Idle(w)
    BY <1>1, <1>2, <1>3, StagesExclude DEF Swept, Idle, Resting, workerVars
  <1> QED
    BY <1>1, <1>2, <1>4, WorkerRests DEF RecvWorkerFinish

LEMMA RequestRead ==
  ASSUME TypeOK, WorkersInStep, NEW w \in Worker, RecvWorkerRequest(w)
  PROVE  WorkersInStep'
  <1>1. /\ Request(gc_generation + 1) \in Message /\ Request(gc_generation) \in Message
        /\ gc_generation \in Nat
    BY MessageTypes DEF TypeOK, ControllerTypeOK
  <1>2. CASE gc_state = "READY"
    <2>1. fromWorker[w] = <<Request(gc_generation + 1)>>
      BY <1>2, Readable DEF RecvWorkerRequest, Arrived
    <2>2. Head(fromWorker[w]).gen = gc_generation + 1
      BY <1>1, <2>1, ShortSequences, Fields
    <2> QED
      BY <1>2, <2>1, <2>2, RoundBegins DEF RecvWorkerRequest
  <1>3. CASE gc_state # "READY"
    <2>1. UNCHANGED <<ctlVars, workerVars, toWorker>>
      BY <1>3 DEF RecvWorkerRequest
    <2>2. OthersKeep(w) /\ fromWorker'[w] = Tail(fromWorker[w])
      BY <2>1 DEF RecvWorkerRequest, Receive, OthersKeep, WorkerView, workerVars, TypeOK,
                  NetTypeOK
    <2>3. \/ Idle(w) /\ fromWorker[w] = <<Request(gc_generation + 1)>>
          \/ Told(w) /\ fromWorker[w] = <<Request(gc_generation)>>
          \/ Reporting(w) /\ fromWorker[w] = <<Request(gc_generation), Msg("GC_START")>>
      <3>1. Head(fromWorker[w]).type = "GC_REQUEST"
        BY DEF RecvWorkerRequest, Arrived
      <3>2. Head(<<Msg("GC_START")>>).type = "GC_START" /\ Msg("GC_FINISH").type = "GC_FINISH"
        BY ShortSequences, MessageTypes, Fields
      <3> QED
        BY <1>3, <3>1, <3>2, Readable DEF RecvWorkerRequest, Arrived
    <2>4. CASE Idle(w) /\ fromWorker[w] = <<Request(gc_generation + 1)>>
      <3>1. fromWorker'[w] = << >>
        BY <1>1, <2>2, <2>4, ShortSequences
      <3>2. Idle(w)'
        BY <2>1, <2>4, <3>1 DEF Idle, Resting, Asked, ctlVars, workerVars
      <3>3. ~Told(w) /\ ~Reporting(w) /\ ~Open(w) /\ ~Sweeping(w) /\ ~Swept(w)
        BY <2>4, StagesExclude DEF Idle, Told, Reporting, Open, Resting, Managing
      <3> QED
        BY <2>1, <2>2, <3>2, <3>3, WorkerMoves DEF ctlVars
    <2>5. CASE Told(w) /\ fromWorker[w] = <<Request(gc_generation)>>
      <3>1. fromWorker'[w] = << >>
        BY <1>1, <2>2, <2>5, ShortSequences
      <3>2. Told(w)'
        BY <2>1, <2>5, <3>1 DEF Told, Resting, Asked, ctlVars, workerVars
      <3>3. ~Idle(w) /\ ~Reporting(w) /\ ~Open(w) /\ ~Sweeping(w) /\ ~Swept(w)
        BY <2>5 DEF Idle, Told, Reporting, Open, Sweeping, Swept, Resting, Managing
      <3> QED
        BY <2>1, <2>2, <3>2, <3>3, WorkerMoves DEF ctlVars
    <2>6. CASE /\ Reporting(w)
               /\ fromWorker[w] = <<Request(gc_generation), Msg("GC_START")>>
      <3>1. fromWorker'[w] = <<Msg("GC_START")>>
        BY <1>1, <2>2, <2>6, ShortSequences, MessageTypes
      <3>2. Reporting(w)'
        BY <2>1, <2>6, <3>1 DEF Reporting, Managing, ctlVars, workerVars
      <3>3. ~Idle(w) /\ ~Told(w) /\ ~Open(w) /\ ~Sweeping(w) /\ ~Swept(w)
        BY <2>6 DEF Idle, Told, Reporting, Open, Sweeping, Swept, Resting, Managing
      <3> QED
        BY <2>1, <2>2, <3>2, <3>3, WorkerMoves DEF ctlVars
    <2> QED BY <2>3, <2>4, <2>5, <2>6
  <1> QED BY <1>2, <1>3

LEMMA StartTaken ==
  ASSUME TypeOK, WorkersInStep, NEW w \in Worker, WorkerStart(w)
  PROVE  WorkersInStep'
  <1>1. gc_state = "WAIT_WORKER_START" /\ Told(w)
    BY ShortSequences, MessageTypes, Fields
    DEF WorkerStart, Arrived, WorkersInStep, Idle, Told, Reporting, Open, Sweeping, Swept,
        TypeOK, ControllerTypeOK
  <1>2. OthersKeep(w) /\ UNCHANGED ctlVars
    BY DEF WorkerStart, Receive, Send, OthersKeep, WorkerView, TypeOK, WorkerTypeOK, NetTypeOK
  <1>3. toWorker'[w] = << >>
    BY <1>1, ShortSequences, MessageTypes DEF WorkerStart, Receive, Told, TypeOK, NetTypeOK
  <1>4. fromWorker'[w] \in {<<Msg("GC_START")>>, <<Request(gc_generation), Msg("GC_START")>>}
    <2>1. Request(gc_generation) \in Message /\ wgen[w] + 1 = gc_generation
      BY <1>1, MessageTypes DEF TypeOK, ControllerTypeOK, Told, Resting
    <2>2. fromWorker'[w] = Append(fromWorker[w], Msg("GC_START"))
      BY DEF WorkerStart, Send, TypeOK, NetTypeOK
    <2>3. /\ Append(<< >>, Msg("GC_START")) = <<Msg("GC_START")>>
          /\ Append(<< >>, Request(gc_generation)) = <<Request(gc_generation)>>
          /\ Append(<<Request(gc_generation)>>, Msg("GC_START"))
               = <<Request(gc_generation), Msg("GC_START")>>
      BY <2>1, ShortSequences, MessageTypes
    <2> QED
      BY <1>1, <2>1, <2>2, <2>3 DEF Told, Asked
  <1>5. Managing(w, gc_generation)'
    BY <1>1, <1>2 DEF WorkerStart, Told, Resting, Managing, TypeOK, WorkerTypeOK, ctlVars
  <1>6. Reporting(w)'
    BY <1>2, <1>3, <1>4, <1>5 DEF Reporting, ctlVars
  <1>7. ~Idle(w) /\ ~Reporting(w) /\ ~Open(w) /\ ~Sweeping(w) /\ ~Swept(w)
    BY <1>1 DEF Idle, Told, Reporting, Open, Sweeping, Swept, Resting, Managing
  <1> QED
    BY <1>2, <1>6, <1>7, WorkerMoves DEF ctlVars

LEMMA FinishTaken ==
  ASSUME TypeOK, WorkersInStep, NEW w \in Worker, WorkerFinish(w)
  PROVE  WorkersInStep' /\ Sweeping(w) /\ gc_state = "WAIT_WORKER_FINISH"
  <1>1. Sweeping(w) /\ gc_state = "WAIT_WORKER_FINISH"
    BY ShortSequences, MessageTypes, Fields
    DEF WorkerFinish, Arrived, WorkersInStep, Idle, Told, Reporting, Open, Sweeping, Swept,
        TypeOK, ControllerTypeOK
  <1>2. OthersKeep(w) /\ UNCHANGED ctlVars
    BY DEF WorkerFinish, Receive, Send, OthersKeep, WorkerView, TypeOK, WorkerTypeOK, NetTypeOK
  <1>3. toWorker'[w] = << >>
    BY <1>1, ShortSequences, MessageTypes
    DEF WorkerFinish, Receive, Sweeping, TypeOK, NetTypeOK
  <1>4. Asked(w, <<Msg("GC_FINISH")>>)'
    BY <1>1, ShortSequences, MessageTypes
    DEF WorkerFinish, Send, Sweeping, Asked, TypeOK, NetTypeOK
  <1>5. Resting(w, gc_generation)'
    BY <1>1, <1>2 DEF WorkerFinish, Sweeping, Resting, Managing, TypeOK, WorkerTypeOK,
                      ControllerTypeOK, ctlVars
  <1>6. Swept(w)'
    BY <1>3, <1>4, <1>5 DEF Swept
  <1>7. ~Idle(w) /\ ~Told(w) /\ ~Reporting(w) /\ ~Open(w) /\ ~Swept(w)
    BY <1>1 DEF Idle, Told, Reporting, Open, Sweeping, Swept, Resting, Managing
  <1> QED
    BY <1>1, <1>2, <1>6, <1>7, WorkerMoves DEF ctlVars

LEMMA RequestMade ==
  ASSUME TypeOK, WorkersInStep, NEW w \in Worker, WorkerRequest(w)
  PROVE  WorkersInStep'
  <1>1. OthersKeep(w) /\ UNCHANGED ctlVars
    BY DEF WorkerRequest, Send, OthersKeep, WorkerView, TypeOK, WorkerTypeOK, NetTypeOK
  <1>2. /\ wstate'[w] = "REQUESTED"
        /\ fromWorker'[w] = Append(fromWorker[w], Request(wgen[w] + 1))
        /\ UNCHANGED <<wgen, umgr, toWorker, gc_generation>>
    BY DEF WorkerRequest, Send, TypeOK, WorkerTypeOK, NetTypeOK, ctlVars
  <1>3. ASSUME NEW before, Asked(w, before) PROVE Asked(w, before)'
    BY <1>2, <1>3 DEF Asked, WorkerRequest
  <1>4. ASSUME NEW g, Resting(w, g) PROVE Resting(w, g)'
    BY <1>2, <1>4 DEF Resting
  <1>5. Idle(w) => Idle(w)'
    BY <1>2, <1>3, <1>4 DEF Idle, Resting
  <1>6. Told(w) => Told(w)'
    BY <1>2, <1>3, <1>4 DEF Told, Resting
  <1>7. Swept(w) => Swept(w)'
    BY <1>2, <1>3, <1>4 DEF Swept, Resting
  <1>8. ~Reporting(w) /\ ~Open(w) /\ ~Sweeping(w)
    BY DEF WorkerRequest, Reporting, Open, Sweeping, Managing
  <1> QED
    BY <1>1, <1>5, <1>6, <1>7, <1>8, WorkerMoves DEF ctlVars

\* The last client answers: all workers are told to sweep
LEMMA SweepOrdered ==
  ASSUME TypeOK, WorkersInStep, gc_state = "WAIT_CLIENT", NEW c \in Client,
         ClientResponded(c), UNCHANGED <<gc_generation, workerVars, fromWorker>>
  PROVE  WorkersInStep'
  <1>1. \A w \in Worker : Open(w)
    BY DEF WorkersInStep
  <1>2. CASE need_client_fd_set = {c}
    <2>1. ASSUME NEW w \in Worker PROVE Sweeping(w)'
      <3>1. toWorker'[w] = <<Msg("GC_FINISH")>>
        BY <1>1, <1>2, ShortSequences, MessageTypes
        DEF ClientResponded, SendAll, Open, TypeOK, NetTypeOK
      <3> QED
        BY <1>1, <3>1 DEF Sweeping, Open, Managing, workerVars
    <2>2. {w \in Worker : ~Idle(w)'} = Worker
      BY <2>1, StagesExclude
    <2> QED
      BY <1>2, <2>1, <2>2 DEF WorkersInStep, ClientResponded
  <1>3. CASE need_client_fd_set # {c}
    <2>1. \A w \in Worker : Open(w)'
      BY <1>1, <1>3 DEF ClientResponded, Open, Managing, workerVars
    <2> QED
      BY <1>3, <2>1 DEF WorkersInStep, ClientResponded
  <1> QED BY <1>2, <1>3

LEMMA WorkersInStepFrame ==
  ASSUME WorkersInStep,
         UNCHANGED <<gc_state, gc_generation, need_worker_cnt, workerVars, toWorker, fromWorker>>
  PROVE  WorkersInStep'
  BY DEF WorkersInStep, workerVars, Idle, Told, Reporting, Open, Sweeping, Swept, Resting,
         Managing, Asked

-----------------------------------------------------------------------------
(***************************************************************************)
(* Clients.  What a client owes only shrinks, except where a round hands   *)
(* the duty out or the client passes it on.                                *)
(***************************************************************************)
ShrinksTo(d) ==
  /\ Ordered(d)' => Ordered(d)
  /\ Once(Msg("GC_START"), toClient[d]) => Once(Msg("GC_START"), toClient'[d])
ShrinksFrom(d) ==
  /\ Answered(d)' => Answered(d)
  /\ Once(Msg("GC_FINISH"), fromClient[d]) => Once(Msg("GC_FINISH"), fromClient'[d])
ShrinksHere(d) ==
  /\ Deferred(d)' => Deferred(d)
  /\ Marking(d)' => Marking(d) /\ marking'[d] = marking[d]
Shrinks(d) == ShrinksTo(d) /\ ShrinksFrom(d) /\ ShrinksHere(d)

Duty == OneDuty /\ DutyAwaited

LEMMA ShrunkDuty ==
  ASSUME NEW d \in Client, OneDutyOf(d), Shrinks(d)
  PROVE  OneDutyOf(d)' /\ (Owes(d)' => Owes(d))
  BY DEF OneDutyOf, Owes, Shrinks, ShrinksTo, ShrinksFrom, ShrinksHere

\* Nobody owes anything outside of WAIT_CLIENT
LEMMA NoDuty ==
  ASSUME Duty, gc_state # "WAIT_CLIENT", NEW d \in Client
  PROVE  ~Owes(d)
  BY DEF Duty, DutyAwaited

LEMMA DutyKept ==
  ASSUME Duty, \A d \in Client : Shrinks(d),
         gc_state = "WAIT_CLIENT" => UNCHANGED <<gc_state, need_client_fd_set>>
  PROVE  Duty'
  <1>1. \A d \in Client : OneDutyOf(d)' /\ (Owes(d)' => Owes(d))
    BY ShrunkDuty DEF Duty, OneDuty
  <1> QED
    BY <1>1 DEF Duty, OneDuty, DutyAwaited

\* One client passes its duty on
LEMMA DutyPassed ==
  ASSUME Duty, NEW c \in Client, \A d \in Client \ {c} : Shrinks(d),
         OneDutyOf(c)', Owes(c)' => Owes(c), UNCHANGED <<gc_state, need_client_fd_set>>
  PROVE  Duty'
  <1>1. \A d \in Client \ {c} : OneDutyOf(d)' /\ (Owes(d)' => Owes(d))
    BY ShrunkDuty DEF Duty, OneDuty
  <1> QED
    BY <1>1 DEF Duty, OneDuty, DutyAwaited

\* One client is done with its duty
LEMMA DutyDone ==
  ASSUME Duty, TypeOK, NEW c \in Client, \A d \in Client : Shrinks(d),
         ~Owes(c)', c \in need_client_fd_set, ClientResponded(c)
  PROVE  Duty'
  <1>1. \A d \in Client : OneDutyOf(d)' /\ (Owes(d)' => Owes(d))
    BY ShrunkDuty DEF Duty, OneDuty
  <1>2. ASSUME NEW d \in Client, Owes(d)'
        PROVE  gc_state' = "WAIT_CLIENT" /\ d \in need_client_fd_set'
    <2>1. d # c /\ d \in need_client_fd_set /\ gc_state = "WAIT_CLIENT"
      BY <1>1, <1>2 DEF Duty, DutyAwaited
    <2> QED BY <2>1 DEF ClientResponded
  <1> QED
    BY <1>1, <1>2 DEF Duty, OneDuty, DutyAwaited

LEMMA ShrinkFrame ==
  ASSUME NEW d \in Client
  PROVE  /\ UNCHANGED toClient[d] => ShrinksTo(d)
         /\ UNCHANGED fromClient[d] => ShrinksFrom(d)
         /\ UNCHANGED <<cstate[d], marking[d]>> => ShrinksHere(d)
  BY DEF ShrinksTo, ShrinksFrom, ShrinksHere, Ordered, Answered, Deferred, Marking

LEMMA ShrinkRead ==
  ASSUME NetTypeOK, NEW c \in Client, fromClient[c] # << >>,
         fromClient' = Receive(fromClient, c)
  PROVE  /\ \A d \in Client : ShrinksFrom(d)
         /\ /\ Head(fromClient[c]) = Msg("GC_FINISH")
            /\ Once(Msg("GC_FINISH"), fromClient[c])
            => ~Answered(c)'
  <1>1. fromClient[c] \in Seq(Message) /\ fromClient'[c] = Tail(fromClient[c])
        /\ \A d \in Client \ {c} : UNCHANGED fromClient[d]
    BY DEF NetTypeOK, Receive
  <1> QED
    BY <1>1, AfterTail, MessageTypes, ShrinkFrame DEF ShrinksFrom, Answered

LEMMA ShrinkTold ==
  ASSUME NetTypeOK, NEW c \in Client, toClient[c] # << >>, toClient' = Receive(toClient, c)
  PROVE  /\ \A d \in Client : ShrinksTo(d)
         /\ Head(toClient[c]) = Msg("GC_START") => Ordered(c)
         /\ /\ Head(toClient[c]) = Msg("GC_START")
            /\ Once(Msg("GC_START"), toClient[c])
            => ~Ordered(c)'
  <1>1. toClient[c] \in Seq(Message) /\ toClient'[c] = Tail(toClient[c])
        /\ \A d \in Client \ {c} : UNCHANGED toClient[d]
    BY DEF NetTypeOK, Receive
  <1> QED
    BY <1>1, AfterTail, MessageTypes, ShrinkFrame DEF ShrinksTo, Ordered

LEMMA ShrinkWrite ==
  ASSUME NetTypeOK, NEW c \in Client, NEW m \in Message, fromClient' = Send(fromClient, c, m)
  PROVE  /\ \A d \in Client \ {c} : ShrinksFrom(d)
         /\ m # Msg("GC_FINISH") => ShrinksFrom(c)
         /\ m = Msg("GC_FINISH") /\ ~Answered(c) => Once(Msg("GC_FINISH"), fromClient'[c])
  <1>1. fromClient[c] \in Seq(Message) /\ fromClient'[c] = Append(fromClient[c], m)
        /\ \A d \in Client \ {c} : UNCHANGED fromClient[d]
    BY DEF NetTypeOK, Send
  <1>2. m # Msg("GC_FINISH") => ShrinksFrom(c)
    BY <1>1, AfterAppend, MessageTypes DEF ShrinksFrom, Answered
  <1>3. m = Msg("GC_FINISH") /\ ~Answered(c) => Once(Msg("GC_FINISH"), fromClient'[c])
    <2>1. Once(m, fromClient[c]) \/ InTransit(m, fromClient[c])
      BY DEF Once, InTransit
    <2> QED BY <1>1, <2>1, AfterAppend DEF Answered
  <1> QED
    BY <1>1, <1>2, <1>3, ShrinkFrame

LEMMA ShrinkSend ==
  ASSUME NetTypeOK, NEW X, NEW m \in Message \ {Msg("GC_START")},
         toClient' = SendAll(toClient, X, m), NEW d \in Client
  PROVE  ShrinksTo(d)
  <1>1. toClient[d] \in Seq(Message)
        /\ toClient'[d] = IF d \in X THEN Append(toClient[d], m) ELSE toClient[d]
    BY SentTo DEF NetTypeOK
  <1> QED
    BY <1>1, AfterAppend, MessageTypes, ShrinkFrame DEF ShrinksTo, Ordered

LEMMA DutyHandedOut ==
  ASSUME TypeOK, Duty, NEW w \in Worker, RecvWorkerStart(w)
  PROVE  Duty'
  <1> USE DEF RecvWorkerStart
  <1>1. \A d \in Client : UNCHANGED <<cstate[d], marking[d], fromClient[d]>>
    BY DEF clientVars
  <1>2. CASE UNCHANGED <<toClient, need_client_fd_set, gc_state>>
    BY <1>1, <1>2, ShrinkFrame, DutyKept DEF Shrinks
  <1>3. CASE /\ gc_state = "WAIT_WORKER_START" /\ gc_state' = "WAIT_CLIENT"
             /\ toClient' = SendAll(toClient, Listening(client_fd_set), Msg("GC_START"))
             /\ need_client_fd_set' = client_fd_set
    <2> SUFFICES ASSUME NEW d \in Client
                 PROVE  OneDutyOf(d)' /\ (Owes(d)' => d \in client_fd_set)
      BY <1>3 DEF Duty, OneDuty, DutyAwaited
    <2>1. ~Owes(d) /\ OneDutyOf(d)
      BY <1>3, NoDuty DEF Duty, OneDuty
    <2>2. toClient[d] \in Seq(Message)
          /\ toClient'[d] = IF d \in Listening(client_fd_set)
                             THEN Append(toClient[d], Msg("GC_START")) ELSE toClient[d]
      BY <1>3, SentTo, MessageTypes DEF TypeOK, NetTypeOK
    <2>3. /\ Ordered(d)' => d \in client_fd_set
          /\ Once(Msg("GC_START"), toClient'[d])
      BY <2>1, <2>2, AfterAppend, MessageTypes DEF Owes, Ordered, OneDutyOf, Listening
    <2>4. ~Deferred(d)' /\ ~Marking(d)' /\ ~Answered(d)'
          /\ Once(Msg("GC_FINISH"), fromClient'[d])
      BY <1>1, <2>1 DEF Owes, Deferred, Marking, Answered, OneDutyOf
    <2> QED BY <2>3, <2>4 DEF OneDutyOf, Owes
  <1> QED BY <1>2, <1>3

LEMMA DutyAnswerRead ==
  ASSUME TypeOK, Duty, NEW c \in Client, RecvClientFinish(c)
  PROVE  Duty' /\ gc_state = "WAIT_CLIENT" /\ c \in need_client_fd_set
  <1>1. /\ NetTypeOK /\ fromClient[c] # << >> /\ fromClient[c] \in Seq(Message)
        /\ Head(fromClient[c]) = Msg("GC_FINISH") /\ fromClient' = Receive(fromClient, c)
    BY PlainFromClient DEF RecvClientFinish, TypeOK, NetTypeOK
  <1>2. Answered(c) /\ OneDutyOf(c)
    BY <1>1, AfterTail DEF Answered, Duty, OneDuty
  <1>3. gc_state = "WAIT_CLIENT" /\ c \in need_client_fd_set
    BY <1>2 DEF Duty, DutyAwaited, Owes
  <1>4. \A d \in Client : Shrinks(d)
    BY <1>1, ShrinkRead, ShrinkFrame DEF Shrinks, RecvClientFinish, clientVars
  <1>5. ~Owes(c)'
    <2>1. ~Answered(c)'
      BY <1>1, <1>2, ShrinkRead DEF OneDutyOf
    <2>2. ~Ordered(c) /\ ~Deferred(c) /\ ~Marking(c)
      BY <1>2 DEF OneDutyOf
    <2> QED BY <1>4, <2>1, <2>2 DEF Owes, Shrinks, ShrinksTo, ShrinksHere
  <1> QED BY <1>3, <1>4, <1>5, DutyDone DEF RecvClientFinish

LEMMA DutyOfTheDead ==
  ASSUME TypeOK, Lives, Duty, NEW c \in Client, RecvClientEOF(c)
  PROVE  Duty'
  <1>1. /\ NetTypeOK /\ Life(c) /\ fromClient[c] # << >>
        /\ Head(fromClient[c]) = Msg("EOF") /\ fromClient' = Receive(fromClient, c)
        /\ UNCHANGED <<clientVars, toClient>>
    BY PlainFromClient DEF RecvClientEOF, TypeOK, Lives
  <1>2. \A d \in Client : Shrinks(d)
    BY <1>1, ShrinkRead, ShrinkFrame DEF Shrinks, clientVars
  <1>3. conn[c] = "gone" /\ fromClient'[c] = << >>
    BY <1>1, LifeRead DEF clientVars
  <1>4. ~Owes(c)'
    BY <1>1, <1>3 DEF Life, Owes, Ordered, Deferred, Marking, Answered, InTransit, clientVars
  <1>5. CASE c \in need_client_fd_set
    BY <1>2, <1>4, <1>5, DutyDone DEF RecvClientEOF
  <1>6. CASE c \notin need_client_fd_set
    BY <1>2, <1>6, DutyKept DEF RecvClientEOF
  <1> QED BY <1>5, <1>6

LEMMA DutyTaken ==
  ASSUME TypeOK, Lives, Duty, NEW c \in Client, ClientReceive(c)
  PROVE  Duty'
  <1>1. /\ NetTypeOK /\ toClient[c] # << >> /\ toClient' = Receive(toClient, c)
        /\ UNCHANGED <<fromClient, gc_state, need_client_fd_set>>
    BY DEF ClientReceive, ClientAck, ClientGCStart, ClientGCFinish, ClientFlushed, ClientStat,
           Arrived, TypeOK, ctlVars
  <1>2. \A d \in Client : ShrinksTo(d) /\ ShrinksFrom(d)
    BY <1>1, ShrinkTold, ShrinkFrame
  <1>3. CASE ClientAck(c) \/ ClientFlushed(c) \/ ClientStat(c)
    BY <1>1, <1>2, <1>3, ShrinkFrame, DutyKept
    DEF Shrinks, ClientAck, ClientFlushed, ClientStat, clientVars
  <1>4. CASE ClientGCFinish(c)
    <2>1. \A d \in Client : ShrinksHere(d)
      BY <1>4 DEF ClientGCFinish, ShrinksHere, Deferred, Marking, TypeOK, ClientTypeOK
    <2> QED BY <1>1, <1>2, <2>1, DutyKept DEF Shrinks
  <1>5. CASE ClientGCStart(c)
    <2>1. \A d \in Client \ {c} : Shrinks(d)
      BY <1>2, <1>5, ShrinkFrame DEF ClientGCStart, Shrinks, TypeOK, ClientTypeOK
    <2>2. Ordered(c) /\ ~Ordered(c)' /\ OneDutyOf(c)
      <3>1. Head(toClient[c]) = Msg("GC_START") /\ OneDutyOf(c)
        BY <1>1, <1>5, PlainToClient DEF ClientGCStart, Duty, OneDuty
      <3> QED BY <1>1, <3>1, ShrinkTold DEF OneDutyOf
    <2>3. ~Deferred(c) /\ marking[c] = 0 /\ ~Answered(c) /\ ~Answered(c)'
      BY <1>1, <2>2 DEF OneDutyOf, Marking, Answered, TypeOK, ClientTypeOK
    <2>4. \/ Deferred(c)' /\ marking'[c] = 0
          \/ ~Deferred(c)' /\ marking'[c] = 1
      BY <1>5, <2>3 DEF ClientGCStart, Deferred, TypeOK, ClientTypeOK
    <2>5. OneDutyOf(c)' /\ Owes(c)
      BY <1>2, <2>2, <2>3, <2>4 DEF OneDutyOf, Owes, Marking, ShrinksTo, ShrinksFrom
    <2> QED BY <1>1, <2>1, <2>5, DutyPassed
  <1> QED BY <1>3, <1>4, <1>5 DEF ClientReceive

LEMMA DutyComputed ==
  ASSUME TypeOK, Duty, NEW c \in Client, ClientCompute(c)
  PROVE  Duty'
  <1>1. /\ UNCHANGED <<toClient, gc_state, need_client_fd_set>> /\ NetTypeOK /\ OneDutyOf(c)
        /\ \A d \in Client \ {c} : UNCHANGED <<cstate[d], marking[d]>>
    BY DEF ClientCompute, OpDone, Undefer, MarkDone, ctlVars, netVars, TypeOK, ClientTypeOK,
           Duty, OneDuty
  <1>2. CASE OpDone(c)
    BY <1>1, <1>2, ShrinkFrame, DutyKept DEF OpDone, Shrinks, netVars
  <1>3. CASE Undefer(c)
    <2>1. Deferred(c) /\ marking[c] = 0 /\ ~Ordered(c) /\ ~Answered(c)
      BY <1>1, <1>3 DEF Undefer, OneDutyOf, Deferred, Marking, TypeOK, ClientTypeOK
    <2>2. ~Deferred(c)' /\ marking'[c] = 1 /\ UNCHANGED <<toClient, fromClient>>
      BY <1>3, <2>1 DEF Undefer, Deferred, TypeOK, ClientTypeOK, netVars
    <2>3. OneDutyOf(c)' /\ Owes(c)
      BY <1>1, <2>1, <2>2 DEF OneDutyOf, Owes, Ordered, Answered
    <2> QED BY <1>1, <2>2, <2>3, ShrinkFrame, DutyPassed DEF Shrinks
  <1>4. CASE MarkDone(c)
    <2>1. marking[c] = 1 /\ ~Deferred(c) /\ ~Ordered(c) /\ ~Answered(c) /\ Owes(c)
      BY <1>1, <1>4 DEF MarkDone, OneDutyOf, Owes, Deferred, Marking, TypeOK, ClientTypeOK
    <2>2. marking'[c] = 0 /\ ~Deferred(c)' /\ ~Ordered(c)'
      BY <1>1, <1>4, <2>1 DEF MarkDone, Deferred, Ordered, TypeOK, ClientTypeOK
    <2>3. /\ Once(Msg("GC_FINISH"), fromClient'[c])
          /\ \A d \in Client \ {c} : ShrinksFrom(d)
      BY <1>1, <1>4, <2>1, ShrinkWrite, MessageTypes DEF MarkDone
    <2>4. OneDutyOf(c)'
      BY <1>1, <2>2, <2>3 DEF OneDutyOf, Marking
    <2> QED BY <1>1, <2>1, <2>3, <2>4, ShrinkFrame, DutyPassed DEF Shrinks
  <1> QED BY <1>2, <1>3, <1>4 DEF ClientCompute

LEMMA DutyCommand ==
  ASSUME TypeOK, Duty, NEW c \in Client, ClientCommand(c)
  PROVE  Duty'
  <1> USE DEF ClientConnect, ClientLeave, OpStart, ClientCollect, ClientFlush
  <1>1. NetTypeOK /\ UNCHANGED <<gc_state, need_client_fd_set>>
    BY DEF ClientCommand, ctlVars, TypeOK
  <1>2. \A d \in Client : ShrinksFrom(d)
    <2>1. UNCHANGED fromClient \/ \E m \in Message \ {Msg("GC_FINISH")} :
                                    fromClient' = Send(fromClient, c, m)
      BY MessageTypes, Fields DEF ClientCommand, netVars
    <2> QED BY <1>1, <2>1, ShrinkWrite, ShrinkFrame
  <1>3. ASSUME NEW d \in Client PROVE ShrinksTo(d)
    <2>1. UNCHANGED toClient[d] \/ toClient'[d] = << >>
      BY DEF ClientCommand, netVars, TypeOK, NetTypeOK
    <2>2. toClient'[d] = << >> => ShrinksTo(d)
      BY DEF ShrinksTo, Ordered, InTransit, Once
    <2> QED BY <2>1, <2>2, ShrinkFrame
  <1>4. \A d \in Client : ShrinksHere(d)
    BY DEF ClientCommand, ShrinksHere, Deferred, Marking, TypeOK, ClientTypeOK
  <1> QED BY <1>1, <1>2, <1>3, <1>4, DutyKept DEF Shrinks

-----------------------------------------------------------------------------
(***************************************************************************)
(* Nobody flushes.                                                         *)
(***************************************************************************)
Unflushed == \A c \in Client : ~InTransit(Msg("DO_FLUSH"), fromClient[c])

(* A run in which no flush is begun (MaxFlush = 0) has no DO_FLUSH message *)
(* of a client for run_controller to obey.                                 *)
THEOREM StaysUnflushed ==
  ASSUME MaxFlush = 0 PROVE Spec => []Unflushed
<1>1. Init => Unflushed
  BY DEF Init, Unflushed, InTransit
<1>2. TypeOK /\ Unflushed /\ [Next]_vars => Unflushed'
  <2> SUFFICES ASSUME TypeOK, Unflushed, [Next]_vars PROVE Unflushed'
    OBVIOUS
  <2>1. ASSUME UNCHANGED fromClient PROVE Unflushed'
    BY <2>1 DEF Unflushed
  <2>2. ASSUME NEW c \in Client, fromClient[c] # << >>, fromClient' = Receive(fromClient, c)
        PROVE  Unflushed'
    BY <2>2, AfterTail, MessageTypes DEF Unflushed, Receive, TypeOK, NetTypeOK
  <2>3. ASSUME NEW c \in Client, NEW m \in Message \ {Msg("DO_FLUSH")},
               fromClient' = Send(fromClient, c, m)
        PROVE  Unflushed'
    BY <2>3, AfterAppend, MessageTypes DEF Unflushed, Send, TypeOK, NetTypeOK
  <2>4. ASSUME NEW c \in Client, ControllerFromClient(c) PROVE Unflushed'
    BY <2>4, <2>2 DEF ControllerFromClient, RecvRegister, RecvClientCollect,
       RecvClientFinish, RecvClientEOF, RecvClientFlush, Arrived
  <2>5. ASSUME NEW c \in Client, ClientCompute(c) \/ ClientCommand(c) PROVE Unflushed'
    <3>1. \/ UNCHANGED fromClient
          \/ \E m \in {Msg("GC_FINISH"), Msg("REGISTER"), Msg("EOF"), Msg("GC_START")} :
               fromClient' = Send(fromClient, c, m)
      BY <2>5 DEF ClientCompute, OpDone, Undefer, MarkDone, ClientCommand, ClientConnect,
         ClientLeave, OpStart, ClientCollect, ClientFlush, netVars, TypeOK
    <3>2. {Msg("GC_FINISH"), Msg("REGISTER"), Msg("EOF"), Msg("GC_START")}
             \subseteq Message \ {Msg("DO_FLUSH")}
      BY MessageTypes, Fields
    <3> QED BY <3>1, <3>2, <2>1, <2>3
  <2> QED
    BY <2>1, <2>4, <2>5
    DEF Next, vars, netVars, ConsoleCollect, ConsoleFlush, ControllerFromWorker, RecvWorkerStart,
        RecvWorkerFinish, RecvWorkerRequest, RecvStat, WorkerReceive, WorkerStart, WorkerFinish,
        WorkerFlush, WorkerRequest, ClientReceive, ClientAck, ClientGCStart, ClientGCFinish,
        ClientFlushed, ClientStat
<1> QED BY <1>1, <1>2, TypeCorrect, PTL DEF Spec

LEMMA NoFlushRead ==
  ASSUME TypeOK, Unflushed, NEW c \in Client PROVE ~RecvClientFlush(c)
  <1> SUFFICES ASSUME RecvClientFlush(c) PROVE FALSE
    OBVIOUS
  <1>1. fromClient[c] \in Seq(Message) /\ fromClient[c] # << >>
        /\ Head(fromClient[c]) = Msg("DO_FLUSH")
    BY PlainFromClient DEF RecvClientFlush, TypeOK, NetTypeOK
  <1> QED BY <1>1, AfterTail DEF Unflushed

LEMMA NothingToFlush ==
  ASSUME TypeOK, WorkersInStep, NEW w \in Worker PROVE ~WorkerFlush(w) /\ ~RecvStat(w)
  <1>1. toWorker[w] \in {<< >>, <<Msg("GC_START")>>, <<Msg("GC_FINISH")>>}
    BY DEF WorkersInStep, Idle, Told, Reporting, Open, Sweeping, Swept, TypeOK, ControllerTypeOK
  <1>2. ~WorkerFlush(w)
    BY <1>1, ShortSequences, MessageTypes, Fields DEF WorkerFlush, Arrived
  <1>3. ~RecvStat(w)
    <2>1. Request(gc_generation + 1) \in Message /\ Request(gc_generation) \in Message
      BY MessageTypes DEF TypeOK, ControllerTypeOK
    <2>2. fromWorker[w] # << >> =>
            Head(fromWorker[w]).type \in {"GC_START", "GC_FINISH", "GC_REQUEST"}
      BY <2>1, Readable, ShortSequences, MessageTypes, Fields
    <2> QED BY <2>2 DEF RecvStat, Arrived
  <1> QED BY <1>2, <1>3

(***************************************************************************)
(* The inductive invariant: workers and clients are where the state of the *)
(* controller says.                                                        *)
(***************************************************************************)
THEOREM InStep ==
  ASSUME MaxFlush = 0 PROVE Spec => [](WorkersInStep /\ Duty)
<1>1. Init => WorkersInStep /\ Duty
  BY DEF Init, WorkersInStep, Idle, Resting, Asked, Duty, OneDuty, OneDutyOf, DutyAwaited, Owes,
         Ordered, Deferred, Marking, Answered, InTransit, Once
<1>2. TypeOK /\ RoundBookkeeping /\ Lives /\ Unflushed /\ WorkersInStep /\ Duty /\ [Next]_vars
        => WorkersInStep' /\ Duty'
  <2> SUFFICES ASSUME TypeOK, RoundBookkeeping, Lives, Unflushed, WorkersInStep, Duty,
                      [Next]_vars
               PROVE  WorkersInStep' /\ Duty'
    OBVIOUS
  <2> DEFINE WorkersKeep ==
        UNCHANGED <<gc_state, gc_generation, need_worker_cnt, workerVars, toWorker, fromWorker>>
  <2> DEFINE ClientsKeep == UNCHANGED <<clientVars, toClient, fromClient>>
  <2>1. ASSUME ClientsKeep,
               gc_state = "WAIT_CLIENT" => UNCHANGED <<gc_state, need_client_fd_set>>
        PROVE  Duty'
    BY <2>1, ShrinkFrame, DutyKept DEF Shrinks, clientVars
  <2>2. CASE ConsoleCollect
    <3>1. WorkersInStep'
      <4>1. PICK w \in Worker : TRUE
        BY WorkersAssumption
      <4> QED BY <2>2, RoundBegins DEF ConsoleCollect
    <3>2. Duty'
      BY <2>1, <2>2 DEF ConsoleCollect
    <3> QED BY <3>1, <3>2
  <2>3. ~ConsoleFlush
    BY DEF ConsoleFlush, TypeOK
  <2>4. ASSUME NEW w \in Worker, RecvWorkerStart(w) PROVE WorkersInStep' /\ Duty'
    BY <2>4, StartRead, DutyHandedOut
  <2>5. ASSUME NEW w \in Worker, RecvWorkerFinish(w) PROVE WorkersInStep' /\ Duty'
    <3>1. gc_state = "WAIT_CLIENT" => UNCHANGED <<gc_state, need_client_fd_set>>
      BY <2>5 DEF RecvWorkerFinish
    <3>2. ASSUME NEW d \in Client PROVE Shrinks(d)
      <4>1. ShrinksFrom(d) /\ ShrinksHere(d)
        BY <2>5, ShrinkFrame DEF RecvWorkerFinish, clientVars
      <4>2. CASE UNCHANGED toClient
        BY <4>1, <4>2, ShrinkFrame DEF Shrinks
      <4>3. CASE toClient' = SendAll(SendAll(toClient, Listening(client_fd_set),
                                             Msg("GC_FINISH")),
                                     Listening(defer_client_fd_set), Msg("ACK_AGENT"))
        <5> DEFINE first == IF d \in Listening(client_fd_set)
                            THEN Append(toClient[d], Msg("GC_FINISH")) ELSE toClient[d]
        <5>1. toClient'[d] = IF d \in Listening(defer_client_fd_set)
                             THEN Append(first, Msg("ACK_AGENT")) ELSE first
          BY <4>3 DEF SendAll, TypeOK, NetTypeOK
        <5>2. toClient[d] \in Seq(Message)
          BY DEF TypeOK, NetTypeOK
        <5>3. Msg("GC_FINISH") # Msg("GC_START") /\ Msg("ACK_AGENT") # Msg("GC_START")
          BY Fields
        <5>4. /\ first \in Seq(Message)
              /\ InTransit(Msg("GC_START"), first) => Ordered(d)
              /\ Once(Msg("GC_START"), toClient[d]) => Once(Msg("GC_START"), first)
          BY <5>2, <5>3, AfterAppend, MessageTypes DEF Ordered
        <5> HIDE DEF first
        <5>5. ShrinksTo(d)
          BY <5>1, <5>3, <5>4, AfterAppend, MessageTypes DEF ShrinksTo, Ordered
        <5> QED BY <4>1, <5>5 DEF Shrinks
      <4> QED BY <2>5, <4>2, <4>3 DEF RecvWorkerFinish
    <3> QED BY <2>5, <3>1, <3>2, FinishRead, DutyKept
  <2>6. ASSUME NEW w \in Worker, RecvWorkerRequest(w) PROVE WorkersInStep' /\ Duty'
    <3>1. Duty'
      BY <2>1, <2>6 DEF RecvWorkerRequest, StartCollection, ctlVars
    <3> QED BY <2>6, <3>1, RequestRead
  <2>7. ASSUME NEW w \in Worker, WorkerReceive(w) \/ WorkerRequest(w)
        PROVE  WorkersInStep' /\ Duty'
    <3>1. Duty'
      BY <2>1, <2>7 DEF WorkerReceive, WorkerStart, WorkerFinish, WorkerFlush, WorkerRequest,
                        ctlVars
    <3> QED
      BY <2>7, <3>1, StartTaken, FinishTaken, RequestMade, NothingToFlush DEF WorkerReceive
  <2>8. ASSUME NEW c \in Client, RecvRegister(c) PROVE WorkersInStep' /\ Duty'
    <3>1. ASSUME NEW d \in Client PROVE Shrinks(d)
      <4>1. ShrinksFrom(d) /\ ShrinksHere(d)
        BY <2>8, ShrinkRead, ShrinkFrame DEF RecvRegister, Arrived, TypeOK, clientVars
      <4>2. ShrinksTo(d)
        BY <2>8, ShrinkSend, ShrinkFrame, MessageTypes, Fields DEF RecvRegister, TypeOK
      <4> QED BY <4>1, <4>2 DEF Shrinks
    <3> QED BY <2>8, <3>1, DutyKept, WorkersInStepFrame DEF RecvRegister
  <2>9. ASSUME NEW c \in Client, RecvClientCollect(c) PROVE WorkersInStep' /\ Duty'
    <3>1. \A d \in Client : Shrinks(d)
      BY <2>9, ShrinkRead, ShrinkFrame DEF RecvClientCollect, Shrinks, Arrived, TypeOK, clientVars
    <3>2. Duty'
      BY <2>9, <3>1, DutyKept DEF RecvClientCollect, StartCollection, ctlVars
    <3>3. CASE gc_state = "READY"
      <4>1. PICK w \in Worker : TRUE
        BY WorkersAssumption
      <4> QED BY <2>9, <3>2, <3>3, RoundBegins DEF RecvClientCollect
    <3>4. CASE gc_state # "READY"
      BY <2>9, <3>2, <3>4, WorkersInStepFrame DEF RecvClientCollect, ctlVars
    <3> QED BY <3>3, <3>4
  <2>10. ASSUME NEW c \in Client, RecvClientFinish(c) PROVE WorkersInStep' /\ Duty'
    BY <2>10, DutyAnswerRead, SweepOrdered DEF RecvClientFinish
  <2>11. ASSUME NEW c \in Client, RecvClientEOF(c) PROVE WorkersInStep' /\ Duty'
    <3>1. c \in need_client_fd_set => gc_state = "WAIT_CLIENT"
      BY DEF RoundBookkeeping
    <3>2. WorkersInStep'
      BY <2>11, <3>1, SweepOrdered, WorkersInStepFrame DEF RecvClientEOF
    <3> QED BY <2>11, <3>2, DutyOfTheDead
  <2>12. ASSUME NEW c \in Client,
                ClientReceive(c) \/ ClientCompute(c) \/ ClientCommand(c)
         PROVE  WorkersInStep' /\ Duty'
    <3>1. WorkersKeep
      BY <2>12
      DEF ClientReceive, ClientAck, ClientGCStart, ClientGCFinish, ClientFlushed, ClientStat,
          ClientCompute, OpDone, Undefer, MarkDone, ClientCommand, ClientConnect, ClientLeave,
          OpStart, ClientCollect, ClientFlush, ctlVars, netVars
    <3> QED BY <2>12, <3>1, WorkersInStepFrame, DutyTaken, DutyComputed, DutyCommand
  <2>13. CASE UNCHANGED vars
    BY <2>1, <2>13, WorkersInStepFrame DEF vars, ctlVars, netVars
  <2> QED
    BY <2>2, <2>3, <2>4, <2>5, <2>6, <2>7, <2>8, <2>9, <2>10, <2>11, <2>12, <2>13,
       NothingToFlush, NoFlushRead
    DEF Next, ControllerFromWorker, ControllerFromClient
<1> QED
  BY <1>1, <1>2, TypeCorrect, BookkeepingCorrect, ConnectionsLive, StaysUnflushed, PTL DEF Spec

-----------------------------------------------------------------------------
(***************************************************************************)
(* The properties, for any number of workers, clients and rounds, when     *)
(* nobody flushes.                                                         *)
(***************************************************************************)

\* The controller and the workers agree on the generation between rounds
THEOREM GenerationsAlwaysAgree ==
  ASSUME MaxFlush = 0 PROVE Spec => []GenerationsAgree
<1>1. TypeOK /\ WorkersInStep => GenerationsAgree
  BY DEF WorkersInStep, GenerationsAgree, Idle, Told, Reporting, Open, Sweeping, Swept, Resting,
         Managing, TypeOK, ControllerTypeOK
<1> QED BY <1>1, TypeCorrect, InStep, PTL

\* A client marks only when every worker has one manager for the marks
THEOREM MarkersAlwaysHaveManagers ==
  ASSUME MaxFlush = 0 PROVE Spec => []MarkersHaveManagers
<1>1. TypeOK /\ WorkersInStep /\ Duty => MarkersHaveManagers
  BY DEF WorkersInStep, Open, Managing, Duty, DutyAwaited, Owes, Marking, MarkersHaveManagers
<1> QED BY <1>1, TypeCorrect, InStep, PTL

\* No worker sweeps, or is told to, while a client has marks to make
THEOREM NeverSweepWhileMarking ==
  ASSUME MaxFlush = 0 PROVE Spec => []NoSweepWhileMarking
<1>1. TypeOK /\ WorkersInStep /\ Duty => NoSweepWhileMarking
  <2> SUFFICES ASSUME TypeOK, WorkersInStep, Duty, gc_state = "WAIT_CLIENT", NEW w \in Worker
               PROVE  /\ ~InTransit(Msg("GC_FINISH"), toWorker[w])
                      /\ ~InTransit(Msg("GC_FINISH"), fromWorker[w])
    BY DEF NoSweepWhileMarking, OwesMarks, Duty, DutyAwaited, Owes, Ordered, Deferred, Marking
  <2> QED BY DEF WorkersInStep, Open, InTransit
<1> QED BY <1>1, TypeCorrect, InStep, PTL

\* The controller reads no response that it does not wait for, and no request
\* that is outdated while it is ready for one
THEOREM ResponsesAlwaysExpected ==
  ASSUME MaxFlush = 0 PROVE Spec => []NoUnexpectedResponse
<1>1. TypeOK /\ WorkersInStep /\ Duty => NoUnexpectedResponse
  <2> SUFFICES ASSUME TypeOK, WorkersInStep, Duty PROVE NoUnexpectedResponse
    OBVIOUS
  <2>1. ASSUME NEW w \in Worker
        PROVE  /\ Arrived(fromWorker, w, "GC_START") => gc_state = "WAIT_WORKER_START"
               /\ Arrived(fromWorker, w, "GC_FINISH") => gc_state = "WAIT_WORKER_FINISH"
               /\ Arrived(fromWorker, w, "GC_REQUEST") /\ gc_state = "READY"
                    => Head(fromWorker[w]).gen = gc_generation + 1
    <3>1. Request(gc_generation + 1) \in Message /\ Request(gc_generation) \in Message
      BY MessageTypes DEF TypeOK, ControllerTypeOK
    <3> QED BY <3>1, Readable, ShortSequences, MessageTypes, Fields DEF Arrived
  <2>2. ASSUME NEW c \in Client, Arrived(fromClient, c, "GC_FINISH")
        PROVE  gc_state = "WAIT_CLIENT" /\ c \in need_client_fd_set
    <3>1. fromClient[c] \in Seq(Message) /\ fromClient[c] # << >>
          /\ Head(fromClient[c]) = Msg("GC_FINISH")
      BY <2>2, PlainFromClient DEF TypeOK, NetTypeOK
    <3>2. Answered(c)
      BY <3>1, AfterTail DEF Answered
    <3> QED BY <3>2 DEF Duty, DutyAwaited, Owes
  <2> QED BY <2>1, <2>2 DEF NoUnexpectedResponse
<1> QED BY <1>1, TypeCorrect, InStep, PTL

-----------------------------------------------------------------------------
(***************************************************************************)
(* The protocol implements GCRound.                                        *)
(***************************************************************************)
Opened == {w \in Worker : umgr[w] > 0}

\* What GCRound sees depends on three variables
LEMMA RoundStutters ==
  ASSUME UNCHANGED <<gc_state, umgr, need_client_fd_set>>
  PROVE  UNCHANGED Round!vars
  BY DEF Round!vars, Phase

LEMMA OpenedAt ==
  ASSUME TypeOK, WorkersInStep
  PROVE  /\ gc_state = "READY" => Opened = {}
         /\ gc_state = "WAIT_CLIENT" => Opened = Worker
  BY DEF WorkersInStep, Idle, Resting, Open, Managing, Opened

LEMMA RoundOpens ==
  ASSUME TypeOK, WorkersInStep, NEW w \in Worker, WorkerStart(w)
  PROVE  Round!Open(w)
  <1>1. gc_state = "WAIT_WORKER_START" /\ Told(w)
    BY ShortSequences, MessageTypes, Fields
    DEF WorkerStart, Arrived, WorkersInStep, Idle, Told, Reporting, Open, Sweeping, Swept,
        TypeOK, ControllerTypeOK
  <1>2. umgr[w] = 0 /\ umgr' = [umgr EXCEPT ![w] = 1]
    BY <1>1 DEF Told, Resting, WorkerStart, TypeOK, WorkerTypeOK
  <1>3. Opened' = Opened \cup {w} /\ w \notin Opened
    BY <1>2 DEF Opened, TypeOK, WorkerTypeOK
  <1>4. UNCHANGED <<gc_state, need_client_fd_set>>
    BY DEF WorkerStart, ctlVars
  <1> QED BY <1>1, <1>3, <1>4 DEF Round!Open, Phase, Opened

LEMMA RoundSweeps ==
  ASSUME TypeOK, WorkersInStep, NEW w \in Worker, WorkerFinish(w)
  PROVE  Round!Sweep(w)
  <1>1. Sweeping(w) /\ gc_state = "WAIT_WORKER_FINISH"
    BY FinishTaken
  <1>2. umgr[w] = 1 /\ umgr' = [umgr EXCEPT ![w] = 0]
    BY <1>1 DEF Sweeping, Managing, WorkerFinish, TypeOK, WorkerTypeOK
  <1>3. Opened' = Opened \ {w} /\ w \in Opened
    BY <1>2 DEF Opened, TypeOK, WorkerTypeOK
  <1>4. UNCHANGED <<gc_state, need_client_fd_set>>
    BY DEF WorkerFinish, ctlVars
  <1> QED BY <1>1, <1>3, <1>4 DEF Round!Sweep, Phase, Opened

LEMMA RoundMarked ==
  ASSUME gc_state = "WAIT_CLIENT", NEW c \in need_client_fd_set, ClientResponded(c),
         UNCHANGED umgr
  PROVE  Round!Marked(c)
  BY DEF ClientResponded, Round!Marked, Phase

\* Every step of the protocol is a step of GCRound or changes nothing there
THEOREM ProtocolImplementsRound ==
  ASSUME MaxFlush = 0 PROVE Spec => ImplementsRound
<1>1. Init => Round!Init
  BY DEF Init, Round!Init, Phase
<1>2. TypeOK /\ RoundBookkeeping /\ Unflushed /\ WorkersInStep /\ WorkersInStep' /\ TypeOK'
        /\ Duty /\ [Next]_vars => [Round!Next]_(Round!vars)
  <2> SUFFICES ASSUME TypeOK, RoundBookkeeping, Unflushed, WorkersInStep, WorkersInStep', TypeOK',
                      Duty, Next
               PROVE  Round!Next \/ UNCHANGED Round!vars
    BY RoundStutters DEF vars, ctlVars, workerVars
  <2>1. ASSUME StartCollection, gc_state = "READY", UNCHANGED umgr PROVE Round!Begin
    BY <2>1 DEF StartCollection, Round!Begin, Phase
  <2>2. CASE ConsoleCollect
    BY <2>1, <2>2 DEF ConsoleCollect, workerVars, Round!Next
  <2>3. ~ConsoleFlush
    BY DEF ConsoleFlush, TypeOK
  <2>4. ASSUME NEW w \in Worker, RecvWorkerStart(w)
        PROVE  Round!BeginMarking \/ UNCHANGED Round!vars
    <3>1. UNCHANGED umgr
      BY <2>4 DEF RecvWorkerStart, workerVars
    <3>2. CASE gc_state' # gc_state
      <4>1. /\ gc_state = "WAIT_WORKER_START" /\ gc_state' = "WAIT_CLIENT"
            /\ need_client_fd_set' \in SUBSET Client
        BY <2>4, <3>2 DEF RecvWorkerStart, TypeOK, ControllerTypeOK
      <4>2. Opened = Worker
        BY <3>1, <4>1 DEF Opened, WorkersInStep, Open, Managing
      <4> QED BY <3>1, <4>1, <4>2 DEF Round!BeginMarking, Phase, Opened
    <3>3. CASE gc_state' = gc_state
      BY <2>4, <3>1, <3>3, RoundStutters DEF RecvWorkerStart
    <3> QED BY <3>2, <3>3
  <2>5. ASSUME NEW w \in Worker, RecvWorkerFinish(w)
        PROVE  Round!End \/ UNCHANGED Round!vars
    <3>1. UNCHANGED <<umgr, need_client_fd_set>>
      BY <2>5 DEF RecvWorkerFinish, workerVars
    <3>2. CASE gc_state' # gc_state
      <4>1. gc_state = "WAIT_WORKER_FINISH" /\ gc_state' = "READY"
        BY <2>5, <3>2 DEF RecvWorkerFinish
      <4>2. Opened = {}
        BY <3>1, <4>1 DEF Opened, WorkersInStep, Idle, Resting
      <4> QED BY <3>1, <4>1, <4>2 DEF Round!End, Phase, Opened
    <3>3. CASE gc_state' = gc_state
      BY <3>1, <3>3, RoundStutters
    <3> QED BY <3>2, <3>3
  <2>6. ASSUME NEW w \in Worker, RecvWorkerRequest(w)
        PROVE  Round!Begin \/ UNCHANGED Round!vars
    BY <2>1, <2>6, RoundStutters DEF RecvWorkerRequest, workerVars, ctlVars
  <2>7. ASSUME NEW w \in Worker, WorkerReceive(w) \/ WorkerRequest(w)
        PROVE  Round!Next \/ UNCHANGED Round!vars
    <3>1. CASE WorkerStart(w)
      BY <3>1, RoundOpens DEF Round!Next
    <3>2. CASE WorkerFinish(w)
      BY <3>2, RoundSweeps DEF Round!Next
    <3>3. CASE WorkerRequest(w)
      BY <3>3, RoundStutters DEF WorkerRequest, ctlVars
    <3> QED BY <2>7, <3>1, <3>2, <3>3, NothingToFlush DEF WorkerReceive
  <2>8. ASSUME NEW c \in Client, RecvRegister(c) PROVE UNCHANGED Round!vars
    BY <2>8, RoundStutters DEF RecvRegister, workerVars
  <2>9. ASSUME NEW c \in Client, RecvClientCollect(c)
        PROVE  Round!Begin \/ UNCHANGED Round!vars
    BY <2>1, <2>9, RoundStutters DEF RecvClientCollect, workerVars, ctlVars
  <2>10. ASSUME NEW c \in Client, RecvClientFinish(c) \/ RecvClientEOF(c)
         PROVE  Round!Marked(c) \/ UNCHANGED Round!vars
    <3>1. UNCHANGED umgr /\ (c \in need_client_fd_set => gc_state = "WAIT_CLIENT")
      BY <2>10 DEF RecvClientFinish, RecvClientEOF, workerVars, RoundBookkeeping
    <3>2. CASE c \in need_client_fd_set
      BY <2>10, <3>1, <3>2, RoundMarked DEF RecvClientFinish, RecvClientEOF
    <3>3. CASE c \notin need_client_fd_set
      BY <2>10, <3>1, <3>3, RoundStutters DEF RecvClientFinish, RecvClientEOF
    <3> QED BY <3>2, <3>3
  <2>11. ASSUME NEW c \in Client, ClientReceive(c) \/ ClientCompute(c) \/ ClientCommand(c)
         PROVE  UNCHANGED Round!vars
    BY <2>11, RoundStutters
    DEF ClientReceive, ClientAck, ClientGCStart, ClientGCFinish, ClientFlushed, ClientStat,
        ClientCompute, OpDone, Undefer, MarkDone, ClientCommand, ClientConnect, ClientLeave,
        OpStart, ClientCollect, ClientFlush, ctlVars, workerVars
  <2>12. ASSUME NEW c \in Client, ControllerFromClient(c)
         PROVE  Round!Next \/ UNCHANGED Round!vars
    BY <2>8, <2>9, <2>10, <2>12, NoFlushRead DEF ControllerFromClient, Round!Next
  <2>13. ASSUME NEW w \in Worker, ControllerFromWorker(w)
         PROVE  Round!Next \/ UNCHANGED Round!vars
    BY <2>4, <2>5, <2>6, <2>13, NothingToFlush DEF ControllerFromWorker, Round!Next
  <2> QED
    BY <2>2, <2>3, <2>7, <2>11, <2>12, <2>13 DEF Next
<1> QED
  BY <1>1, <1>2, TypeCorrect, BookkeepingCorrect, StaysUnflushed, InStep, PTL
  DEF Spec, ImplementsRound, Round!Spec
=============================================================================
