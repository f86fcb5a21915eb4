----------------------------- MODULE GCHeapProofs -----------------------------
(***************************************************************************)
(* Proofs about the collected heap: it is driven by the steps of the       *)
(* protocol, and a round removes no node that a client has marked.         *)
(***************************************************************************)
EXTENDS GCHeap, GCProtocolProofs

USE DEF LastClient, DeadAnswers, LastWorker, EndRound, Honours, StatsComplete, DropOne

-----------------------------------------------------------------------------
(***************************************************************************)
(* The heap adds variables to the protocol and no behaviour: a step of the *)
(* composition is one of the protocol, or one the protocol does not see.   *)
(***************************************************************************)
THEOREM HeapImplementsProtocol == HeapSpec => Spec
<1>1. HeapInit => Init
  BY DEF HeapInit
<1>2. [HeapNext]_allVars => [Next]_vars
  <2>1. ProtocolOnly => Next
    BY DEF ProtocolOnly, Next, WorkerReceive, ClientCommand
  <2>2. ASSUME NEW w \in Worker, HeapWorkerFinish(w) PROVE Next
    BY <2>2 DEF HeapWorkerFinish, Next, WorkerReceive
  <2>3. ASSUME NEW c \in Client,
               \/ HeapOpStart(c) \/ HeapOpDone(c) \/ HeapUndefer(c)
               \/ HeapMarkDone(c) \/ HeapLeave(c)
        PROVE  Next
    BY <2>3 DEF HeapOpStart, HeapOpDone, HeapUndefer, HeapMarkDone, HeapLeave, Next,
                ClientCompute, ClientCommand
  <2>4. ASSUME NEW c \in Client,
               OpAssign(c) \/ \E n \in Node : OpResult(c, n) \/ Delete(c, n)
        PROVE  UNCHANGED vars
    BY <2>4 DEF OpAssign, OpResult, Delete
  <2> QED
    BY <2>1, <2>2, <2>3, <2>4 DEF HeapNext, allVars
<1> QED BY <1>1, <1>2, PTL DEF HeapSpec, Spec

-----------------------------------------------------------------------------
(***************************************************************************)
(* What a step of the protocol may do to the arguments of HeapInv.         *)
(***************************************************************************)

\* c has no mark left to make in this round, or nothing to mark
Settled(c) == kept[c] = {} \/ c \notin need_client_fd_set \/ Answered(c)

\* The round goes on without a step that matters to the heap, or a phase of
\* it begins in which what the heap relies on has been done
Harmless ==
  /\ \A c \in Client : conn'[c] # "up" => conn[c] # "up"
  /\ gc_state' = "WAIT_CLIENT" =>
       \A c \in Client :
         c \notin need_client_fd_set' \/ Answered(c)'
           => kept[c] = {} \/ (gc_state = "WAIT_CLIENT" /\ Settled(c))
  /\ gc_state' = "WAIT_WORKER_FINISH" =>
       \/ /\ gc_state = "WAIT_WORKER_FINISH"
          /\ \A w \in Worker : umgr'[w] > 0 => umgr[w] > 0
       \/ gc_state = "WAIT_CLIENT" /\ \A c \in Client : Settled(c)

Marked == KeptByTheConnected /\ MarksOfTheAnswered /\ MarksUntilSwept

LEMMA HarmlessStep ==
  ASSUME Marked, Harmless, UNCHANGED <<marks, kept>>
  PROVE  Marked'
  <1>1. KeptByTheConnected'
    BY DEF Marked, KeptByTheConnected, Harmless
  <1>2. MarksOfTheAnswered'
    BY DEF Marked, MarksOfTheAnswered, Harmless, Settled, Answered
  <1>3. MarksUntilSwept'
    BY DEF Marked, MarksOfTheAnswered, MarksUntilSwept, Harmless, Settled, Answered
  <1> QED BY <1>1, <1>2, <1>3 DEF Marked

\* What is known of the protocol before each step
Protocol == TypeOK /\ RoundBookkeeping /\ Lives /\ Unflushed /\ WorkersInStep /\ Duty

LEMMA ProtocolAlways ==
  ASSUME MaxFlush = 0 PROVE Spec => []Protocol
  BY TypeCorrect, BookkeepingCorrect, ConnectionsLive, StaysUnflushed, InStep, PTL DEF Protocol

\* A step that no phase begins with, and in which no client reports its marks
LEMMA Quiet ==
  ASSUME UNCHANGED <<gc_state, need_client_fd_set, umgr, conn>>,
         \A c \in Client : ShrinksFrom(c)
  PROVE  Harmless
  BY DEF Harmless, Settled, ShrinksFrom

\* A round begins or ends: neither clients nor workers have anything to do
LEMMA Between ==
  ASSUME gc_state' \in {"READY", "WAIT_WORKER_START"}, UNCHANGED conn
  PROVE  Harmless
  BY DEF Harmless

\* The marking begins: those that need not mark are not connected
LEMMA MarkingBegins ==
  ASSUME Protocol, Marked, gc_state # "WAIT_CLIENT", gc_state' = "WAIT_CLIENT",
         need_client_fd_set' = client_fd_set, UNCHANGED <<conn, fromClient>>
  PROVE  Harmless
  <1>1. ASSUME NEW c \in Client, c \notin client_fd_set PROVE kept[c] = {}
    BY <1>1 DEF Protocol, Lives, Life, Marked, KeptByTheConnected
  <1>2. ASSUME NEW c \in Client PROVE ~Answered(c)'
    BY NoDuty DEF Protocol, Owes, Answered
  <1> QED BY <1>1, <1>2 DEF Harmless

\* A client that has answered, or is gone, is no longer needed
LEMMA AnswerHeard ==
  ASSUME Protocol, Marked, gc_state = "WAIT_CLIENT", NEW c \in Client,
         kept[c] = {} \/ Answered(c), ClientResponded(c) \/ c \notin need_client_fd_set,
         c \notin need_client_fd_set => UNCHANGED <<gc_state, need_client_fd_set>>,
         UNCHANGED <<conn, umgr>>, \A d \in Client : ShrinksFrom(d)
  PROVE  Harmless
  <1>1. CASE c \in need_client_fd_set
    <2>1. \A d \in Client : d \notin need_client_fd_set' => Settled(d)
      BY <1>1 DEF ClientResponded, Settled
    <2>2. \A d \in Client : Answered(d)' => Settled(d)
      BY DEF Settled, ShrinksFrom
    <2>3. gc_state' = "WAIT_WORKER_FINISH" => \A d \in Client : Settled(d)
      BY <1>1, <2>1 DEF ClientResponded, Settled
    <2> QED BY <1>1, <2>1, <2>2, <2>3 DEF Harmless
  <1>2. CASE c \notin need_client_fd_set
    BY <1>2, Quiet
  <1> QED BY <1>1, <1>2

-----------------------------------------------------------------------------
(***************************************************************************)
(* The steps of the protocol that touch no node.                           *)
(***************************************************************************)
LEMMA ControllerHarmless ==
  ASSUME Protocol, Marked,
         \/ ConsoleCollect
         \/ \E w \in Worker : ControllerFromWorker(w)
         \/ \E c \in Client : ControllerFromClient(c)
  PROVE  Harmless
  <1> USE DEF Protocol
  <1>1. UNCHANGED fromClient => \A d \in Client : ShrinksFrom(d)
    BY ShrinkFrame
  <1>2. CASE ConsoleCollect
    BY <1>2, Between DEF ConsoleCollect, StartCollection, clientVars
  <1>3. ASSUME NEW w \in Worker, RecvWorkerStart(w) PROVE Harmless
    <2>1. CASE gc_state = "WAIT_WORKER_START" /\ LastWorker
      BY <1>3, <2>1, MarkingBegins DEF RecvWorkerStart, clientVars
    <2>2. CASE ~(gc_state = "WAIT_WORKER_START" /\ LastWorker)
      BY <1>1, <1>3, <2>2, Quiet DEF RecvWorkerStart, clientVars, workerVars
    <2> QED BY <2>1, <2>2
  <1>4. ASSUME NEW w \in Worker, RecvWorkerFinish(w) PROVE Harmless
    BY <1>1, <1>4, Quiet, Between DEF RecvWorkerFinish, clientVars, workerVars
  <1>5. ASSUME NEW w \in Worker, RecvWorkerRequest(w) PROVE Harmless
    BY <1>1, <1>5, Quiet, Between
    DEF RecvWorkerRequest, StartCollection, clientVars, workerVars, ctlVars
  <1>6. ASSUME NEW c \in Client, RecvRegister(c) PROVE Harmless
    <2>1. \A d \in Client : ShrinksFrom(d)
      BY <1>6, ShrinkRead DEF RecvRegister, Arrived, TypeOK
    <2> QED BY <1>6, <2>1, Quiet DEF RecvRegister, clientVars, workerVars
  <1>7. ASSUME NEW c \in Client, RecvClientCollect(c) PROVE Harmless
    <2>1. \A d \in Client : ShrinksFrom(d)
      BY <1>7, ShrinkRead DEF RecvClientCollect, Arrived, TypeOK
    <2> QED
      BY <1>7, <2>1, Quiet, Between
      DEF RecvClientCollect, StartCollection, clientVars, workerVars, ctlVars
  <1>8. ASSUME NEW c \in Client, RecvClientFinish(c) PROVE Harmless
    <2>1. fromClient[c] \in Seq(Message) /\ fromClient[c] # << >>
          /\ Head(fromClient[c]) = Msg("GC_FINISH")
      BY <1>8, PlainFromClient DEF RecvClientFinish, TypeOK, NetTypeOK
    <2>2. Answered(c) /\ \A d \in Client : ShrinksFrom(d)
      BY <1>8, <2>1, AfterTail, ShrinkRead DEF RecvClientFinish, Answered, TypeOK
    <2>3. gc_state = "WAIT_CLIENT" /\ c \in need_client_fd_set
      BY <1>8, DutyAnswerRead
    <2> QED
      BY <1>8, <2>2, <2>3, AnswerHeard DEF RecvClientFinish, clientVars, workerVars
  <1>9. ASSUME NEW c \in Client, RecvClientEOF(c) PROVE Harmless
    <2>1. /\ Life(c) /\ fromClient[c] # << >>
          /\ Head(fromClient[c]) = Msg("EOF") /\ fromClient' = Receive(fromClient, c)
          /\ UNCHANGED <<clientVars, toClient>>
      BY <1>9, PlainFromClient DEF RecvClientEOF, TypeOK, Lives
    <2>2. \A d \in Client : ShrinksFrom(d)
      BY <2>1, ShrinkRead DEF TypeOK
    <2>3. kept[c] = {}
      <3>1. conn[c] = "gone"
        BY <2>1, LifeRead DEF TypeOK, clientVars
      <3> QED BY <3>1 DEF Marked, KeptByTheConnected
    <2>4. CASE c \in need_client_fd_set
      <3>1. gc_state = "WAIT_CLIENT"
        BY <2>4 DEF RoundBookkeeping
      <3> QED
        BY <1>9, <2>2, <2>3, <2>4, <3>1, AnswerHeard DEF RecvClientEOF, clientVars, workerVars
    <2>5. CASE c \notin need_client_fd_set
      BY <1>9, <2>2, <2>5, Quiet DEF RecvClientEOF, clientVars, workerVars
    <2> QED BY <2>4, <2>5
  <1> QED
    BY <1>2, <1>3, <1>4, <1>5, <1>6, <1>7, <1>8, <1>9, NothingToFlush, NoFlushRead
    DEF ControllerFromWorker, ControllerFromClient

LEMMA AgentHarmless ==
  ASSUME Protocol, Marked,
         \/ \E w \in Worker : WorkerStart(w) \/ WorkerRequest(w)
         \/ \E c \in Client : \/ ClientReceive(c) \/ ClientConnect(c) \/ ClientCollect(c)
                              \/ OpStart(c) \/ OpDone(c) \/ Undefer(c)
  PROVE  Harmless
  <1> USE DEF Protocol
  <1>1. UNCHANGED fromClient => \A d \in Client : ShrinksFrom(d)
    BY ShrinkFrame
  <1>2. ASSUME NEW w \in Worker, WorkerStart(w) PROVE Harmless
    <2>1. gc_state = "WAIT_WORKER_START"
      BY <1>2, ShortSequences, MessageTypes, Fields
      DEF WorkerStart, Arrived, WorkersInStep, Idle, Told, Reporting, Open, Sweeping, Swept,
          TypeOK, ControllerTypeOK
    <2> QED BY <1>2, <2>1, Between DEF WorkerStart, ctlVars, clientVars
  <1>3. ASSUME NEW w \in Worker, WorkerRequest(w) PROVE Harmless
    BY <1>1, <1>3, Quiet DEF WorkerRequest, ctlVars, clientVars
  <1>4. ASSUME NEW c \in Client,
               \/ ClientGCStart(c) \/ ClientGCFinish(c) \/ ClientFlushed(c) \/ ClientStat(c)
               \/ OpStart(c) \/ OpDone(c) \/ Undefer(c)
        PROVE  Harmless
    BY <1>1, <1>4, Quiet
    DEF ClientGCStart, ClientGCFinish, ClientFlushed, ClientStat, OpStart, OpDone, Undefer,
        ctlVars, clientVars, workerVars, netVars
  <1>5. ASSUME NEW c \in Client, ClientAck(c) PROVE Harmless
    <2>1. \A d \in Client : ShrinksFrom(d)
      BY <1>1, <1>5 DEF ClientAck
    <2>2. \A d \in Client : conn'[d] # "up" => conn[d] # "up"
      BY <1>5 DEF ClientAck, TypeOK, ClientTypeOK
    <2> QED
      BY <1>5, <2>1, <2>2 DEF Harmless, Settled, ShrinksFrom, ClientAck, ctlVars, workerVars
  <1>6. ASSUME NEW c \in Client, ClientConnect(c) PROVE Harmless
    <2>1. \A d \in Client : ShrinksFrom(d)
      BY <1>6, ShrinkWrite, MessageTypes, Fields DEF ClientConnect, TypeOK
    <2>2. \A d \in Client : conn'[d] # "up" => conn[d] # "up"
      BY <1>6 DEF ClientConnect, TypeOK, ClientTypeOK
    <2> QED
      BY <1>6, <2>1, <2>2 DEF Harmless, Settled, ShrinksFrom, ClientConnect, ctlVars, workerVars
  <1>7. ASSUME NEW c \in Client, ClientCollect(c) PROVE Harmless
    <2>1. \A d \in Client : ShrinksFrom(d)
      BY <1>7, ShrinkWrite, MessageTypes, Fields DEF ClientCollect, TypeOK
    <2> QED BY <1>7, <2>1, Quiet DEF ClientCollect, ctlVars, workerVars
  <1> QED
    BY <1>2, <1>3, <1>4, <1>5, <1>6, <1>7 DEF ClientReceive

-----------------------------------------------------------------------------
(***************************************************************************)
(* The steps that change marks or the history.                             *)
(***************************************************************************)

\* A worker sweeps in a phase in which no marks are made, and what its own
\* marks protect is all there is to protect of its nodes
LEMMA SweepKeeps ==
  ASSUME Protocol, HeapInv, NEW w \in Worker, HeapWorkerFinish(w)
  PROVE  MarkedSurvives' /\ Marked'
  <1> USE DEF Protocol
  <1>1. gc_state = "WAIT_WORKER_FINISH" /\ umgr[w] = 1
    BY FinishTaken DEF HeapWorkerFinish, Sweeping, Managing
  <1>2. umgr' = [umgr EXCEPT ![w] = 0] /\ UNCHANGED <<gc_state, need_client_fd_set, conn, kept>>
    BY <1>1 DEF HeapWorkerFinish, WorkerFinish, ctlVars, clientVars, clientHeap, TypeOK, WorkerTypeOK
  <1>3. /\ store' = store \ ({n \in Node : Home[n] = w} \ marks)
        /\ marks' = marks \ {n \in Node : Home[n] = w}
    BY <1>1 DEF HeapWorkerFinish
  <1>4. \A c \in Client : {n \in kept[c] : Home[n] = w} \subseteq marks
    BY <1>1 DEF HeapInv, MarksUntilSwept
  <1>5. MarkedSurvives'
    BY <1>2, <1>3, <1>4 DEF HeapInv, MarkedSurvives
  <1>6. KeptByTheConnected' /\ MarksOfTheAnswered'
    BY <1>1, <1>2 DEF HeapInv, KeptByTheConnected, MarksOfTheAnswered
  <1>7. MarksUntilSwept'
    <2> SUFFICES ASSUME NEW v \in Worker, NEW c \in Client, umgr'[v] > 0,
                        NEW n \in kept'[c], Home[n] = v
                 PROVE  n \in marks'
      BY DEF MarksUntilSwept
    <2>1. v # w /\ umgr[v] > 0
      BY <1>2 DEF TypeOK, WorkerTypeOK
    <2> QED BY <1>1, <1>2, <1>3, <2>1 DEF HeapInv, MarksUntilSwept
  <1> QED BY <1>5, <1>6, <1>7 DEF Marked

\* What a client reports is marked, and its marks are still to be used
LEMMA ReportKeeps ==
  ASSUME Protocol, HeapInv, NEW c \in Client, HeapMarkDone(c)
  PROVE  MarkedSurvives' /\ Marked'
  <1> USE DEF Protocol
  <1>1. marking[c] > 0
    BY DEF HeapMarkDone, MarkDone
  <1>2. gc_state = "WAIT_CLIENT"
    BY <1>1 DEF Duty, DutyAwaited, Owes, Marking
  <1>3. conn[c] = "up"
    BY <1>1 DEF Lives, Life
  <1>4. UNCHANGED <<gc_state, need_client_fd_set, conn, store>>
    BY DEF HeapMarkDone, MarkDone, ctlVars
  <1>5. /\ marks' = marks \cup names[c]
        /\ \A d \in Client : kept'[d] = IF d = c THEN names[c] \cap store ELSE kept[d]
    BY DEF HeapMarkDone, HeapInv, HeapTypeOK
  <1>6. \A d \in Client \ {c} : Answered(d)' => Answered(d)
    BY ShrinkWrite, MessageTypes DEF HeapMarkDone, MarkDone, TypeOK, ShrinksFrom
  <1>7. MarkedSurvives'
    BY <1>4, <1>5 DEF HeapInv, MarkedSurvives
  <1>8. KeptByTheConnected'
    BY <1>3, <1>4, <1>5 DEF HeapInv, KeptByTheConnected
  <1>9. MarksOfTheAnswered' /\ MarksUntilSwept'
    BY <1>2, <1>4, <1>5, <1>6 DEF HeapInv, MarksOfTheAnswered, MarksUntilSwept, Answered
  <1> QED BY <1>7, <1>8, <1>9 DEF Marked

LEMMA LeaveKeeps ==
  ASSUME Protocol, HeapInv, NEW c \in Client, HeapLeave(c)
  PROVE  MarkedSurvives' /\ Marked'
  <1> USE DEF Protocol
  <1>1. UNCHANGED <<gc_state, need_client_fd_set, umgr, store, marks>>
    BY DEF HeapLeave, ClientLeave, ctlVars, workerVars
  <1>2. \A d \in Client : kept'[d] = IF d = c THEN {} ELSE kept[d]
    BY DEF HeapLeave, HeapInv, HeapTypeOK
  <1>3. \A d \in Client : d # c => conn'[d] = conn[d]
    BY DEF HeapLeave, ClientLeave, TypeOK, ClientTypeOK
  <1>4. \A d \in Client : Answered(d)' => Answered(d)
    BY ShrinkWrite, MessageTypes, Fields DEF HeapLeave, ClientLeave, TypeOK, ShrinksFrom
  <1> QED
    BY <1>1, <1>2, <1>3, <1>4
    DEF HeapInv, MarkedSurvives, Marked, KeptByTheConnected, MarksOfTheAnswered,
        MarksUntilSwept, Answered

-----------------------------------------------------------------------------
\* Every step keeps the types of the heap
LEMMA HeapTypes ==
  ASSUME HeapTypeOK, [HeapNext]_allVars
  PROVE  HeapTypeOK'
  <1> USE DEF HeapTypeOK
  <1>1. CASE ProtocolOnly
    BY <1>1 DEF ProtocolOnly, heapVars
  <1>2. ASSUME NEW w \in Worker, HeapWorkerFinish(w) PROVE HeapTypeOK'
    BY <1>2 DEF HeapWorkerFinish, clientHeap
  <1>3. ASSUME NEW c \in Client, HeapOpStart(c) \/ HeapOpDone(c) \/ HeapUndefer(c)
        PROVE  HeapTypeOK'
    BY <1>3 DEF HeapOpStart, HeapOpDone, HeapUndefer, heapVars
  <1>4. ASSUME NEW c \in Client, OpAssign(c) \/ HeapMarkDone(c) \/ HeapLeave(c)
        PROVE  HeapTypeOK'
    BY <1>4 DEF OpAssign, HeapMarkDone, HeapLeave
  <1>5. ASSUME NEW c \in Client, NEW n \in Node, OpResult(c, n) \/ Delete(c, n)
        PROVE  HeapTypeOK'
    BY <1>5 DEF OpResult, Delete
  <1>6. CASE UNCHANGED allVars
    BY <1>6 DEF allVars, heapVars
  <1> QED BY <1>1, <1>2, <1>3, <1>4, <1>5, <1>6 DEF HeapNext

\* The inductive invariant of the composition
THEOREM HeapAlwaysConsistent ==
  ASSUME MaxFlush = 0 PROVE HeapSpec => []HeapInv
<1>1. HeapInit => HeapInv
  BY DEF HeapInit, Init, HeapInv, HeapTypeOK, MarkedSurvives, KeptByTheConnected,
         MarksOfTheAnswered, MarksUntilSwept
<1>2. Protocol /\ HeapInv /\ [HeapNext]_allVars => HeapInv'
  <2> SUFFICES ASSUME Protocol, HeapInv, [HeapNext]_allVars
               PROVE  MarkedSurvives' /\ Marked'
    BY HeapTypes DEF HeapInv, Marked
  <2>1. Marked
    BY DEF HeapInv, Marked
  <2>2. ASSUME Harmless, store \subseteq store', UNCHANGED <<marks, kept>>
        PROVE  MarkedSurvives' /\ Marked'
    BY <2>1, <2>2, HarmlessStep DEF HeapInv, MarkedSurvives
  <2>3. CASE ProtocolOnly
    BY <2>1, <2>2, <2>3, ControllerHarmless, AgentHarmless DEF ProtocolOnly, heapVars
  <2>4. ASSUME NEW c \in Client, HeapOpStart(c) \/ HeapOpDone(c) \/ HeapUndefer(c)
        PROVE  MarkedSurvives' /\ Marked'
    BY <2>1, <2>2, <2>4, AgentHarmless DEF HeapOpStart, HeapOpDone, HeapUndefer, heapVars
  <2>5. ASSUME UNCHANGED vars PROVE Harmless
    BY <2>5, Quiet, ShrinkFrame DEF vars, ctlVars, workerVars, clientVars, netVars
  <2>6. ASSUME NEW c \in Client,
               OpAssign(c) \/ \E n \in Node : OpResult(c, n) \/ Delete(c, n)
        PROVE  MarkedSurvives' /\ Marked'
    BY <2>2, <2>5, <2>6 DEF OpAssign, OpResult, Delete
  <2>7. CASE UNCHANGED allVars
    BY <2>2, <2>5, <2>7 DEF allVars, heapVars
  <2> QED
    BY <2>3, <2>4, <2>6, <2>7, SweepKeeps, ReportKeeps, LeaveKeeps DEF HeapNext
<1> QED
  BY <1>1, <1>2, ProtocolAlways, HeapImplementsProtocol, PTL DEF HeapSpec

\* A round removes no node that a connected client marked in its last report,
\* for any number of rounds, workers, clients and nodes, when nobody flushes
THEOREM MarkedAlwaysSurvives ==
  ASSUME MaxFlush = 0 PROVE HeapSpec => []MarkedSurvives
<1>1. HeapInv => MarkedSurvives
  BY DEF HeapInv
<1> QED BY <1>1, HeapAlwaysConsistent, PTL
=============================================================================
