----------------------------- MODULE GCProtocol -----------------------------
(***************************************************************************)
(* The distributed garbage-collection protocol: the controller's state     *)
(* machine (controller.c, handle_gc_msg and the handlers that feed it) and *)
(* the part of every worker and client agent (agent.c) that answers it.    *)
(*                                                                         *)
(* The controller talks to each agent over one TCP connection, a FIFO in   *)
(* each direction.  A round goes READY -> WAIT_WORKER_START ->             *)
(* WAIT_CLIENT -> WAIT_WORKER_FINISH -> READY: every worker opens a mark   *)
(* manager, every client marks from its roots, every worker sweeps.        *)
(*                                                                         *)
(* A member of Client is one connection of a client process; a process     *)
(* that connects again is another member.  All routers and workers are     *)
(* registered (the registration barrier is a module of its own in the      *)
(* plan), and the client limit is not reached.                             *)
(***************************************************************************)
EXTENDS Integers, Sequences, FiniteSets

CONSTANTS
  Worker,     \* connections of workers
  Client,     \* connections of clients, over the whole run
  NoClient,   \* "no descriptor": the -1 of flush_requestor_fd
  Leavers,    \* clients that may disconnect or die
  LazyOps,    \* may a command end without calling undefer()?
  MaxGen,     \* bound: no collection is requested once gc_generation = MaxGen
  MaxFlush    \* bound: number of flush commands in a run

ASSUME WorkersAssumption == IsFiniteSet(Worker) /\ Worker # {}
ASSUME ClientsAssumption == NoClient \notin Client /\ Leavers \subseteq Client
ASSUME BoundsAssumption ==
  MaxGen \in Nat /\ MaxFlush \in Nat /\ LazyOps \in BOOLEAN

VARIABLES
  (* controller *)
  gc_state, gc_generation, need_worker_cnt,
  client_fd_set, need_client_fd_set, defer_client_fd_set,
  stat_message_cnt, flush_requestor_fd,
  (* each worker agent *)
  wstate,      \* its gc_state
  wgen,        \* its gc_generation
  umgr,        \* how many managers with id 0 are on its umgr_list
  (* each client agent *)
  conn,        \* life of the process: "off", "wait" (in init_agent), "up", "gone"
  cstate,      \* its gc_state
  blocked,     \* the console's block_flag
  pc,          \* "op" while a command is being executed, else "idle"
  marking,     \* how many calls of gc_start are on its stack
  (* connections *)
  toWorker, fromWorker, toClient, fromClient,
  (* bound *)
  flushes

ctlVars    == <<gc_state, gc_generation, need_worker_cnt, client_fd_set,
                need_client_fd_set, defer_client_fd_set>>
statVars   == <<stat_message_cnt, flush_requestor_fd>>
workerVars == <<wstate, wgen, umgr>>
clientVars == <<conn, cstate, blocked, pc, marking>>
netVars    == <<toWorker, fromWorker, toClient, fromClient>>
vars == <<ctlVars, statVars, workerVars, clientVars, netVars, flushes>>

(***************************************************************************)
(* Messages.  Only MSG_GC_REQUEST carries data, the generation requested.  *)
(***************************************************************************)
Msg(t)   == [type |-> t, gen |-> 0]
Request(g) == [type |-> "GC_REQUEST", gen |-> g]
Message  ==
  [type : {"REGISTER", "ACK_AGENT", "GC_START", "GC_FINISH", "DO_FLUSH", "STAT",
           "EOF"}, gen : {0}]
    \cup [type : {"GC_REQUEST"}, gen : Nat]

\* The next message of connection ch[x] is of type t
Arrived(ch, x, t) == ch[x] # << >> /\ Head(ch[x]).type = t
Receive(ch, x) == [ch EXCEPT ![x] = Tail(@)]
Send(ch, x, m) == [ch EXCEPT ![x] = Append(@, m)]
SendAll(ch, S, m) ==
  [x \in DOMAIN ch |-> IF x \in S THEN Append(ch[x], m) ELSE ch[x]]

\* What is written to a process that is gone reaches nobody
Listening(S) == {c \in S : conn[c] # "gone"}

Init ==
  /\ gc_state = "READY" /\ gc_generation = 0 /\ need_worker_cnt = 0
  /\ client_fd_set = {} /\ need_client_fd_set = {} /\ defer_client_fd_set = {}
  /\ stat_message_cnt = 0 /\ flush_requestor_fd = NoClient
  /\ wstate = [w \in Worker |-> "IDLE"]
  /\ wgen = [w \in Worker |-> 0]
  /\ umgr = [w \in Worker |-> 0]
  /\ conn = [c \in Client |-> "off"]
  /\ cstate = [c \in Client |-> "IDLE"]
  /\ blocked = [c \in Client |-> FALSE]
  /\ pc = [c \in Client |-> "idle"]
  /\ marking = [c \in Client |-> 0]
  /\ toWorker = [w \in Worker |-> << >>]
  /\ fromWorker = [w \in Worker |-> << >>]
  /\ toClient = [c \in Client |-> << >>]
  /\ fromClient = [c \in Client |-> << >>]
  /\ flushes = 0

-----------------------------------------------------------------------------
(***************************************************************************)
(* The controller's own commands.                                          *)
(***************************************************************************)

\* do_controller_collect_cmd, once gc_state is known to be GC_READY
StartCollection ==
  /\ gc_generation' = gc_generation + 1
  /\ gc_state' = "WAIT_WORKER_START"
  /\ need_worker_cnt' = Cardinality(Worker)
  /\ toWorker' = SendAll(toWorker, Worker, Msg("GC_START"))
  /\ UNCHANGED <<client_fd_set, need_client_fd_set, defer_client_fd_set>>

\* (mutant) the sets of clients survive a flush
FlushSystemForgets ==
  /\ toWorker' = SendAll(toWorker, Worker, Msg("DO_FLUSH"))
  /\ toClient' = SendAll(toClient, Listening(client_fd_set), Msg("DO_FLUSH"))
  /\ gc_state' = "READY" /\ need_worker_cnt' = 0
  /\ UNCHANGED <<gc_generation, client_fd_set, need_client_fd_set, defer_client_fd_set>>

\* do_controller_flush_cmd: whatever round is underway is forgotten, and so
\* are the clients that wait for its end
FlushSystem ==
  /\ toWorker' = SendAll(toWorker, Worker, Msg("DO_FLUSH"))
  /\ toClient' = SendAll(toClient, Listening(client_fd_set), Msg("DO_FLUSH"))
  /\ gc_state' = "READY"
  /\ need_worker_cnt' = 0
  /\ need_client_fd_set' = {}
  /\ defer_client_fd_set' = {}
  /\ UNCHANGED <<gc_generation, client_fd_set>>

ConsoleCollect ==
  /\ gc_state = "READY" /\ gc_generation < MaxGen
  /\ StartCollection
  /\ UNCHANGED <<statVars, workerVars, clientVars, fromWorker, toClient,
                 fromClient, flushes>>

ConsoleFlush ==
  /\ flushes < MaxFlush /\ flushes' = flushes + 1
  /\ FlushSystem
  /\ UNCHANGED <<statVars, workerVars, clientVars, fromWorker, fromClient>>

-----------------------------------------------------------------------------
(***************************************************************************)
(* The controller receives a message from a client.  It selects the        *)
(* descriptors of new connections and of client_fd_set; those of deferred  *)
(* clients are not read until they are admitted.                           *)
(***************************************************************************)

RecvRegister(c) ==
  /\ Arrived(fromClient, c, "REGISTER")
  /\ fromClient' = Receive(fromClient, c)
  /\ \/ /\ gc_state = "READY"
        /\ client_fd_set' = client_fd_set \cup {c}
        /\ toClient' = SendAll(toClient, Listening({c}), Msg("ACK_AGENT"))
        /\ UNCHANGED defer_client_fd_set
     \/ /\ gc_state # "READY"
        /\ defer_client_fd_set' = defer_client_fd_set \cup {c}
        /\ UNCHANGED <<client_fd_set, toClient>>
  /\ UNCHANGED <<gc_state, gc_generation, need_worker_cnt, need_client_fd_set,
                 statVars, workerVars, clientVars, toWorker, fromWorker, flushes>>

\* MSG_GC_START from a client: the request is dropped unless GC_READY
RecvClientCollect(c) ==
  /\ c \in client_fd_set /\ Arrived(fromClient, c, "GC_START")
  /\ fromClient' = Receive(fromClient, c)
  /\ \/ gc_state = "READY" /\ StartCollection
     \/ gc_state # "READY" /\ UNCHANGED <<ctlVars, toWorker>>
  /\ UNCHANGED <<statVars, workerVars, clientVars, fromWorker, toClient, flushes>>

AnyClient(c) == TRUE    \* (mutant)
LastClient(c) == need_client_fd_set = {c}

\* The GC_WAIT_CLIENT case of handle_gc_msg for a member of the needed set
ClientResponded(c) ==
  /\ need_client_fd_set' = need_client_fd_set \ {c}
  /\ \/ /\ LastClient(c)
        /\ toWorker' = SendAll(toWorker, Worker, Msg("GC_FINISH"))
        /\ gc_state' = "WAIT_WORKER_FINISH"
        /\ need_worker_cnt' = Cardinality(Worker)
     \/ /\ ~LastClient(c)
        /\ UNCHANGED <<toWorker, gc_state, need_worker_cnt>>

RecvClientFinish(c) ==
  /\ c \in client_fd_set /\ Arrived(fromClient, c, "GC_FINISH")
  /\ fromClient' = Receive(fromClient, c)
  /\ \/ /\ gc_state = "WAIT_CLIENT" /\ c \in need_client_fd_set
        /\ ClientResponded(c)
     \/ /\ ~(gc_state = "WAIT_CLIENT" /\ c \in need_client_fd_set)
        /\ UNCHANGED <<need_client_fd_set, toWorker, gc_state, need_worker_cnt>>
  /\ UNCHANGED <<gc_generation, client_fd_set, defer_client_fd_set, statVars,
                 workerVars, clientVars, fromWorker, toClient, flushes>>

DeadDoNotAnswer(c) == FALSE    \* (mutant)
DeadAnswers(c) == c \in need_client_fd_set

\* End of file on a client's descriptor counts as its response
RecvClientEOF(c) ==
  /\ c \in client_fd_set /\ Arrived(fromClient, c, "EOF")
  /\ fromClient' = Receive(fromClient, c)
  /\ client_fd_set' = client_fd_set \ {c}
  /\ \/ DeadAnswers(c) /\ ClientResponded(c)
     \/ /\ ~DeadAnswers(c)
        /\ UNCHANGED <<need_client_fd_set, toWorker, gc_state, need_worker_cnt>>
  /\ UNCHANGED <<gc_generation, defer_client_fd_set, statVars, workerVars,
                 clientVars, fromWorker, toClient, flushes>>

RecvClientFlush(c) ==
  /\ c \in client_fd_set /\ Arrived(fromClient, c, "DO_FLUSH")
  /\ fromClient' = Receive(fromClient, c)
  /\ flush_requestor_fd' = c
  /\ FlushSystem
  /\ UNCHANGED <<stat_message_cnt, workerVars, clientVars, fromWorker, flushes>>

-----------------------------------------------------------------------------
(***************************************************************************)
(* The controller receives a message from a worker.                        *)
(***************************************************************************)

LastWorkerButOne == need_worker_cnt <= 2    \* (mutant)
LastWorker == need_worker_cnt = 1

\* Workers are counted, not named: the count reaching zero opens the marking
RecvWorkerStart(w) ==
  /\ Arrived(fromWorker, w, "GC_START")
  /\ fromWorker' = Receive(fromWorker, w)
  /\ \/ /\ gc_state = "WAIT_WORKER_START"
        /\ need_worker_cnt' = need_worker_cnt - 1
        /\ \/ /\ LastWorker
              /\ toClient' = SendAll(toClient, Listening(client_fd_set), Msg("GC_START"))
              /\ need_client_fd_set' = client_fd_set
              /\ gc_state' = "WAIT_CLIENT"
           \/ /\ ~LastWorker
              /\ UNCHANGED <<toClient, need_client_fd_set, gc_state>>
     \/ /\ gc_state # "WAIT_WORKER_START"
        /\ UNCHANGED <<need_worker_cnt, toClient, need_client_fd_set, gc_state>>
  /\ UNCHANGED <<gc_generation, client_fd_set, defer_client_fd_set, statVars,
                 workerVars, clientVars, toWorker, fromClient, flushes>>

\* (mutant) the deferred clients are forgotten
EndRoundForgets ==
  /\ toClient' = SendAll(toClient, Listening(client_fd_set), Msg("GC_FINISH"))
  /\ defer_client_fd_set' = {} /\ UNCHANGED client_fd_set
  /\ gc_state' = "READY"

\* The round ends and the deferred clients are admitted.  They are acknowledged
\* after the others have been told of the end.
EndRound ==
  /\ toClient' = SendAll(SendAll(toClient, Listening(client_fd_set), Msg("GC_FINISH")),
                         Listening(defer_client_fd_set), Msg("ACK_AGENT"))
  /\ client_fd_set' = client_fd_set \cup defer_client_fd_set
  /\ defer_client_fd_set' = {}
  /\ gc_state' = "READY"

RecvWorkerFinish(w) ==
  /\ Arrived(fromWorker, w, "GC_FINISH")
  /\ fromWorker' = Receive(fromWorker, w)
  /\ LET clients == <<toClient, client_fd_set, defer_client_fd_set>>
     IN  \/ /\ gc_state = "WAIT_WORKER_FINISH"
            /\ need_worker_cnt' = need_worker_cnt - 1
            /\ \/ LastWorker /\ EndRound
               \/ ~LastWorker /\ UNCHANGED <<clients, gc_state>>
         \/ /\ gc_state # "WAIT_WORKER_FINISH"
            /\ UNCHANGED <<need_worker_cnt, clients, gc_state>>
  /\ UNCHANGED <<gc_generation, need_client_fd_set, statVars, workerVars,
                 clientVars, toWorker, fromClient, flushes>>

HonoursAlways(g) == g = gc_generation + 1    \* (mutant)
Honours(g) == gc_state = "READY" /\ g = gc_generation + 1

\* MSG_GC_REQUEST is honoured only in GC_READY and for the next generation
RecvWorkerRequest(w) ==
  /\ Arrived(fromWorker, w, "GC_REQUEST")
  /\ fromWorker' = Receive(fromWorker, w)
  /\ LET g == Head(fromWorker[w]).gen
     IN  \/ Honours(g) /\ StartCollection
         \/ ~Honours(g) /\ UNCHANGED <<ctlVars, toWorker>>
  /\ UNCHANGED <<statVars, workerVars, clientVars, toClient, fromClient, flushes>>

StatsOverflow == stat_message_cnt + 1 > Cardinality(Worker)    \* (mutant)
StatsComplete == stat_message_cnt + 1 >= Cardinality(Worker)

\* add_stat_message: a full set of statistics goes to the requestor of the flush
RecvStat(w) ==
  /\ Arrived(fromWorker, w, "STAT")
  /\ fromWorker' = Receive(fromWorker, w)
  /\ \/ /\ StatsComplete
        /\ stat_message_cnt' = 0
        /\ flush_requestor_fd' = NoClient
        /\ toClient' = SendAll(toClient, Listening({flush_requestor_fd} \cap Client),
                               Msg("STAT"))
     \/ /\ ~StatsComplete
        /\ stat_message_cnt' = stat_message_cnt + 1
        /\ UNCHANGED <<flush_requestor_fd, toClient>>
  /\ UNCHANGED <<ctlVars, workerVars, clientVars, toWorker, fromClient, flushes>>

-----------------------------------------------------------------------------
(***************************************************************************)
(* Worker agents (run_worker).                                             *)
(***************************************************************************)

\* gc_start: open a manager for the marks (uop_start with id 0), then report
WorkerStart(w) ==
  /\ Arrived(toWorker, w, "GC_START")
  /\ toWorker' = Receive(toWorker, w)
  /\ wstate' = [wstate EXCEPT ![w] = "ACTIVE"]
  /\ umgr' = [umgr EXCEPT ![w] = @ + 1]
  /\ fromWorker' = Send(fromWorker, w, Msg("GC_START"))
  /\ UNCHANGED <<ctlVars, statVars, wgen, clientVars, toClient, fromClient, flushes>>

DropOne(n) == IF n = 0 THEN 0 ELSE n - 1

\* gc_finish: sweep with the marks of the first manager with id 0 and drop it
\* (uop_finish; without one it does nothing), then report
WorkerFinish(w) ==
  /\ Arrived(toWorker, w, "GC_FINISH")
  /\ toWorker' = Receive(toWorker, w)
  /\ umgr' = [umgr EXCEPT ![w] = DropOne(@)]
  /\ fromWorker' = Send(fromWorker, w, Msg("GC_FINISH"))
  /\ wstate' = [wstate EXCEPT ![w] = "IDLE"]
  /\ wgen' = [wgen EXCEPT ![w] = @ + 1]
  /\ UNCHANGED <<ctlVars, statVars, clientVars, toClient, fromClient, flushes>>

\* flush_dref_mgr drops every manager; gc_state and gc_generation stay
WorkerFlush(w) ==
  /\ Arrived(toWorker, w, "DO_FLUSH")
  /\ toWorker' = Receive(toWorker, w)
  /\ umgr' = [umgr EXCEPT ![w] = 0]
  /\ fromWorker' = Send(fromWorker, w, Msg("STAT"))
  /\ UNCHANGED <<ctlVars, statVars, wstate, wgen, clientVars, toClient,
                 fromClient, flushes>>

\* request_gc, at the end of a canonize operation that filled the unique table
WorkerRequest(w) ==
  /\ wstate[w] = "IDLE" /\ gc_generation < MaxGen
  /\ fromWorker' = Send(fromWorker, w, Request(wgen[w] + 1))
  /\ wstate' = [wstate EXCEPT ![w] = "REQUESTED"]
  /\ UNCHANGED <<ctlVars, statVars, wgen, umgr, clientVars, toWorker, toClient,
                 fromClient, flushes>>

-----------------------------------------------------------------------------
(***************************************************************************)
(* Client agents.  A busy client is inside fire_and_wait_defer, waiting    *)
(* for the answer to an operation or to a mark; otherwise it is in         *)
(* run_client, where console commands run unless the console is blocked.   *)
(***************************************************************************)
Busy(c) == pc[c] = "op" \/ marking[c] > 0
AtConsole(c) == conn[c] = "up" /\ ~Busy(c) /\ ~blocked[c]

ClientConnect(c) ==
  /\ conn[c] = "off"
  /\ conn' = [conn EXCEPT ![c] = "wait"]
  /\ fromClient' = Send(fromClient, c, Msg("REGISTER"))
  /\ UNCHANGED <<ctlVars, statVars, workerVars, cstate, blocked, pc, marking,
                 toWorker, fromWorker, toClient, flushes>>

ClientAck(c) ==
  /\ conn[c] = "wait" /\ Arrived(toClient, c, "ACK_AGENT")
  /\ toClient' = Receive(toClient, c)
  /\ conn' = [conn EXCEPT ![c] = "up"]
  /\ UNCHANGED <<ctlVars, statVars, workerVars, cstate, blocked, pc, marking,
                 toWorker, fromWorker, fromClient, flushes>>

\* quit, end of input, a signal or a crash: the kernel closes the connection
ClientLeave(c) ==
  /\ c \in Leavers /\ conn[c] \in {"wait", "up"}
  /\ conn' = [conn EXCEPT ![c] = "gone"]
  /\ cstate' = [cstate EXCEPT ![c] = "IDLE"]
  /\ blocked' = [blocked EXCEPT ![c] = FALSE]
  /\ pc' = [pc EXCEPT ![c] = "idle"]
  /\ marking' = [marking EXCEPT ![c] = 0]
  /\ toClient' = [toClient EXCEPT ![c] = << >>]
  /\ fromClient' = Send(fromClient, c, Msg("EOF"))
  /\ UNCHANGED <<ctlVars, statVars, workerVars, toWorker, fromWorker, flushes>>

\* A command that needs answers from the workers
OpStart(c) ==
  /\ AtConsole(c)
  /\ pc' = [pc EXCEPT ![c] = "op"]
  /\ UNCHANGED <<ctlVars, statVars, workerVars, conn, cstate, blocked, marking,
                 netVars, flushes>>

\* Commands end with undefer(), except the ones LazyOps stands for
OpDone(c) ==
  /\ pc[c] = "op" /\ marking[c] = 0
  /\ cstate[c] = "DEFER" => LazyOps
  /\ pc' = [pc EXCEPT ![c] = "idle"]
  /\ UNCHANGED <<ctlVars, statVars, workerVars, conn, cstate, blocked, marking,
                 netVars, flushes>>

\* do_agent_gc
ClientCollect(c) ==
  /\ AtConsole(c) /\ gc_generation < MaxGen
  /\ blocked' = [blocked EXCEPT ![c] = TRUE]
  /\ fromClient' = Send(fromClient, c, Msg("GC_START"))
  /\ UNCHANGED <<ctlVars, statVars, workerVars, conn, cstate, pc, marking,
                 toWorker, fromWorker, toClient, flushes>>

\* do_agent_flush
ClientFlush(c) ==
  /\ AtConsole(c) /\ flushes < MaxFlush
  /\ flushes' = flushes + 1
  /\ blocked' = [blocked EXCEPT ![c] = TRUE]
  /\ fromClient' = Send(fromClient, c, Msg("DO_FLUSH"))
  /\ cstate' = [cstate EXCEPT ![c] = "IDLE"]
  /\ UNCHANGED <<ctlVars, statVars, workerVars, conn, pc, marking, toWorker,
                 fromWorker, toClient>>

\* MSG_GC_START: a busy client defers it, another starts marking
ClientGCStart(c) ==
  /\ conn[c] = "up" /\ Arrived(toClient, c, "GC_START")
  /\ toClient' = Receive(toClient, c)
  /\ \/ /\ Busy(c)
        /\ cstate' = [cstate EXCEPT ![c] = "DEFER"]
        /\ UNCHANGED marking
     \/ /\ ~Busy(c)
        /\ cstate' = [cstate EXCEPT ![c] = "ACTIVE"]
        /\ marking' = [marking EXCEPT ![c] = 1]
  /\ UNCHANGED <<ctlVars, statVars, workerVars, conn, blocked, pc, toWorker,
                 fromWorker, fromClient, flushes>>

\* undefer() at the end of a command, or between two answers of a command or
\* of a marking
Undefer(c) ==
  /\ Busy(c) /\ cstate[c] = "DEFER"
  /\ cstate' = [cstate EXCEPT ![c] = "ACTIVE"]
  /\ marking' = [marking EXCEPT ![c] = @ + 1]
  /\ UNCHANGED <<ctlVars, statVars, workerVars, conn, blocked, pc, netVars, flushes>>

\* The last mark is answered: client_gc_start returns and gc_start reports
MarkDone(c) ==
  /\ marking[c] > 0 /\ cstate[c] # "DEFER"
  /\ marking' = [marking EXCEPT ![c] = @ - 1]
  /\ fromClient' = Send(fromClient, c, Msg("GC_FINISH"))
  /\ UNCHANGED <<ctlVars, statVars, workerVars, conn, cstate, blocked, pc,
                 toWorker, fromWorker, toClient, flushes>>

\* MSG_GC_FINISH: ignored by a busy client
ClientGCFinish(c) ==
  /\ conn[c] = "up" /\ Arrived(toClient, c, "GC_FINISH")
  /\ toClient' = Receive(toClient, c)
  /\ \/ Busy(c) /\ UNCHANGED <<cstate, blocked>>
     \/ /\ ~Busy(c)
        /\ cstate' = [cstate EXCEPT ![c] = "IDLE"]
        /\ blocked' = [blocked EXCEPT ![c] = FALSE]
  /\ UNCHANGED <<ctlVars, statVars, workerVars, conn, pc, marking, toWorker,
                 fromWorker, fromClient, flushes>>

\* MSG_DO_FLUSH resets the client's functions and none of the state here
ClientFlushed(c) ==
  /\ conn[c] = "up" /\ Arrived(toClient, c, "DO_FLUSH")
  /\ toClient' = Receive(toClient, c)
  /\ UNCHANGED <<ctlVars, statVars, workerVars, clientVars, toWorker, fromWorker,
                 fromClient, flushes>>

\* MSG_STAT: unknown to a busy client
ClientStat(c) ==
  /\ conn[c] = "up" /\ Arrived(toClient, c, "STAT")
  /\ toClient' = Receive(toClient, c)
  /\ blocked' = [blocked EXCEPT ![c] = @ /\ Busy(c)]
  /\ UNCHANGED <<ctlVars, statVars, workerVars, conn, cstate, pc, marking,
                 toWorker, fromWorker, fromClient, flushes>>

-----------------------------------------------------------------------------
ControllerFromWorker(w) ==
  RecvWorkerStart(w) \/ RecvWorkerFinish(w) \/ RecvWorkerRequest(w) \/ RecvStat(w)
ControllerFromClient(c) ==
  \/ RecvRegister(c) \/ RecvClientCollect(c) \/ RecvClientFinish(c)
  \/ RecvClientEOF(c) \/ RecvClientFlush(c)
WorkerReceive(w) == WorkerStart(w) \/ WorkerFinish(w) \/ WorkerFlush(w)
ClientReceive(c) ==
  \/ ClientAck(c) \/ ClientGCStart(c) \/ ClientGCFinish(c)
  \/ ClientFlushed(c) \/ ClientStat(c)
ClientCompute(c) == OpDone(c) \/ Undefer(c) \/ MarkDone(c)
ClientCommand(c) ==
  \/ ClientConnect(c) \/ ClientLeave(c) \/ OpStart(c)
  \/ ClientCollect(c) \/ ClientFlush(c)

Next ==
  \/ ConsoleCollect \/ ConsoleFlush
  \/ \E w \in Worker : ControllerFromWorker(w) \/ WorkerReceive(w) \/ WorkerRequest(w)
  \/ \E c \in Client : \/ ControllerFromClient(c) \/ ClientReceive(c)
                       \/ ClientCompute(c) \/ ClientCommand(c)

Spec == Init /\ [][Next]_vars

(***************************************************************************)
(* Every process serves each readable connection on each turn of its       *)
(* select loop, and an operation sent to the workers is answered.  Nobody  *)
(* has to connect, leave, type a command or fill a table.                  *)
(***************************************************************************)
Fairness ==
  /\ \A w \in Worker : /\ WF_vars(ControllerFromWorker(w))
                       /\ WF_vars(WorkerReceive(w))
  /\ \A c \in Client : /\ WF_vars(ControllerFromClient(c))
                       /\ WF_vars(ClientReceive(c))
                       /\ WF_vars(ClientCompute(c))
FairSpec == Spec /\ Fairness

-----------------------------------------------------------------------------
ControllerTypeOK ==
  /\ gc_state \in {"READY", "WAIT_WORKER_START", "WAIT_CLIENT", "WAIT_WORKER_FINISH"}
  /\ gc_generation \in Nat /\ need_worker_cnt \in Int
  /\ client_fd_set \subseteq Client /\ need_client_fd_set \subseteq Client
  /\ defer_client_fd_set \subseteq Client
\* stat_messages has worker_cnt entries
StatTypeOK ==
  /\ stat_message_cnt \in 0..(Cardinality(Worker) - 1)
  /\ flush_requestor_fd \in Client \cup {NoClient}
WorkerTypeOK ==
  /\ wstate \in [Worker -> {"IDLE", "REQUESTED", "ACTIVE"}]
  /\ wgen \in [Worker -> Nat] /\ umgr \in [Worker -> Nat]
ClientTypeOK ==
  /\ conn \in [Client -> {"off", "wait", "up", "gone"}]
  /\ cstate \in [Client -> {"IDLE", "DEFER", "ACTIVE"}]
  /\ blocked \in [Client -> BOOLEAN] /\ pc \in [Client -> {"idle", "op"}]
  /\ marking \in [Client -> Nat]
NetTypeOK ==
  /\ toWorker \in [Worker -> Seq(Message)] /\ fromWorker \in [Worker -> Seq(Message)]
  /\ toClient \in [Client -> Seq(Message)] /\ fromClient \in [Client -> Seq(Message)]
TypeOK == /\ ControllerTypeOK /\ StatTypeOK /\ WorkerTypeOK /\ ClientTypeOK
          /\ NetTypeOK /\ flushes \in Nat

InTransit(m, s) == \E i \in DOMAIN s : s[i] = m

\* c has been told to mark, or will be, and has not finished
OwesMarks(c) ==
  \/ InTransit(Msg("GC_START"), toClient[c])
  \/ cstate[c] = "DEFER"
  \/ marking[c] > 0

(***************************************************************************)
(* Steps 2 and 3 of the protocol comment in controller.c: clients mark     *)
(* only when all workers are ready.  A mark that reaches a worker without  *)
(* a manager is dropped (find_umgr fails in do_uop_down_op) and its client *)
(* waits for ever; with two managers the sweep would use only one.         *)
(***************************************************************************)
MarkersHaveManagers ==
  \A c \in Client : marking[c] > 0 => \A w \in Worker : umgr[w] = 1

(***************************************************************************)
(* Steps 4 and 5: no worker is told to sweep, or is still to report its    *)
(* sweep, while a client has marks to make for this round.                 *)
(***************************************************************************)
NoSweepWhileMarking ==
  (\E w \in Worker : \/ InTransit(Msg("GC_FINISH"), toWorker[w])
                     \/ InTransit(Msg("GC_FINISH"), fromWorker[w]))
    => \A c \in Client : ~OwesMarks(c)

(***************************************************************************)
(* Every response the controller reads is one it is waiting for: the       *)
(* "Unexpected" branches of handle_gc_msg are taken by no response of a    *)
(* worker or client, and no worker's request is ever outdated.             *)
(***************************************************************************)
NoUnexpectedResponse ==
  /\ \A w \in Worker :
       /\ Arrived(fromWorker, w, "GC_START") => gc_state = "WAIT_WORKER_START"
       /\ Arrived(fromWorker, w, "GC_FINISH") => gc_state = "WAIT_WORKER_FINISH"
       /\ Arrived(fromWorker, w, "GC_REQUEST") /\ gc_state = "READY"
            => Head(fromWorker[w]).gen = gc_generation + 1
  /\ \A c \in Client :
       Arrived(fromClient, c, "GC_FINISH")
         => gc_state = "WAIT_CLIENT" /\ c \in need_client_fd_set

(***************************************************************************)
(* The controller and the workers count collections independently          *)
(* (controller.c:288, agent.c:1276) and agree between rounds.              *)
(***************************************************************************)
GenerationsAgree ==
  \A w \in Worker : /\ wgen[w] \in {gc_generation, gc_generation - 1}
                    /\ gc_state = "READY" => wgen[w] = gc_generation

(***************************************************************************)
(* A client that arrives during a round runs nothing before the round is   *)
(* over, so it holds no function that the round could miss.                *)
(***************************************************************************)
NewcomersWait ==
  \A c \in Client :
    /\ c \in defer_client_fd_set
         => /\ gc_state # "READY" /\ c \notin client_fd_set
            /\ conn[c] \in {"wait", "gone"}
    /\ conn[c] = "up" => c \in client_fd_set

(***************************************************************************)
(* The controller's bookkeeping, whatever the flushes: it counts workers   *)
(* exactly while it waits for workers, names clients only while it waits   *)
(* for clients (so that the end of file of one, which is not guarded by    *)
(* gc_state, may count as its response), and defers only during a round.   *)
(***************************************************************************)
RoundBookkeeping ==
  /\ need_worker_cnt \in
       IF gc_state \in {"READY", "WAIT_CLIENT"} THEN {0} ELSE 1..Cardinality(Worker)
  /\ need_client_fd_set # {} => gc_state = "WAIT_CLIENT"
  /\ need_client_fd_set \subseteq client_fd_set
  /\ defer_client_fd_set # {} => gc_state # "READY"

\* The messages of type t on the connections ch of the workers
Occurrences(ch, t) ==
  UNION {{w} \X {i \in DOMAIN ch[w] : ch[w][i].type = t} : w \in Worker}

\* How many statistics the workers have to send or have sent
Owed == Cardinality(Occurrences(toWorker, "DO_FLUSH"))
          + Cardinality(Occurrences(fromWorker, "STAT"))

(***************************************************************************)
(* Whatever the order of flushes and answers, the statistics that are owed *)
(* complete the sets add_stat_message accumulates, none left over, and the *)
(* client that asked is remembered only while some are owed.               *)
(***************************************************************************)
StatsAccounted ==
  /\ (Owed + stat_message_cnt) % Cardinality(Worker) = 0
  /\ flush_requestor_fd # NoClient => Owed > 0

(***************************************************************************)
(* Liveness.  A round ends, provided a client that stays takes part.       *)
(***************************************************************************)
RoundEndsWithClient ==
  \A c \in Client \ Leavers :
    (gc_state # "READY" /\ c \in client_fd_set) ~> gc_state = "READY"

\* A client deferred during a round is admitted (same proviso), or is gone
DeferredAdmitted ==
  \A c \in Client : \A d \in Client \ Leavers :
    (c \in defer_client_fd_set /\ d \in client_fd_set)
      ~> (c \in client_fd_set \/ conn[c] = "gone")

\* do_agent_gc blocks the console "until gc completes" (agent.c:415): whatever
\* becomes of the request, the console is unblocked again
ConsoleReleased == \A c \in Client : blocked[c] ~> ~blocked[c]

-----------------------------------------------------------------------------
(***************************************************************************)
(* Without flushes the protocol implements GCRound: a worker is open while *)
(* it has a manager for marks.                                             *)
(***************************************************************************)
Phase == CASE gc_state = "READY" -> "idle"
           [] gc_state = "WAIT_WORKER_START" -> "opening"
           [] gc_state = "WAIT_CLIENT" -> "marking"
           [] gc_state = "WAIT_WORKER_FINISH" -> "sweeping"

Round == INSTANCE GCRound WITH phase <- Phase,
                               open <- {w \in Worker : umgr[w] > 0},
                               toMark <- need_client_fd_set

\* The numbered steps 0 to 7 of the comment of controller.c:80
ImplementsRound == Round!Spec
=============================================================================
