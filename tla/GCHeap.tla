------------------------------- MODULE GCHeap -------------------------------
(***************************************************************************)
(* The collection protocol composed with what it collects: the nodes in    *)
(* the unique tables of the workers and the references that clients hold   *)
(* (nametable and reftable of runbdd.c).  A round must not remove a node   *)
(* that a client can still reach.                                          *)
(*                                                                         *)
(* Every action is the action of GCProtocol of the same name together with *)
(* its effect on the heap.  A node is a function: the marks that one root  *)
(* spreads to its descendants are abstracted to the root, and so is the    *)
(* order of the roots, since the client waits for each mark to be answered *)
(* and no other command of its runs in between.                            *)
(***************************************************************************)
EXTENDS GCProtocol

CONSTANTS
  Node,        \* functions
  Home,        \* the worker whose unique table holds a node (its hash)
  Initiators,  \* who asks for collections: "console", "worker", "client"
  Reductions   \* are and, or and xor used, that assign after undefer()?

ASSUME HomeAssumption == Home \in [Node -> Worker]
ASSUME CommandsAssumption ==
  Reductions \in BOOLEAN /\ Initiators \subseteq {"console", "worker", "client"}

VARIABLES
  store,   \* nodes in the unique tables
  marks,   \* nodes in the set of their worker's mark manager
  names,   \* per client: values of nametable
  held,    \* per client: results counted in reftable that have no name yet
  stage,   \* per client: how far its command is
  kept     \* per client, history: the nodes it last marked and reported

heapVars == <<store, marks, names, held, stage, kept>>
clientHeap == <<names, held, stage, kept>>
allVars == <<vars, heapVars>>

HeapInit ==
  /\ Init
  /\ store = {} /\ marks = {}
  /\ names = [c \in Client |-> {}]
  /\ held = [c \in Client |-> {}]
  /\ stage = [c \in Client |-> "none"]
  /\ kept = [c \in Client |-> {}]

-----------------------------------------------------------------------------
\* uop_finish of the mark manager: complete_collection keeps the marked nodes
HeapWorkerFinish(w) ==
  /\ WorkerFinish(w)
  /\ LET here == {n \in Node : Home[n] = w}
     IN  /\ store' = IF umgr[w] = 0 THEN store ELSE store \ (here \ marks)
         /\ marks' = marks \ here
  /\ UNCHANGED clientHeap

HeapOpStart(c) ==
  /\ OpStart(c)
  /\ stage' = [stage EXCEPT ![c] = "asked"]
  /\ UNCHANGED <<store, marks, names, held, kept>>

\* The workers find or insert the result.  A reduction goes on with the result
\* as an operand, and drops the operands it no longer needs.
OpResult(c, n) ==
  /\ pc[c] = "op" /\ marking[c] = 0
  /\ stage[c] = "asked" \/ (Reductions /\ stage[c] = "answered")
  /\ store' = store \cup {n}
  /\ \E rest \in SUBSET held[c] : held' = [held EXCEPT ![c] = rest \cup {n}]
  /\ stage' = [stage EXCEPT ![c] = "answered"]
  /\ UNCHANGED <<vars, marks, names, kept>>

\* assign_ref gives the result a name; what else was held is dereferenced
OpAssign(c) ==
  /\ pc[c] = "op" /\ marking[c] = 0 /\ stage[c] = "answered"
  /\ \E n \in held[c] : names' = [names EXCEPT ![c] = @ \cup {n}]
  /\ held' = [held EXCEPT ![c] = {}]
  /\ stage' = [stage EXCEPT ![c] = "assigned"]
  /\ UNCHANGED <<vars, store, marks, kept>>

HeapOpDone(c) ==
  /\ OpDone(c) /\ stage[c] = "assigned"
  /\ stage' = [stage EXCEPT ![c] = "none"]
  /\ UNCHANGED <<store, marks, names, held, kept>>

\* Most commands call undefer() after assign_ref; tree_reduce and
\* linear_reduce call it while their result has a reference and no name
HeapUndefer(c) ==
  /\ Undefer(c)
  /\ \/ marking[c] > 0
     \/ stage[c] = "assigned"
     \/ Reductions /\ stage[c] = "answered"
  /\ UNCHANGED heapVars

\* client_gc_start marks from the values of nametable.  A name can be that of a
\* node which is gone already: the result of a reduction that ran undefer()
HeapMarkDone(c) ==
  /\ MarkDone(c)
  /\ marks' = marks \cup names[c]
  /\ kept' = [kept EXCEPT ![c] = names[c] \cap store]
  /\ UNCHANGED <<store, names, held, stage>>

\* do_delete, or an assignment that overwrites the name
Delete(c, n) ==
  /\ AtConsole(c) /\ n \in names[c]
  /\ names' = [names EXCEPT ![c] = @ \ {n}]
  /\ UNCHANGED <<vars, store, marks, held, stage, kept>>

HeapLeave(c) ==
  /\ ClientLeave(c)
  /\ names' = [names EXCEPT ![c] = {}]
  /\ held' = [held EXCEPT ![c] = {}]
  /\ kept' = [kept EXCEPT ![c] = {}]
  /\ stage' = [stage EXCEPT ![c] = "none"]
  /\ UNCHANGED <<store, marks>>

\* Steps of the protocol that touch no node.  Flushes, which empty every
\* table, are not composed.
ProtocolOnly ==
  /\ \/ "console" \in Initiators /\ ConsoleCollect
     \/ \E w \in Worker : \/ ControllerFromWorker(w) \/ WorkerStart(w)
                          \/ "worker" \in Initiators /\ WorkerRequest(w)
     \/ \E c \in Client : \/ ControllerFromClient(c) \/ ClientReceive(c)
                          \/ ClientConnect(c)
                          \/ "client" \in Initiators /\ ClientCollect(c)
  /\ UNCHANGED heapVars

HeapNext ==
  \/ ProtocolOnly
  \/ \E w \in Worker : HeapWorkerFinish(w)
  \/ \E c \in Client : \/ HeapOpStart(c) \/ OpAssign(c) \/ HeapOpDone(c)
                       \/ HeapUndefer(c) \/ HeapMarkDone(c) \/ HeapLeave(c)
                       \/ \E n \in Node : OpResult(c, n) \/ Delete(c, n)

HeapSpec == HeapInit /\ [][HeapNext]_allVars

-----------------------------------------------------------------------------
(***************************************************************************)
(* The nodes a client marked stay in the unique tables from the moment it  *)
(* reported its marks to the moment it reports again, whichever workers    *)
(* have swept meanwhile, in this round or the next.                        *)
(***************************************************************************)
MarkedSurvives == \A c \in Client : kept[c] \subseteq store

(***************************************************************************)
(* Why it does: the marks of a client that has reported are at the mark    *)
(* managers when the last client answers, and those of a worker are still  *)
(* there when it sweeps.                                                   *)
(***************************************************************************)
KeptByTheConnected == \A c \in Client : conn[c] # "up" => kept[c] = {}

MarksOfTheAnswered ==
  gc_state = "WAIT_CLIENT" =>
    \A c \in Client :
      c \notin need_client_fd_set \/ InTransit(Msg("GC_FINISH"), fromClient[c])
        => kept[c] \subseteq marks

MarksUntilSwept ==
  gc_state = "WAIT_WORKER_FINISH" =>
    \A w \in Worker : \A c \in Client :
      umgr[w] > 0 => {n \in kept[c] : Home[n] = w} \subseteq marks

HeapTypeOK ==
  /\ store \subseteq Node /\ marks \subseteq Node
  /\ names \in [Client -> SUBSET Node] /\ held \in [Client -> SUBSET Node]
  /\ stage \in [Client -> {"none", "asked", "answered", "assigned"}]
  /\ kept \in [Client -> SUBSET Node]

HeapInv ==
  HeapTypeOK /\ MarkedSurvives /\ KeptByTheConnected /\ MarksOfTheAnswered /\ MarksUntilSwept
=============================================================================
