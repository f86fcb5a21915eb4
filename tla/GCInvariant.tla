----------------------------- MODULE GCInvariant -----------------------------
(***************************************************************************)
(* Inductive strengthenings of the safety properties of GCProtocol: what   *)
(* each connection can hold at each stage of a round.                      *)
(***************************************************************************)
EXTENDS GCProtocol

\* m occurs in s at most once
Once(m, s) == \A i, j \in DOMAIN s : s[i] = m /\ s[j] = m => i = j

-----------------------------------------------------------------------------
(***************************************************************************)
(* Workers, when nothing is flushed.  A worker that is not in a round may  *)
(* have a request on its way, for the generation after its own.            *)
(***************************************************************************)
Asked(w, before) ==
  \/ fromWorker[w] = before
  \/ wstate[w] = "REQUESTED" /\ fromWorker[w] = Append(before, Request(wgen[w] + 1))

\* w takes no part in a round
Resting(w, g) == wstate[w] # "ACTIVE" /\ wgen[w] = g /\ umgr[w] = 0

\* w has a manager, and ends generation g when it drops it
Managing(w, g) == wstate[w] = "ACTIVE" /\ wgen[w] = g - 1 /\ umgr[w] = 1

Idle(w) ==
  /\ Resting(w, gc_generation) /\ toWorker[w] = << >> /\ Asked(w, << >>)
Told(w) ==
  /\ Resting(w, gc_generation - 1) /\ toWorker[w] = <<Msg("GC_START")>>
  /\ Asked(w, << >>)
Reporting(w) ==
  /\ Managing(w, gc_generation) /\ toWorker[w] = << >>
  /\ fromWorker[w] \in {<<Msg("GC_START")>>,
                        <<Request(gc_generation), Msg("GC_START")>>}
Open(w) ==
  /\ Managing(w, gc_generation) /\ toWorker[w] = << >> /\ fromWorker[w] = << >>
Sweeping(w) ==
  /\ Managing(w, gc_generation) /\ toWorker[w] = <<Msg("GC_FINISH")>>
  /\ fromWorker[w] = << >>
Swept(w) ==
  /\ Resting(w, gc_generation) /\ toWorker[w] = << >>
  /\ Asked(w, <<Msg("GC_FINISH")>>)

(***************************************************************************)
(* Every worker is where the state of the controller says, and the counter *)
(* is the number of those that have not been heard of.                     *)
(***************************************************************************)
WorkersInStep ==
  /\ gc_state = "READY" => \A w \in Worker : Idle(w)
  /\ gc_state = "WAIT_WORKER_START" =>
       /\ \A w \in Worker : Told(w) \/ Reporting(w) \/ Open(w)
       /\ need_worker_cnt = Cardinality({w \in Worker : ~Open(w)})
  /\ gc_state = "WAIT_CLIENT" => \A w \in Worker : Open(w)
  /\ gc_state = "WAIT_WORKER_FINISH" =>
       /\ \A w \in Worker : Sweeping(w) \/ Swept(w) \/ Idle(w)
       /\ need_worker_cnt = Cardinality({w \in Worker : ~Idle(w)})

-----------------------------------------------------------------------------
(***************************************************************************)
(* Clients, when nothing is flushed.  What the controller is owed by a     *)
(* client is in one place: on its way to the client, deferred, being       *)
(* marked, or on its way back; and then the controller waits for it.       *)
(***************************************************************************)
Ordered(c) == InTransit(Msg("GC_START"), toClient[c])
Deferred(c) == cstate[c] = "DEFER"
Marking(c) == marking[c] > 0
Answered(c) == InTransit(Msg("GC_FINISH"), fromClient[c])

Owes(c) == Ordered(c) \/ Deferred(c) \/ Marking(c) \/ Answered(c)

OneDutyOf(c) ==
  /\ Ordered(c) => ~Deferred(c) /\ ~Marking(c) /\ ~Answered(c)
  /\ Deferred(c) => ~Marking(c) /\ ~Answered(c)
  /\ Marking(c) => marking[c] = 1 /\ ~Answered(c)
  /\ Once(Msg("GC_START"), toClient[c]) /\ Once(Msg("GC_FINISH"), fromClient[c])
OneDuty == \A c \in Client : OneDutyOf(c)

DutyAwaited ==
  \A c \in Client : Owes(c) => gc_state = "WAIT_CLIENT" /\ c \in need_client_fd_set

-----------------------------------------------------------------------------
(***************************************************************************)
(* The life of a connection, whatever the flushes: registered once, then   *)
(* deferred or admitted, then acknowledged; nothing follows its end.       *)
(***************************************************************************)
Registering(c) == InTransit(Msg("REGISTER"), fromClient[c])
Admitted(c) == c \in client_fd_set \cup defer_client_fd_set

\* Nothing follows the end of file, and only a process that is gone causes it
EndsLast(c) ==
  \A i \in DOMAIN fromClient[c] :
    fromClient[c][i] = Msg("EOF") => i = Len(fromClient[c]) /\ conn[c] = "gone"

Life(c) ==
  /\ Once(Msg("REGISTER"), fromClient[c])
  /\ EndsLast(c)
  /\ conn[c] = "off" => ~Admitted(c) /\ ~Registering(c)
  /\ conn[c] = "up" => c \in client_fd_set
  /\ conn[c] = "gone" => toClient[c] = << >>
  /\ conn[c] # "up" => cstate[c] = "IDLE" /\ marking[c] = 0 /\ pc[c] = "idle"
  /\ Registering(c) => conn[c] \in {"wait", "gone"} /\ ~Admitted(c)
  /\ InTransit(Msg("ACK_AGENT"), toClient[c]) => c \in client_fd_set
  /\ c \in defer_client_fd_set => c \notin client_fd_set
Lives == \A c \in Client : Life(c)

RoundInv == WorkersInStep /\ OneDuty /\ DutyAwaited /\ Lives
=============================================================================
