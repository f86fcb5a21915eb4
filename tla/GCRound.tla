------------------------------- MODULE GCRound -------------------------------
(***************************************************************************)
(* What the garbage-collection protocol promises (the numbered steps of    *)
(* the comment at the head of controller.c), with no messages: workers     *)
(* open for marks, then the clients taking part mark, then workers sweep.  *)
(* GCProtocol implements it when nobody flushes the system.                *)
(***************************************************************************)
CONSTANTS Worker, Client

VARIABLES
  phase,     \* "idle", "opening", "marking", "sweeping"
  open,      \* workers that accept marks
  toMark     \* clients that have still to mark

vars == <<phase, open, toMark>>

Init == phase = "idle" /\ open = {} /\ toMark = {}

Begin ==
  /\ phase = "idle"
  /\ phase' = "opening"
  /\ UNCHANGED <<open, toMark>>

\* A worker starts to accept marks
Open(w) ==
  /\ phase = "opening" /\ w \notin open
  /\ open' = open \cup {w}
  /\ UNCHANGED <<phase, toMark>>

\* Once all do, the clients that are connected are to mark
BeginMarking ==
  /\ phase = "opening" /\ open = Worker
  /\ phase' = "marking"
  /\ toMark' \in SUBSET Client
  /\ UNCHANGED open

\* A client has marked or is gone; the last one lets the workers sweep
Marked(c) ==
  /\ phase = "marking" /\ c \in toMark
  /\ toMark' = toMark \ {c}
  /\ phase' = IF toMark = {c} THEN "sweeping" ELSE "marking"
  /\ UNCHANGED open

Sweep(w) ==
  /\ phase = "sweeping" /\ w \in open
  /\ open' = open \ {w}
  /\ UNCHANGED <<phase, toMark>>

End ==
  /\ phase = "sweeping" /\ open = {}
  /\ phase' = "idle"
  /\ UNCHANGED <<open, toMark>>

Next ==
  \/ Begin \/ BeginMarking \/ End
  \/ \E w \in Worker : Open(w) \/ Sweep(w)
  \/ \E c \in Client : Marked(c)

Spec == Init /\ [][Next]_vars
=============================================================================
