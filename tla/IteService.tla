----------------------------- MODULE IteService -----------------------------
(***************************************************************************)
(* What distributed ITE promises a client (dist_ite in src/bdd.c): it asks *)
(* for the ITE of three references it knows, one at a time, and gets the   *)
(* reference of that function.                                             *)
(***************************************************************************)
EXTENDS Naturals

CONSTANTS Client,
          Asks,            \* the triples clients may ask for
          Known0,          \* what a client knows at first
          Meaning(_),      \* the reference a triple stands for
          Complement(_),   \* complementing a reference needs no service
          None

VARIABLES asked,           \* client -> the triple it waits for, or None
          known            \* client -> references it has got

vars == <<asked, known>>

Both(r) == {r, Complement(r)}

Init == /\ asked = [c \in Client |-> None]
        /\ known = [c \in Client |-> Known0]

Ask(c) == \E k \in Asks :
    /\ asked[c] = None
    /\ \A n \in 1 .. 3 : k[n] \in known[c]
    /\ asked' = [asked EXCEPT ![c] = k]
    /\ UNCHANGED known

Answer(c) ==
    /\ asked[c] # None
    /\ asked' = [asked EXCEPT ![c] = None]
    /\ known' = [known EXCEPT ![c] = @ \union Both(Meaning(asked[c]))]

(* An answer that needs no worker is there at once. *)
AnswerLocally(c) == \E k \in Asks :
    /\ asked[c] = None
    /\ \A n \in 1 .. 3 : k[n] \in known[c]
    /\ known' = [known EXCEPT ![c] = @ \union Both(Meaning(k))]
    /\ UNCHANGED asked

Next == \E c \in Client : Ask(c) \/ Answer(c) \/ AnswerLocally(c)

Spec == Init /\ [][Next]_vars /\ \A c \in Client : WF_vars(Answer(c))
=============================================================================
