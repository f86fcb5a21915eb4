----------------------------- MODULE MCDistITE ------------------------------
(***************************************************************************)
(* DistITE for TLC: three variables, and requests that need one triple     *)
(* three times, up to complement, so that requests of one operation and of *)
(* two clients meet in a deferred list with different signs.               *)
(***************************************************************************)
EXTENDS DistITEProperties

CONSTANTS w1, w2, c1, c2, NoRef, NoValue

(* Complement bit, then type, then any order. *)
Weight == [r \in Ref |-> MapThenSumSet(LAMBDA p : 2 ^ MapThenSumSet(LAMBDA v : 2 ^ (v - 1), p), r)]
GreaterWord(a, b) == LET Rank(r) == <<REF_GET_NEG(r), REF_IS_FUNCT(r)>> IN
    IF Rank(a) # Rank(b)
    THEN \/ REF_GET_NEG(a) /\ ~REF_GET_NEG(b)
         \/ REF_GET_NEG(a) = REF_GET_NEG(b) /\ REF_IS_FUNCT(a)
    ELSE Weight[a] > Weight[b]

OneNode(node) == IF Weight[node] % 2 = 0 THEN w1 ELSE w2
OneTriple(i, t, e) == IF (Weight[i] + Weight[t]) % 2 = 0 THEN w1 ELSE w2

x1 == REF_VAR(1)
x2 == REF_VAR(2)
x3 == REF_VAR(3)
f  == Ite(x1, REF_NEGATE(x2), x2)

Xors == {<<x1, REF_NEGATE(x2), x2>>, <<f, REF_NEGATE(x3), x3>>, <<x2, REF_NEGATE(x3), x3>>}
Trivial == <<f, REF_ZERO, REF_ONE>>

Requests == Xors \union {Trivial}
=============================================================================
