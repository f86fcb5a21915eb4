------------------------------- MODULE BDDRef -------------------------------
(***************************************************************************)
(* References to Boolean functions and the parts of the ITE algorithm that *)
(* need no node table (src/bdd.c).                                         *)
(*                                                                         *)
(* A reference denotes a function by its set of satisfying points, a point *)
(* being the set of the variables that are true in it.  The unique tables  *)
(* give equal functions equal references, so a reference IS the function   *)
(* it denotes here; how hash and uniquifier make it so is left out.  The   *)
(* complement bit is what canonization makes of it: the then-child of a    *)
(* stored node is never complemented, hence a reference is complemented    *)
(* exactly when its function is false where every variable is true.        *)
(***************************************************************************)
EXTENDS Naturals, FiniteSetsExt

CONSTANTS Var,           \* variable indices, which are their levels
          Greater(_, _)  \* the order of two references as unsigned words

ASSUME VarAssumption == Var \subseteq Nat /\ IsFiniteSet(Var) /\ Var # {}

Point == SUBSET Var
Ref   == SUBSET Point

REF_ONE  == Point
REF_ZERO == {}

REF_NEGATE(r)  == Point \ r
REF_GET_NEG(r) == Var \notin r
REF_VAR(v)     == {p \in Point : v \in p}

(***************************************************************************)
(* The two cofactors of a function on a variable, the variables it depends *)
(* on, and its level: that of its topmost variable, or below all of them   *)
(* for a constant.                                                         *)
(***************************************************************************)
Hi(r, v) == {p \in Point : p \union {v} \in r}
Lo(r, v) == {p \in Point : p \ {v} \in r}
Support(r) == {v \in Var : Hi(r, v) # Lo(r, v)}

CONST_VAR == Max(Var) + 1
REF_GET_VAR[r \in Ref] == Min(Support(r) \union {CONST_VAR})

REF_IS_FUNCT(r) == /\ r \notin {REF_ONE, REF_ZERO}
                   /\ \A v \in Var : r \notin {REF_VAR(v), REF_NEGATE(REF_VAR(v))}

(* The function if-then-else, which every operation below must agree with.*)
Ite(i, t, e) == (i \intersect t) \union (e \ i)

Signed(r, neg) == IF neg THEN REF_NEGATE(r) ELSE r

-----------------------------------------------------------------------------
(***************************************************************************)
(* ref_ite_local.  The arguments travel through the fixups as a record     *)
(* [i, t, e, neg, done]: the result wanted is ITE(i, t, e), complemented   *)
(* when neg holds; once done, where the code returns, it is t, complemented*)
(* when neg holds, and no later step applies.                              *)
(***************************************************************************)
Args == [i : Ref, t : Ref, e : Ref, neg : BOOLEAN, done : BOOLEAN]

Return(a, r) == [a EXCEPT !.t = r, !.done = TRUE]

(* The five cases that are known without a recursion. *)
Simple[a \in Args] ==
    IF      a.i = REF_ONE                      THEN Return(a, a.t)
    ELSE IF a.i = REF_ZERO                     THEN Return(a, a.e)
    ELSE IF a.t = a.e                          THEN Return(a, a.t)
    ELSE IF a.t = REF_ONE  /\ a.e = REF_ZERO   THEN Return(a, a.i)
    ELSE IF a.t = REF_ZERO /\ a.e = REF_ONE    THEN Return(a, REF_NEGATE(a.i))
    ELSE a

(* iref is not to be complemented: exchange the branches. *)
RegularIf[a \in Args] ==
    IF ~a.done /\ REF_GET_NEG(a.i)
    THEN [a EXCEPT !.i = REF_NEGATE(a.i), !.t = a.e, !.e = a.t]
    ELSE a

(* tref is not to be complemented: complement both branches and the result. *)
RegularThen[a \in Args] ==
    IF ~a.done /\ REF_GET_NEG(a.t)
    THEN [a EXCEPT !.neg = ~a.neg, !.t = REF_NEGATE(a.t), !.e = REF_NEGATE(a.e)]
    ELSE a

(* The terminal cases an absorption may have produced. *)
Terminal(a) ==
    IF      a.t = a.e                         THEN Return(a, a.t)
    ELSE IF a.t = REF_ONE /\ a.e = REF_ZERO   THEN Return(a, a.i)
    ELSE a

(* The absorption rules; the third one does not look for a terminal case. *)
AbsorbThen[a \in Args] ==
    IF ~a.done /\ a.i = a.t THEN Terminal([a EXCEPT !.t = REF_ONE]) ELSE a

AbsorbElse[a \in Args] ==
    IF ~a.done /\ a.i = a.e THEN Terminal([a EXCEPT !.e = REF_ZERO]) ELSE a

AbsorbNotElse[a \in Args] ==
    IF ~a.done /\ a.i = REF_NEGATE(a.e) THEN [a EXCEPT !.e = REF_ONE] ELSE a

(* The canonical order of the arguments of And and of Xor. *)
OrderAnd[a \in Args] ==
    IF ~a.done /\ a.e = REF_ZERO /\ Greater(a.i, a.t)
    THEN [a EXCEPT !.i = a.t, !.t = a.i]
    ELSE a

OrderXor[a \in Args] ==
    IF ~a.done /\ a.t = REF_NEGATE(a.e) /\ Greater(a.i, a.t)
    THEN [a EXCEPT !.i = a.t, !.t = a.i, !.e = REF_NEGATE(a.i)]
    ELSE a

ref_ite_local(i, t, e) ==
    OrderXor[OrderAnd[AbsorbNotElse[AbsorbElse[AbsorbThen[RegularThen[RegularIf[Simple[
        [i |-> i, t |-> t, e |-> e, neg |-> FALSE, done |-> FALSE]]]]]]]]]

-----------------------------------------------------------------------------
(***************************************************************************)
(* ref_deref_local knows constants and variables; the children of a        *)
(* function come from its node.                                            *)
(***************************************************************************)
\* (mutant) the branches exchanged
ChildrenSwapped(r) == LET v == REF_GET_VAR[r] IN <<Lo(r, v), Hi(r, v)>>

Children(r) == LET v == REF_GET_VAR[r] IN <<Hi(r, v), Lo(r, v)>>

(***************************************************************************)
(* Splitting a triple on its topmost variable: the branches of its three   *)
(* members, and those whose branches only their node can tell.             *)
(***************************************************************************)
Split[k \in Ref \X Ref \X Ref] ==
    LET var == Min({REF_GET_VAR[k[n]] : n \in 1 .. 3})
        top == {n \in 1 .. 3 : REF_GET_VAR[k[n]] = var}
        Branches(n) == IF n \in top THEN Children(k[n]) ELSE <<k[n], k[n]>>
    IN  [var |-> var,
         far |-> {n \in top : REF_IS_FUNCT(k[n])},
         branches |-> <<Branches(1), Branches(2), Branches(3)>>]

(* The function a node stands for. *)
Node(v, hi, lo) == Ite(REF_VAR(v), hi, lo)

(***************************************************************************)
(* ref_canonize_local: the reference, or the node to look up, its          *)
(* then-child made regular, and whether to complement what is found.       *)
(* LevelsFall is the check in the code whose failure returns REF_INVALID.  *)
(***************************************************************************)
\* (mutant) off by one: refuses children one level below
LevelsFallByTwo(v, hi, lo) == v + 1 < REF_GET_VAR[hi] /\ v + 1 < REF_GET_VAR[lo]

LevelsFall(v, hi, lo) == v < REF_GET_VAR[hi] /\ v < REF_GET_VAR[lo]

ref_canonize_local(v, hi, lo) ==
    LET neg == REF_GET_NEG(hi)
        Known(r) == [done |-> TRUE, ref |-> r]
    IN  IF      hi = lo                              THEN Known(hi)
        ELSE IF hi = REF_ONE  /\ lo = REF_ZERO       THEN Known(REF_VAR(v))
        ELSE IF hi = REF_ZERO /\ lo = REF_ONE        THEN Known(REF_NEGATE(REF_VAR(v)))
        ELSE [done |-> FALSE, neg |-> neg,
              node |-> Node(v, Signed(hi, neg), Signed(lo, neg))]
=============================================================================
