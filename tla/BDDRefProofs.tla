---------------------------- MODULE BDDRefProofs ----------------------------
(***************************************************************************)
(* The local steps of ITE keep the function they compute, for every set of *)
(* variables and every order of the references; levels, branches and nodes *)
(* of references are what the operators of distributed ITE rely on.        *)
(***************************************************************************)
EXTENDS BDDRef, TLAPS, FiniteSetTheorems

(* The function an argument record of ref_ite_local stands for. *)
Denotes(a) == Signed(IF a.done THEN a.t ELSE Ite(a.i, a.t, a.e), a.neg)

(* A step of the fixups keeps records and what they stand for. *)
Keeps(F) == \A a \in Args : F[a] \in Args /\ Denotes(F[a]) = Denotes(a)

-----------------------------------------------------------------------------
(* Closure and the Boolean identities behind the fixups. *)
LEMMA RefClosed ==
    /\ REF_ONE \in Ref /\ REF_ZERO \in Ref
    /\ \A r \in Ref : REF_NEGATE(r) \in Ref /\ REF_NEGATE(REF_NEGATE(r)) = r
    /\ \A r \in Ref, neg \in BOOLEAN : Signed(r, neg) \in Ref
    /\ \A i, t, e \in Ref : Ite(i, t, e) \in Ref
  BY DEF Ref, REF_ONE, REF_ZERO, REF_NEGATE, Signed, Ite

LEMMA IteSimple ==
    \A i, t, e \in Ref :
        /\ Ite(REF_ONE, t, e) = t
        /\ Ite(REF_ZERO, t, e) = e
        /\ Ite(i, t, t) = t
        /\ Ite(i, REF_ONE, REF_ZERO) = i
        /\ Ite(i, REF_ZERO, REF_ONE) = REF_NEGATE(i)
  BY DEF Ref, REF_ONE, REF_ZERO, REF_NEGATE, Ite

LEMMA IteRegular ==
    \A i, t, e \in Ref :
        /\ Ite(REF_NEGATE(i), e, t) = Ite(i, t, e)
        /\ Ite(i, REF_NEGATE(t), REF_NEGATE(e)) = REF_NEGATE(Ite(i, t, e))
  BY DEF Ref, REF_NEGATE, Ite

LEMMA IteAbsorb ==
    \A i, t, e \in Ref :
        /\ Ite(i, REF_ONE, e) = Ite(i, i, e)
        /\ Ite(i, t, REF_ZERO) = Ite(i, t, i)
        /\ Ite(i, t, REF_ONE) = Ite(i, t, REF_NEGATE(i))
  BY DEF Ref, REF_ONE, REF_ZERO, REF_NEGATE, Ite

LEMMA IteOrder ==
    \A i, t \in Ref :
        /\ Ite(t, i, REF_ZERO) = Ite(i, t, REF_ZERO)
        /\ Ite(t, i, REF_NEGATE(i)) = Ite(i, t, REF_NEGATE(t))
  BY DEF Ref, REF_ZERO, REF_NEGATE, Ite

-----------------------------------------------------------------------------
LEMMA ReturnKeeps ==
    ASSUME NEW a \in Args, NEW r \in Ref, ~a.done, r = Ite(a.i, a.t, a.e)
    PROVE  Return(a, r) \in Args /\ Denotes(Return(a, r)) = Denotes(a)
  BY DEF Args, Return, Denotes

LEMMA SimpleKeeps == \A a \in Args : ~a.done =>
                        Simple[a] \in Args /\ Denotes(Simple[a]) = Denotes(a)
<1> SUFFICES ASSUME NEW a \in Args, ~a.done
             PROVE  Simple[a] \in Args /\ Denotes(Simple[a]) = Denotes(a)
  OBVIOUS
<1>1. a.i \in Ref /\ a.t \in Ref /\ a.e \in Ref
  BY DEF Args
<1>2. CASE a.i = REF_ONE
  BY <1>1, <1>2, IteSimple, ReturnKeeps DEF Simple
<1>3. CASE a.i # REF_ONE /\ a.i = REF_ZERO
  BY <1>1, <1>3, IteSimple, ReturnKeeps DEF Simple
<1>4. CASE a.i # REF_ONE /\ a.i # REF_ZERO /\ a.t = a.e
  BY <1>1, <1>4, IteSimple, ReturnKeeps DEF Simple
<1>5. CASE /\ a.i # REF_ONE /\ a.i # REF_ZERO /\ a.t # a.e
           /\ a.t = REF_ONE /\ a.e = REF_ZERO
  BY <1>1, <1>5, IteSimple, ReturnKeeps DEF Simple
<1>6. CASE /\ a.i # REF_ONE /\ a.i # REF_ZERO /\ a.t # a.e
           /\ ~(a.t = REF_ONE /\ a.e = REF_ZERO)
           /\ a.t = REF_ZERO /\ a.e = REF_ONE
  BY <1>1, <1>6, IteSimple, RefClosed, ReturnKeeps DEF Simple
<1>7. CASE /\ a.i # REF_ONE /\ a.i # REF_ZERO /\ a.t # a.e
           /\ ~(a.t = REF_ONE /\ a.e = REF_ZERO)
           /\ ~(a.t = REF_ZERO /\ a.e = REF_ONE)
  BY <1>7 DEF Simple
<1> QED
  BY <1>2, <1>3, <1>4, <1>5, <1>6, <1>7

LEMMA RegularIfKeeps == Keeps(RegularIf)
<1> SUFFICES ASSUME NEW a \in Args, ~a.done, REF_GET_NEG(a.i)
             PROVE  RegularIf[a] \in Args /\ Denotes(RegularIf[a]) = Denotes(a)
  BY DEF Keeps, RegularIf
<1>1. a.i \in Ref /\ a.t \in Ref /\ a.e \in Ref
  BY DEF Args
<1> DEFINE b == [a EXCEPT !.i = REF_NEGATE(a.i), !.t = a.e, !.e = a.t]
<1>2. RegularIf[a] = b
  BY DEF RegularIf
<1>3. b \in Args /\ b.neg = a.neg /\ ~b.done
  BY <1>1, RefClosed DEF Args
<1>4. Ite(b.i, b.t, b.e) = Ite(a.i, a.t, a.e)
  BY <1>1, IteRegular DEF Args
<1>5. Denotes(b) = Denotes(a)
  BY <1>3, <1>4 DEF Denotes
<1> QED
  BY <1>2, <1>3, <1>5

LEMMA RegularThenKeeps == Keeps(RegularThen)
<1> SUFFICES ASSUME NEW a \in Args, ~a.done, REF_GET_NEG(a.t)
             PROVE  RegularThen[a] \in Args /\ Denotes(RegularThen[a]) = Denotes(a)
  BY DEF Keeps, RegularThen
<1> DEFINE b == RegularThen[a]
<1>1. a.i \in Ref /\ a.t \in Ref /\ a.e \in Ref
  BY DEF Args
<1>2. b = [a EXCEPT !.neg = ~a.neg, !.t = REF_NEGATE(a.t), !.e = REF_NEGATE(a.e)]
  BY DEF RegularThen
<1>3. b \in Args
  BY <1>1, <1>2, RefClosed DEF Args
<1>4. Ite(b.i, b.t, b.e) = REF_NEGATE(Ite(a.i, a.t, a.e)) /\ b.neg = ~a.neg /\ ~b.done
  BY <1>1, <1>2, IteRegular DEF Args
<1>5. Ite(a.i, a.t, a.e) \in Ref
  BY <1>1, RefClosed
<1>6. Denotes(b) = Denotes(a)
  BY <1>4, <1>5, RefClosed DEF Denotes, Signed, Args
<1> QED
  BY <1>3, <1>6

LEMMA TerminalKeeps ==
    ASSUME NEW a \in Args, ~a.done
    PROVE  Terminal(a) \in Args /\ Denotes(Terminal(a)) = Denotes(a)
<1>1. a.i \in Ref /\ a.t \in Ref /\ a.e \in Ref
  BY DEF Args
<1>2. CASE a.t = a.e
  BY <1>1, <1>2, IteSimple, ReturnKeeps DEF Terminal
<1>3. CASE a.t # a.e /\ a.t = REF_ONE /\ a.e = REF_ZERO
  BY <1>1, <1>3, IteSimple, ReturnKeeps DEF Terminal
<1>4. CASE a.t # a.e /\ ~(a.t = REF_ONE /\ a.e = REF_ZERO)
  BY <1>4 DEF Terminal
<1> QED
  BY <1>2, <1>3, <1>4

LEMMA AbsorbThenKeeps == Keeps(AbsorbThen)
<1> SUFFICES ASSUME NEW a \in Args, ~a.done, a.i = a.t
             PROVE  AbsorbThen[a] \in Args /\ Denotes(AbsorbThen[a]) = Denotes(a)
  BY DEF Keeps, AbsorbThen
<1> DEFINE b == [a EXCEPT !.t = REF_ONE]
<1>1. a.i \in Ref /\ a.t \in Ref /\ a.e \in Ref
  BY DEF Args
<1>2. b \in Args /\ ~b.done
  BY RefClosed DEF Args
<1>3. Denotes(b) = Denotes(a)
  BY <1>1, IteAbsorb DEF Denotes, Args
<1>4. AbsorbThen[a] = Terminal(b)
  BY DEF AbsorbThen
<1> QED
  BY <1>2, <1>3, <1>4, TerminalKeeps

LEMMA AbsorbElseKeeps == Keeps(AbsorbElse)
<1> SUFFICES ASSUME NEW a \in Args, ~a.done, a.i = a.e
             PROVE  AbsorbElse[a] \in Args /\ Denotes(AbsorbElse[a]) = Denotes(a)
  BY DEF Keeps, AbsorbElse
<1> DEFINE b == [a EXCEPT !.e = REF_ZERO]
<1>1. a.i \in Ref /\ a.t \in Ref /\ a.e \in Ref
  BY DEF Args
<1>2. b \in Args /\ ~b.done
  BY RefClosed DEF Args
<1>3. Denotes(b) = Denotes(a)
  BY <1>1, IteAbsorb DEF Denotes, Args
<1>4. AbsorbElse[a] = Terminal(b)
  BY DEF AbsorbElse
<1> QED
  BY <1>2, <1>3, <1>4, TerminalKeeps

LEMMA AbsorbNotElseKeeps == Keeps(AbsorbNotElse)
<1> SUFFICES ASSUME NEW a \in Args, ~a.done, a.i = REF_NEGATE(a.e)
             PROVE  /\ AbsorbNotElse[a] \in Args
                    /\ Denotes(AbsorbNotElse[a]) = Denotes(a)
  BY DEF Keeps, AbsorbNotElse
<1>1. a.i \in Ref /\ a.t \in Ref /\ a.e \in Ref
  BY DEF Args
<1>2. a.e = REF_NEGATE(a.i)
  BY <1>1, RefClosed
<1> DEFINE b == [a EXCEPT !.e = REF_ONE]
<1>3. AbsorbNotElse[a] = b
  BY DEF AbsorbNotElse
<1>4. b \in Args /\ b.neg = a.neg /\ ~b.done
  BY <1>1, RefClosed DEF Args
<1>5. Ite(b.i, b.t, b.e) = Ite(a.i, a.t, a.e)
  BY <1>1, <1>2, IteAbsorb DEF Args
<1>6. Denotes(b) = Denotes(a)
  BY <1>4, <1>5 DEF Denotes
<1> QED
  BY <1>3, <1>4, <1>6

LEMMA OrderAndKeeps == Keeps(OrderAnd)
<1> SUFFICES ASSUME NEW a \in Args, ~a.done, a.e = REF_ZERO, Greater(a.i, a.t)
             PROVE  OrderAnd[a] \in Args /\ Denotes(OrderAnd[a]) = Denotes(a)
  BY DEF Keeps, OrderAnd
<1>1. a.i \in Ref /\ a.t \in Ref /\ a.e \in Ref
  BY DEF Args
<1>2. OrderAnd[a] = [a EXCEPT !.i = a.t, !.t = a.i]
  BY DEF OrderAnd
<1> QED
  BY <1>1, <1>2, IteOrder DEF Args, Denotes

LEMMA OrderXorKeeps == Keeps(OrderXor)
<1> SUFFICES ASSUME NEW a \in Args, ~a.done, a.t = REF_NEGATE(a.e), Greater(a.i, a.t)
             PROVE  OrderXor[a] \in Args /\ Denotes(OrderXor[a]) = Denotes(a)
  BY DEF Keeps, OrderXor
<1>1. a.i \in Ref /\ a.t \in Ref /\ a.e \in Ref
  BY DEF Args
<1>2. a.e = REF_NEGATE(a.t)
  BY <1>1, RefClosed
<1> DEFINE b == [a EXCEPT !.i = a.t, !.t = a.i, !.e = REF_NEGATE(a.i)]
<1>3. OrderXor[a] = b
  BY DEF OrderXor
<1>4. b \in Args /\ b.neg = a.neg /\ ~b.done
  BY <1>1, RefClosed DEF Args
<1>5. Ite(b.i, b.t, b.e) = Ite(a.i, a.t, a.e)
  BY <1>1, <1>2, IteOrder DEF Args
<1>6. Denotes(b) = Denotes(a)
  BY <1>4, <1>5 DEF Denotes
<1> QED
  BY <1>3, <1>4, <1>6

-----------------------------------------------------------------------------
(***************************************************************************)
(* ref_ite_local (bdd.c) is right for every triple: the result it returns, *)
(* or the triple it leaves to the recursion, complemented when its flag    *)
(* says so, is the ITE of the arguments.                                   *)
(***************************************************************************)
THEOREM LocalSound ==
    ASSUME NEW i \in Ref, NEW t \in Ref, NEW e \in Ref
    PROVE  LET a == ref_ite_local(i, t, e)
           IN  /\ a \in Args
               /\ Signed(IF a.done THEN a.t ELSE Ite(a.i, a.t, a.e), a.neg)
                      = Ite(i, t, e)
<1> DEFINE a == [i |-> i, t |-> t, e |-> e, neg |-> FALSE, done |-> FALSE]
           s == Simple[a]
           r == RegularThen[RegularIf[s]]
           b == AbsorbNotElse[AbsorbElse[AbsorbThen[r]]]
<1>1. a \in Args /\ ~a.done /\ Denotes(a) = Ite(i, t, e)
  BY DEF Args, Denotes, Signed
<1>2. s \in Args /\ Denotes(s) = Ite(i, t, e)
  BY <1>1, SimpleKeeps
<1>3. r \in Args /\ Denotes(r) = Ite(i, t, e)
  BY <1>2, RegularIfKeeps, RegularThenKeeps DEF Keeps
<1>4. b \in Args /\ Denotes(b) = Ite(i, t, e)
  BY <1>3, AbsorbThenKeeps, AbsorbElseKeeps, AbsorbNotElseKeeps DEF Keeps
<1>5. /\ OrderXor[OrderAnd[b]] \in Args
      /\ Denotes(OrderXor[OrderAnd[b]]) = Ite(i, t, e)
  BY <1>4, OrderAndKeeps, OrderXorKeeps DEF Keeps
<1> QED
  BY <1>5 DEF ref_ite_local, Denotes

(***************************************************************************)
(* Splitting a triple on a variable and putting the branches together in a *)
(* node (do_ite_lookup_op, do_ite_recurse_op, do_canonize_op) is right for *)
(* every variable, whether or not the arguments depend on it.              *)
(***************************************************************************)
THEOREM SplitSound ==
    ASSUME NEW i \in Ref, NEW t \in Ref, NEW e \in Ref, NEW v \in Var
    PROVE  Node(v, Ite(Hi(i, v), Hi(t, v), Hi(e, v)), Ite(Lo(i, v), Lo(t, v), Lo(e, v)))
               = Ite(i, t, e)
<1> DEFINE n == Node(v, Ite(Hi(i, v), Hi(t, v), Hi(e, v)),
                        Ite(Lo(i, v), Lo(t, v), Lo(e, v)))
<1>1. n \in SUBSET Point /\ Ite(i, t, e) \in SUBSET Point
  BY DEF Node, Ite, Hi, Lo, REF_VAR, Ref
<1>2. ASSUME NEW p \in Point PROVE p \in n <=> p \in Ite(i, t, e)
  <2>1. CASE v \in p
    <3>1. p \union {v} = p
      BY <2>1
    <3> QED
      BY <2>1, <3>1 DEF Node, Ite, Hi, Lo, REF_VAR
  <2>2. CASE v \notin p
    <3>1. p \ {v} = p
      BY <2>2
    <3> QED
      BY <2>2, <3>1 DEF Node, Ite, Hi, Lo, REF_VAR
  <2> QED
    BY <2>1, <2>2
<1> QED
  BY <1>1, <1>2

(***************************************************************************)
(* ref_canonize_local is right: what it returns, or the node it asks for,  *)
(* complemented when its flag says so, is the function of the variable and *)
(* the children; and the node it asks for is never complemented.           *)
(***************************************************************************)
THEOREM CanonizeSound ==
    ASSUME NEW v \in Var, NEW hi \in Ref, NEW lo \in Ref
    PROVE  LET r == ref_canonize_local(v, hi, lo)
           IN  IF r.done THEN r.ref = Node(v, hi, lo)
               ELSE /\ Signed(r.node, r.neg) = Node(v, hi, lo)
                    /\ ~REF_GET_NEG(r.node)
<1> DEFINE neg == REF_GET_NEG(hi)
<1>1. CASE hi = lo
  BY <1>1 DEF ref_canonize_local, Node, Ite, REF_VAR, Ref
<1>2. CASE hi # lo /\ hi = REF_ONE /\ lo = REF_ZERO
  BY <1>2, IteSimple DEF ref_canonize_local, Node, REF_VAR, Ref
<1>3. CASE /\ hi # lo /\ ~(hi = REF_ONE /\ lo = REF_ZERO)
           /\ hi = REF_ZERO /\ lo = REF_ONE
  BY <1>3, IteSimple DEF ref_canonize_local, Node, REF_VAR, Ref
<1>4. CASE /\ hi # lo /\ ~(hi = REF_ONE /\ lo = REF_ZERO)
           /\ ~(hi = REF_ZERO /\ lo = REF_ONE)
  <2> DEFINE node == Node(v, Signed(hi, neg), Signed(lo, neg))
  <2>1. ref_canonize_local(v, hi, lo) = [done |-> FALSE, neg |-> neg, node |-> node]
    BY <1>4 DEF ref_canonize_local
  <2>2. REF_VAR(v) \in Ref /\ Node(v, hi, lo) \in Ref
    BY DEF REF_VAR, Ref, Node, Ite
  <2>3. Signed(node, neg) = Node(v, hi, lo)
    BY <2>2, IteRegular, RefClosed DEF Node, Signed
  <2>4. Var \in REF_VAR(v) /\ Var \in Signed(hi, neg)
    BY DEF REF_VAR, Point, Signed, REF_GET_NEG, REF_NEGATE
  <2>5. ~REF_GET_NEG(node)
    BY <2>4 DEF REF_GET_NEG, Node, Ite
  <2> QED
    BY <2>1, <2>3, <2>5
<1> QED
  BY <1>1, <1>2, <1>3, <1>4

-----------------------------------------------------------------------------
(* Levels: the least variable a function depends on.                       *)
(* The naturals are well founded under <.                                  *)
LEMMA NatWellFounded == IsWellFoundedOn({p \in Nat \X Nat : p[1] < p[2]}, Nat)
  BY NatLessThanWellFounded DEF OpToRel

(* A non-empty set of naturals has a least member.                         *)
LEMMA NatMin == ASSUME NEW S \in SUBSET Nat, S # {} PROVE \E x \in S : \A y \in S : x =< y
<1> DEFINE R == {p \in Nat \X Nat : p[1] < p[2]}
<1>1. \E x \in S : \A y \in S : <<y, x>> \notin R
  <2>1. IsWellFoundedOn(R, Nat) BY NatWellFounded
  <2> QED BY <2>1, WFMin
<1>2. PICK x \in S : \A y \in S : <<y, x>> \notin R
  BY <1>1
<1>3. ASSUME NEW y \in S PROVE x =< y
  <2>1. ~(y < x)
    <3>1. <<y, x>> \in Nat \X Nat OBVIOUS
    <3> QED BY <1>2, <3>1
  <2>2. x \in Nat /\ y \in Nat OBVIOUS
  <2> QED BY <2>1, <2>2
<1> QED BY <1>3

(* Min of the community modules, on naturals.                              *)
LEMMA MinOf ==
    ASSUME NEW S \in SUBSET Nat, S # {}
    PROVE  Min(S) \in S /\ \A y \in S : Min(S) =< y
  BY NatMin DEF Min

(* Constants are below all variables: the level of a constant is a number  *)
(* larger than every variable.                                             *)
LEMMA ConstVar == CONST_VAR \in Nat /\ \A v \in Var : v < CONST_VAR
<1> DEFINE Tops(D) == {x \in D : \A y \in D : y =< x}
           T == {D \in SUBSET Var : D # {} /\ Tops(D) = {}}
<1>1. T = {}
  <2> SUFFICES ASSUME T # {} PROVE FALSE
    OBVIOUS
  <2>1. T \subseteq FiniteSubsetsOf(Var)
    BY VarAssumption, FS_Subset DEF FiniteSubsetsOf
  <2>2. PICK D \in T : \A E \in T : <<E, D>> \notin StrictSubsetOrdering(Var)
    <3> HIDE DEF T
    <3> QED BY <2>1, WFMin, FS_StrictSubsetOrderingWellFounded
  <2>3. PICK v \in D : TRUE
    OBVIOUS
  <2> DEFINE E == D \ {v}
  <2>4. E \in SUBSET Var /\ <<E, D>> \in StrictSubsetOrdering(Var)
    BY DEF StrictSubsetOrdering
  <2>5. D \subseteq Nat /\ D = E \cup {v}
    BY VarAssumption
  <2>6. CASE E = {}
    <3>1. v \in Tops(D)
      BY <2>5, <2>6
    <3> QED BY <3>1
  <2>7. CASE E # {}
    <3>1. PICK x \in E : \A y \in E : y =< x
      BY <2>2, <2>4, <2>7
    <3>2. v \in Tops(D) \/ x \in Tops(D)
      BY <2>5, <3>1
    <3> QED BY <3>2
  <2> QED BY <2>6, <2>7
<1>2. PICK x \in Var : \A y \in Var : y =< x
  <2>1. Var \notin T
    BY <1>1
  <2> QED BY <2>1, VarAssumption
<1>3. Max(Var) \in Var /\ \A y \in Var : Max(Var) >= y
  <2>1. \A y \in Var : x >= y
    BY <1>2, VarAssumption
  <2> QED BY <2>1 DEF Max
<1>4. Max(Var) \in Nat /\ \A y \in Var : y \in Nat
  BY <1>3, VarAssumption
<1> QED BY <1>3, <1>4 DEF CONST_VAR

(* A function that depends on no variable is constant.                     *)
LEMMA NoSupport ==
    ASSUME NEW r \in Ref, Support(r) = {}
    PROVE  r = REF_ONE \/ r = REF_ZERO
<1> DEFINE T == {p \in Point : (p \in r) # ({} \in r)}
<1>1. Point \subseteq FiniteSubsetsOf(Var)
  BY VarAssumption, FS_Subset DEF Point, FiniteSubsetsOf
<1>2. ASSUME T # {} PROVE FALSE
  <2>1. T \subseteq FiniteSubsetsOf(Var)
    BY <1>1
  <2>2. PICK p \in T : \A q \in T : <<q, p>> \notin StrictSubsetOrdering(Var)
    <3> HIDE DEF T
    <3> QED BY <1>2, <2>1, WFMin, FS_StrictSubsetOrderingWellFounded
  <2>3. p # {} /\ p \in Point
    OBVIOUS
  <2>4. PICK v \in p : TRUE
    BY <2>3
  <2> DEFINE q == p \ {v}
  <2>5. q \in Point /\ v \in Var /\ q \cup {v} = p /\ q # p
    BY <2>3, <2>4 DEF Point
  <2>6. (p \in r) = (q \in r)
    <3>1. Hi(r, v) = Lo(r, v)
      BY <2>5 DEF Support
    <3>2. q \in Hi(r, v) <=> p \in r
      BY <2>5 DEF Hi
    <3>3. q \in Lo(r, v) <=> q \in r
      BY <2>5 DEF Lo
    <3> QED BY <3>1, <3>2, <3>3
  <2>7. q \in T
    BY <2>5, <2>6, <2>2
  <2>8. <<q, p>> \in StrictSubsetOrdering(Var)
    BY <2>3, <2>5 DEF StrictSubsetOrdering, Point
  <2> QED BY <2>2, <2>7, <2>8
<1>3. \A p \in Point : (p \in r) = ({} \in r)
  BY <1>2
<1> QED BY <1>3 DEF Ref, REF_ONE, REF_ZERO

(* The level of a reference, which the code reads off the reference        *)
(* itself: its topmost variable, or CONST_VAR for the two constants.       *)
LEMMA Level ==
    ASSUME NEW r \in Ref
    PROVE  /\ REF_GET_VAR[r] \in Nat
           /\ REF_GET_VAR[r] \in Support(r) \/ r = REF_ONE \/ r = REF_ZERO
           /\ \A v \in Support(r) : REF_GET_VAR[r] =< v
           /\ REF_GET_VAR[r] =< CONST_VAR
           /\ REF_GET_VAR[r] \in Support(r) \/ REF_GET_VAR[r] = CONST_VAR
           /\ REF_GET_VAR[r] \in Var => REF_GET_VAR[r] \in Support(r)
<1> DEFINE S == Support(r) \cup {CONST_VAR}
<1>1. S \in SUBSET Nat /\ S # {} /\ Support(r) \subseteq Var
  BY ConstVar, VarAssumption DEF Support
<1>2. REF_GET_VAR[r] = Min(S)
  BY DEF REF_GET_VAR
<1>3. Min(S) \in S /\ \A y \in S : Min(S) =< y
  <2> HIDE DEF S
  <2> QED BY <1>1, MinOf
<1>4. REF_GET_VAR[r] = CONST_VAR => Support(r) = {}
  <2> SUFFICES ASSUME REF_GET_VAR[r] = CONST_VAR, NEW v \in Support(r) PROVE FALSE
    OBVIOUS
  <2>1. CONST_VAR =< v /\ v < CONST_VAR /\ v \in Nat /\ CONST_VAR \in Nat
    BY <1>1, <1>2, <1>3, ConstVar, VarAssumption
  <2> QED BY <2>1
<1>5. CONST_VAR \notin Var
  BY ConstVar
<1> QED BY <1>1, <1>2, <1>3, <1>4, <1>5, NoSupport

-----------------------------------------------------------------------------
(* Cofactors of a function, of its complement and of an if-then-else.      *)
LEMMA Cofactors ==
    ASSUME NEW r \in Ref, NEW v \in Var
    PROVE  /\ Hi(r, v) \in Ref /\ Lo(r, v) \in Ref
           /\ v \notin Support(r) => Hi(r, v) = r /\ Lo(r, v) = r
           /\ Support(Hi(r, v)) \subseteq Support(r) \ {v}
           /\ Support(Lo(r, v)) \subseteq Support(r) \ {v}
           /\ Hi(REF_NEGATE(r), v) = REF_NEGATE(Hi(r, v))
           /\ Lo(REF_NEGATE(r), v) = REF_NEGATE(Lo(r, v))
<1>1. \A p \in Point, u \in Var : p \cup {u} \in Point /\ p \ {u} \in Point
  BY DEF Point
<1>2. Hi(r, v) \in Ref /\ Lo(r, v) \in Ref
  BY DEF Hi, Lo, Ref
<1>3. ASSUME v \notin Support(r) PROVE Hi(r, v) = r /\ Lo(r, v) = r
  <2>1. Hi(r, v) = Lo(r, v)
    BY <1>3 DEF Support
  <2>2. ASSUME NEW p \in Point PROVE (p \in Hi(r, v) <=> p \in r) /\ (p \in Lo(r, v) <=> p \in r)
    <3>1. CASE v \in p
      <4>1. p \cup {v} = p
        BY <3>1
      <4> QED BY <2>1, <4>1 DEF Hi
    <3>2. CASE v \notin p
      <4>1. p \ {v} = p
        BY <3>2
      <4> QED BY <2>1, <4>1 DEF Lo
    <3> QED BY <3>1, <3>2
  <2> QED BY <1>2, <2>2 DEF Ref
<1>4. ASSUME NEW u \in Var, u \in Support(Hi(r, v)) PROVE u \in Support(r) \ {v}
  <2>1. PICK p \in Point : (p \cup {u} \in Hi(r, v)) # (p \ {u} \in Hi(r, v))
    BY <1>4 DEF Support, Hi, Lo
  <2>2. ((p \cup {u}) \cup {v} \in r) # ((p \ {u}) \cup {v} \in r)
    BY <1>1, <2>1 DEF Hi
  <2>3. u # v
    BY <2>2
  <2>4. (p \ {u}) \cup {v} = (p \cup {v}) \ {u} /\ (p \cup {u}) \cup {v} = (p \cup {v}) \cup {u}
    BY <2>3
  <2>5. Hi(r, u) # Lo(r, u)
    <3>1. p \cup {v} \in Point
      BY <1>1
    <3> QED BY <2>2, <2>4, <3>1 DEF Hi, Lo
  <2> QED BY <2>3, <2>5 DEF Support
<1>5. ASSUME NEW u \in Var, u \in Support(Lo(r, v)) PROVE u \in Support(r) \ {v}
  <2>1. PICK p \in Point : (p \cup {u} \in Lo(r, v)) # (p \ {u} \in Lo(r, v))
    BY <1>5 DEF Support, Hi, Lo
  <2>2. ((p \cup {u}) \ {v} \in r) # ((p \ {u}) \ {v} \in r)
    BY <1>1, <2>1 DEF Lo
  <2>3. u # v
    BY <2>2
  <2>4. (p \ {u}) \ {v} = (p \ {v}) \ {u} /\ (p \cup {u}) \ {v} = (p \ {v}) \cup {u}
    BY <2>3
  <2>5. Hi(r, u) # Lo(r, u)
    <3>1. p \ {v} \in Point
      BY <1>1
    <3> QED BY <2>2, <2>4, <3>1 DEF Hi, Lo
  <2> QED BY <2>3, <2>5 DEF Support
<1>6. Hi(REF_NEGATE(r), v) = REF_NEGATE(Hi(r, v)) /\ Lo(REF_NEGATE(r), v) = REF_NEGATE(Lo(r, v))
  BY <1>1 DEF Hi, Lo, REF_NEGATE
<1>7. Support(Hi(r, v)) \subseteq Var /\ Support(Lo(r, v)) \subseteq Var
  BY DEF Support
<1> QED BY <1>2, <1>3, <1>4, <1>5, <1>6, <1>7

(* Complementing a reference changes neither its variables nor its level.  *)
LEMMA SupportNegate ==
    ASSUME NEW r \in Ref
    PROVE  /\ Support(REF_NEGATE(r)) = Support(r)
           /\ REF_GET_VAR[REF_NEGATE(r)] = REF_GET_VAR[r]
<1>1. ASSUME NEW v \in Var
      PROVE  Hi(REF_NEGATE(r), v) = Lo(REF_NEGATE(r), v) <=> Hi(r, v) = Lo(r, v)
  <2>1. Hi(r, v) \in Ref /\ Lo(r, v) \in Ref
    BY Cofactors
  <2>2. REF_NEGATE(Hi(r, v)) = REF_NEGATE(Lo(r, v)) <=> Hi(r, v) = Lo(r, v)
    BY <2>1, RefClosed
  <2> QED BY <2>2, Cofactors
<1>2. Support(REF_NEGATE(r)) = Support(r)
  BY <1>1 DEF Support
<1> QED BY <1>2, RefClosed DEF REF_GET_VAR

(* An if-then-else depends on no variable that its arguments do not depend *)
(* on.                                                                     *)
LEMMA SupportIte ==
    ASSUME NEW i \in Ref, NEW t \in Ref, NEW e \in Ref
    PROVE  Support(Ite(i, t, e)) \subseteq Support(i) \cup Support(t) \cup Support(e)
<1> SUFFICES ASSUME NEW v \in Var, v \notin Support(i), v \notin Support(t), v \notin Support(e)
             PROVE  v \notin Support(Ite(i, t, e))
  BY DEF Support
<1>1. /\ Hi(i, v) = Lo(i, v) /\ Hi(t, v) = Lo(t, v) /\ Hi(e, v) = Lo(e, v)
  BY DEF Support
<1>2. \A p \in Point : p \cup {v} \in Point /\ p \ {v} \in Point
  BY DEF Point
<1>3. \A p \in Point : p \cup {v} \in Ite(i, t, e) <=> p \ {v} \in Ite(i, t, e)
  BY <1>1, <1>2 DEF Hi, Lo, Ite
<1>4. Hi(Ite(i, t, e), v) = Lo(Ite(i, t, e), v)
  BY <1>3 DEF Hi, Lo
<1> QED BY <1>4 DEF Support

(* Variables above all those a function depends on.                        *)
Below(v, r) == r \in Ref /\ \A u \in Support(r) : v < u

(* The comparison of levels that ref_canonize makes says what it is meant  *)
(* to: the new variable is above all those of a child.                     *)
LEMMA BelowLevel ==
    ASSUME NEW v \in Var, NEW r \in Ref
    PROVE  v < REF_GET_VAR[r] <=> Below(v, r)
<1>1. v \in Nat /\ v < CONST_VAR /\ CONST_VAR \in Nat /\ \A u \in Support(r) : u \in Nat
  BY VarAssumption, ConstVar DEF Support
<1>2. /\ REF_GET_VAR[r] \in Nat
      /\ REF_GET_VAR[r] \in Support(r) \/ REF_GET_VAR[r] = CONST_VAR
      /\ \A u \in Support(r) : REF_GET_VAR[r] =< u
  BY Level
<1>3. ASSUME v < REF_GET_VAR[r], NEW u \in Support(r) PROVE v < u
  <2>1. u \in Nat /\ REF_GET_VAR[r] =< u
    BY <1>1, <1>2
  <2> QED BY <1>1, <1>2, <1>3, <2>1
<1> QED BY <1>1, <1>2, <1>3 DEF Below

(* A node has the branches it is made of, at its own level.                *)
LEMMA NodeChildren ==
    ASSUME NEW v \in Var, NEW hi, NEW lo, Below(v, hi), Below(v, lo), hi # lo
    PROVE  /\ Node(v, hi, lo) \in Ref
           /\ REF_GET_VAR[Node(v, hi, lo)] = v
           /\ Children(Node(v, hi, lo)) = <<hi, lo>>
<1> DEFINE n == Node(v, hi, lo)
<1>1. v \in Nat /\ hi \in Ref /\ lo \in Ref /\ v \notin Support(hi) /\ v \notin Support(lo)
  BY VarAssumption DEF Below
<1>2. n \in Ref /\ REF_VAR(v) \in Ref
  BY <1>1 DEF Node, Ite, REF_VAR, Ref
<1>3. Hi(n, v) = hi /\ Lo(n, v) = lo
  <2>1. Hi(hi, v) = hi /\ Lo(lo, v) = lo
    BY <1>1, Cofactors
  <2>2. \A p \in Point : /\ p \cup {v} \in Point /\ p \ {v} \in Point
                         /\ p \cup {v} \in n <=> p \cup {v} \in hi
                         /\ p \ {v} \in n <=> p \ {v} \in lo
    BY <1>1 DEF Point, Node, Ite, REF_VAR
  <2>3. Hi(n, v) = Hi(hi, v) /\ Lo(n, v) = Lo(lo, v)
    BY <2>2 DEF Hi, Lo
  <2> QED BY <2>1, <2>3
<1>4. v \in Support(n)
  BY <1>3 DEF Support
<1>5. Support(n) \subseteq {v} \cup Support(hi) \cup Support(lo)
  <2>1. Support(REF_VAR(v)) \subseteq {v}
    <3> SUFFICES ASSUME NEW u \in Var, u # v PROVE Hi(REF_VAR(v), u) = Lo(REF_VAR(v), u)
      BY DEF Support
    <3> QED BY DEF Hi, Lo, REF_VAR, Point
  <2>2. Support(n) \subseteq Support(REF_VAR(v)) \cup Support(hi) \cup Support(lo)
    BY <1>1, <1>2, SupportIte DEF Node
  <2> QED BY <2>1, <2>2
<1>6. REF_GET_VAR[n] = v
  <2>1. ASSUME NEW u \in Support(n) PROVE v =< u
    <3>1. u \in Nat
      BY VarAssumption DEF Support
    <3>2. u = v \/ v < u
      BY <1>5 DEF Below
    <3> QED BY <1>1, <3>1, <3>2
  <2>2. REF_GET_VAR[n] \in Nat /\ REF_GET_VAR[n] =< v /\ REF_GET_VAR[n] \in Support(n)
    BY <1>2, <1>4, Level, ConstVar, <1>1
  <2> QED BY <1>1, <2>1, <2>2
<1> QED BY <1>2, <1>3, <1>6 DEF Children

-----------------------------------------------------------------------------
(* The absolute value of a reference is the reference or its complement,   *)
(* and has the same kind and the same branches, up to complement.          *)
LEMMA Complements ==
    ASSUME NEW r \in Ref
    PROVE  /\ REF_NEGATE(r) \in Ref /\ REF_NEGATE(REF_NEGATE(r)) = r
           /\ REF_GET_NEG(REF_NEGATE(r)) <=> ~REF_GET_NEG(r)
           /\ REF_IS_FUNCT(REF_NEGATE(r)) <=> REF_IS_FUNCT(r)
           /\ Children(REF_NEGATE(r)) = <<REF_NEGATE(Children(r)[1]), REF_NEGATE(Children(r)[2])>>
              \/ ~REF_IS_FUNCT(r)
<1>1. REF_NEGATE(r) \in Ref /\ REF_NEGATE(REF_NEGATE(r)) = r
  BY RefClosed
<1>2. REF_GET_NEG(REF_NEGATE(r)) <=> ~REF_GET_NEG(r)
  BY DEF REF_GET_NEG, REF_NEGATE, Point
<1>3. REF_IS_FUNCT(REF_NEGATE(r)) <=> REF_IS_FUNCT(r)
  <2>1. \A v \in Var : REF_VAR(v) \in Ref
    BY DEF REF_VAR, Ref
  <2>2. REF_NEGATE(REF_ONE) = REF_ZERO /\ REF_NEGATE(REF_ZERO) = REF_ONE
    BY DEF REF_NEGATE, REF_ONE, REF_ZERO
  <2>3. \A s \in Ref : REF_NEGATE(REF_NEGATE(s)) = s
    BY RefClosed
  <2> QED BY <1>1, <2>1, <2>2, <2>3 DEF REF_IS_FUNCT
<1>4. ASSUME REF_IS_FUNCT(r)
      PROVE  Children(REF_NEGATE(r)) = <<REF_NEGATE(Children(r)[1]), REF_NEGATE(Children(r)[2])>>
  <2> DEFINE v == REF_GET_VAR[r]
  <2>1. v \in Var
    BY <1>4, Level DEF REF_IS_FUNCT, Support
  <2>2. REF_GET_VAR[REF_NEGATE(r)] = v
    BY SupportNegate
  <2> QED BY <2>1, <2>2, Cofactors DEF Children
<1> QED BY <1>1, <1>2, <1>3, <1>4

(* What ref_ite_local hands on is made of its arguments, and its first     *)
(* member is not constant.                                                 *)
LEMMA LocalFrom ==
    ASSUME NEW S \in SUBSET Ref, REF_ONE \in S, REF_ZERO \in S,
           \A r \in S : REF_NEGATE(r) \in S,
           NEW i \in S, NEW t \in S, NEW e \in S
    PROVE  LET a == ref_ite_local(i, t, e)
           IN  /\ a.i \in S /\ a.t \in S /\ a.e \in S
               /\ ~a.done => a.i # REF_ONE /\ a.i # REF_ZERO
<1> DEFINE From(a) == /\ a \in Args /\ a.i \in S /\ a.t \in S /\ a.e \in S
                      /\ ~a.done => a.i # REF_ONE /\ a.i # REF_ZERO
           Mixed(a) == ~a.done => a.t # a.e /\ ~(a.t = REF_ONE /\ a.e = REF_ZERO)
           Both(a)  == ~a.done => ~(a.t = REF_ZERO /\ a.e = REF_ONE)
           Some(a)  == ~a.done => a.t # REF_ZERO
           Free(a)  == ~a.done /\ a.e = REF_ZERO => a.t # REF_ONE
           a0 == [i |-> i, t |-> t, e |-> e, neg |-> FALSE, done |-> FALSE]
<1>1. a0 \in Args /\ ~a0.done
  BY DEF Args
<1>2. From(Simple[a0]) /\ Mixed(Simple[a0]) /\ Both(Simple[a0])
  BY <1>1 DEF Simple, Return, Args
<1>3. ASSUME NEW a, From(a), Mixed(a), Both(a)
      PROVE  From(RegularIf[a]) /\ Mixed(RegularIf[a]) /\ Both(RegularIf[a])
  <2>1. a.i \in Ref /\ REF_NEGATE(a.i) \in S /\ REF_NEGATE(REF_NEGATE(a.i)) = a.i
    BY <1>3, RefClosed
  <2>2. REF_NEGATE(REF_ONE) = REF_ZERO /\ REF_NEGATE(REF_ZERO) = REF_ONE
    BY DEF REF_NEGATE, REF_ONE, REF_ZERO
  <2> QED BY <1>3, <2>1, <2>2 DEF RegularIf, Args
<1>4. ASSUME NEW a, From(a), Mixed(a), Both(a)
      PROVE  From(RegularThen[a]) /\ Mixed(RegularThen[a]) /\ Some(RegularThen[a])
  <2>1. /\ REF_NEGATE(a.t) \in S /\ REF_NEGATE(REF_NEGATE(a.t)) = a.t
        /\ REF_NEGATE(a.e) \in S /\ REF_NEGATE(REF_NEGATE(a.e)) = a.e
    BY <1>4, RefClosed
  <2>2. REF_NEGATE(REF_ONE) = REF_ZERO /\ REF_NEGATE(REF_ZERO) = REF_ONE
    BY DEF REF_NEGATE, REF_ONE, REF_ZERO
  <2>3. REF_GET_NEG(REF_ZERO) /\ ~REF_GET_NEG(REF_ONE)
    BY DEF REF_GET_NEG, REF_ZERO, REF_ONE, Point
  <2>4. CASE ~a.done /\ REF_GET_NEG(a.t)
    <3> DEFINE b == [a EXCEPT !.neg = ~a.neg, !.t = REF_NEGATE(a.t), !.e = REF_NEGATE(a.e)]
    <3>1. RegularThen[a] = b
      BY <1>4, <2>4 DEF RegularThen
    <3>2. /\ b \in Args /\ ~b.done /\ b.i = a.i
          /\ b.t = REF_NEGATE(a.t) /\ b.e = REF_NEGATE(a.e)
      BY <1>4, <2>1, <2>4 DEF Args
    <3> HIDE DEF b
    <3> QED BY <1>4, <2>1, <2>2, <2>3, <2>4, <3>1, <3>2
  <2>5. CASE a.done \/ ~REF_GET_NEG(a.t)
    <3>1. RegularThen[a] = a
      BY <1>4, <2>5 DEF RegularThen
    <3> QED BY <1>4, <2>3, <2>5, <3>1
  <2> QED BY <2>4, <2>5
<1>5. ASSUME NEW a, From(a), Mixed(a), Some(a)
      PROVE  From(AbsorbThen[a]) /\ Mixed(AbsorbThen[a]) /\ Some(AbsorbThen[a])
  <2>1. REF_ONE # REF_ZERO
    BY DEF REF_ONE, REF_ZERO, Point
  <2> QED BY <1>5, <2>1 DEF AbsorbThen, Terminal, Return, Args
<1>6. ASSUME NEW a, From(a), Mixed(a), Some(a)
      PROVE  From(AbsorbElse[a]) /\ Mixed(AbsorbElse[a]) /\ Some(AbsorbElse[a])
  BY <1>6 DEF AbsorbElse, Terminal, Return, Args
<1>7. ASSUME NEW a, From(a), Mixed(a), Some(a)
      PROVE  From(AbsorbNotElse[a]) /\ Some(AbsorbNotElse[a]) /\ Free(AbsorbNotElse[a])
  <2>1. REF_ONE # REF_ZERO
    BY DEF REF_ONE, REF_ZERO, Point
  <2> QED BY <1>7, <2>1 DEF AbsorbNotElse, Args
<1>8. ASSUME NEW a, From(a), Some(a), Free(a)
      PROVE  From(OrderAnd[a]) /\ Some(OrderAnd[a]) /\ Free(OrderAnd[a])
  BY <1>8 DEF OrderAnd, Args
<1>9. ASSUME NEW a, From(a), Some(a), Free(a)
      PROVE  From(OrderXor[a])
  <2>1. CASE ~a.done /\ a.t = REF_NEGATE(a.e) /\ Greater(a.i, a.t)
    <3> DEFINE b == [a EXCEPT !.i = a.t, !.t = a.i, !.e = REF_NEGATE(a.i)]
    <3>1. OrderXor[a] = b
      BY <1>9, <2>1 DEF OrderXor
    <3>2. b \in Args /\ ~b.done /\ b.i = a.t /\ b.t = a.i /\ b.e = REF_NEGATE(a.i)
      BY <1>9, <2>1 DEF Args
    <3>3. a.t # REF_ONE
      <4>1. a.e = REF_NEGATE(a.t)
        BY <1>9, <2>1, RefClosed
      <4>2. REF_NEGATE(REF_ONE) = REF_ZERO
        BY DEF REF_NEGATE, REF_ONE, REF_ZERO
      <4> QED BY <1>9, <2>1, <4>1, <4>2
    <3> HIDE DEF b
    <3> QED BY <1>9, <2>1, <3>1, <3>2, <3>3
  <2>2. CASE ~(~a.done /\ a.t = REF_NEGATE(a.e) /\ Greater(a.i, a.t))
    BY <1>9, <2>2 DEF OrderXor
  <2> QED BY <2>1, <2>2
<1> HIDE DEF From, Mixed, Both, Some, Free
<1>10. From(ref_ite_local(i, t, e))
  BY <1>2, <1>3, <1>4, <1>5, <1>6, <1>7, <1>8, <1>9 DEF ref_ite_local
<1> QED BY <1>10 DEF From

-----------------------------------------------------------------------------
(* An if-then-else of functions below a variable is below it.              *)
LEMMA BelowIte ==
    ASSUME NEW v \in Var, NEW i, NEW t, NEW e, Below(v, i), Below(v, t), Below(v, e)
    PROVE  Below(v, Ite(i, t, e))
<1>1. Support(Ite(i, t, e)) \subseteq Support(i) \cup Support(t) \cup Support(e)
  BY SupportIte DEF Below
<1> QED BY <1>1, RefClosed DEF Below

(* The branches of a function on its topmost variable are below it.        *)
LEMMA Branches ==
    ASSUME NEW v \in Var, NEW r \in Ref, \A u \in Support(r) : v =< u
    PROVE  Below(v, Hi(r, v)) /\ Below(v, Lo(r, v))
<1>1. /\ Hi(r, v) \in Ref /\ Support(Hi(r, v)) \subseteq Support(r) \ {v}
      /\ Lo(r, v) \in Ref /\ Support(Lo(r, v)) \subseteq Support(r) \ {v}
  BY Cofactors
<1>2. \A u \in Support(r) \ {v} : v < u
  BY VarAssumption DEF Support
<1> QED BY <1>1, <1>2 DEF Below

(* A triple that is split has, on its topmost variable, the branches that  *)
(* its members have; those that no node is asked for are constants or      *)
(* members.                                                                *)
LEMMA SplitBranches ==
    ASSUME NEW k \in Ref \X Ref \X Ref, k[1] # REF_ONE, k[1] # REF_ZERO
    PROVE  LET s == Split[k]
           IN  /\ s.var \in Var /\ s.far \subseteq 1 .. 3
               /\ \A n \in 1 .. 3 :
                    /\ s.branches[n] = <<Hi(k[n], s.var), Lo(k[n], s.var)>>
                    /\ Below(s.var, Hi(k[n], s.var)) /\ Below(s.var, Lo(k[n], s.var))
                    /\ n \in s.far => /\ REF_IS_FUNCT(k[n])
                                      /\ Children(k[n]) = s.branches[n]
                    /\ n \notin s.far => {Hi(k[n], s.var), Lo(k[n], s.var)}
                                             \subseteq {k[n], REF_ONE, REF_ZERO}
<1> DEFINE L == {REF_GET_VAR[k[n]] : n \in 1 .. 3}
           var == Min(L)
           top == {n \in 1 .. 3 : REF_GET_VAR[k[n]] = var}
           B(n) == IF n \in top THEN Children(k[n]) ELSE <<k[n], k[n]>>
<1>1. \A n \in 1 .. 3 : k[n] \in Ref
  OBVIOUS
<1>2. Split[k] = [var |-> var, far |-> {n \in top : REF_IS_FUNCT(k[n])},
                  branches |-> <<B(1), B(2), B(3)>>]
  BY <1>1 DEF Split
<1>3. L \in SUBSET Nat /\ L # {}
  BY <1>1, Level
<1>4. var \in L /\ \A y \in L : var =< y
  <2> HIDE DEF L
  <2> QED BY <1>3, MinOf
<1>5. REF_GET_VAR[k[1]] \in Support(k[1]) /\ REF_GET_VAR[k[1]] \in Var /\ REF_GET_VAR[k[1]] \in L
  <2>1. REF_GET_VAR[k[1]] \in L
    OBVIOUS
  <2> QED BY <2>1, Level DEF Support
<1>6. var \in Var
  <2>1. PICK n \in 1 .. 3 : var = REF_GET_VAR[k[n]]
    BY <1>4
  <2>2. var =< REF_GET_VAR[k[1]] /\ REF_GET_VAR[k[1]] < CONST_VAR /\ CONST_VAR \in Nat
    BY <1>4, <1>5, ConstVar
  <2>3. var # CONST_VAR
    BY <1>3, <1>4, <1>5, <2>2, VarAssumption
  <2> QED BY <1>1, <2>1, <2>3, Level DEF Support
<1>7. ASSUME NEW n \in 1 .. 3
      PROVE  /\ B(n) = <<Hi(k[n], var), Lo(k[n], var)>>
             /\ Below(var, Hi(k[n], var)) /\ Below(var, Lo(k[n], var))
             /\ n \in top => Children(k[n]) = B(n)
             /\ ~(n \in top /\ REF_IS_FUNCT(k[n])) =>
                    {Hi(k[n], var), Lo(k[n], var)} \subseteq {k[n], REF_ONE, REF_ZERO}
  <2>1. REF_GET_VAR[k[n]] \in L /\ k[n] \in Ref
    BY <1>1
  <2>2. \A u \in Support(k[n]) : var =< u
    <3>1. ASSUME NEW u \in Support(k[n]) PROVE var =< u
      <4>1. var =< REF_GET_VAR[k[n]] /\ REF_GET_VAR[k[n]] =< u
        BY <1>4, <2>1, Level
      <4>2. u \in Nat /\ var \in Nat /\ REF_GET_VAR[k[n]] \in Nat
        BY <1>3, <1>4, <2>1, VarAssumption DEF Support
      <4> QED BY <4>1, <4>2
    <3> QED BY <3>1
  <2>3. Below(var, Hi(k[n], var)) /\ Below(var, Lo(k[n], var))
    BY <1>6, <2>1, <2>2, Branches
  <2>4. CASE n \in top
    <3>1. B(n) = Children(k[n]) /\ Children(k[n]) = <<Hi(k[n], var), Lo(k[n], var)>>
      BY <2>4 DEF Children
    <3>2. ASSUME ~REF_IS_FUNCT(k[n])
          PROVE  {Hi(k[n], var), Lo(k[n], var)} \subseteq {REF_ONE, REF_ZERO}
      <4>1. var \in Support(k[n])
        BY <1>6, <2>1, <2>4, Level
      <4>2. k[n] # REF_ONE /\ k[n] # REF_ZERO
        BY <1>6, <4>1 DEF Support, Hi, Lo, REF_ONE, REF_ZERO, Point
      <4>3. PICK u \in Var : k[n] = REF_VAR(u) \/ k[n] = REF_NEGATE(REF_VAR(u))
        BY <3>2, <4>2 DEF REF_IS_FUNCT
      <4>4. u = var
        BY <1>6, <4>1, <4>3 DEF Support, Hi, Lo, REF_VAR, REF_NEGATE, Point
      <4> QED BY <1>6, <4>3, <4>4 DEF Hi, Lo, REF_VAR, REF_NEGATE, Point, REF_ONE, REF_ZERO
    <3> QED BY <2>3, <2>4, <3>1, <3>2
  <2>5. CASE n \notin top
    <3>1. var \notin Support(k[n])
      <4>1. var =< REF_GET_VAR[k[n]] /\ REF_GET_VAR[k[n]] # var
        BY <1>4, <2>1, <2>5
      <4>2. \A u \in Support(k[n]) : REF_GET_VAR[k[n]] =< u
        BY <2>1, Level
      <4>3. var \in Nat /\ REF_GET_VAR[k[n]] \in Nat
        BY <1>3, <1>4, <2>1
      <4>4. ~(REF_GET_VAR[k[n]] =< var)
        BY <4>1, <4>3
      <4> QED BY <4>2, <4>4
    <3>2. Hi(k[n], var) = k[n] /\ Lo(k[n], var) = k[n]
      <4> HIDE DEF L
      <4> QED BY <1>6, <2>1, <3>1, Cofactors
    <3> QED BY <2>3, <2>5, <3>2
  <2> QED BY <2>4, <2>5
<1> HIDE DEF L, top, B
<1>8. Split[k].far \subseteq 1 .. 3
  BY <1>2 DEF top
<1>9. ASSUME NEW n \in 1 .. 3 PROVE Split[k].branches[n] = B(n)
  <2>1. n = 1 \/ n = 2 \/ n = 3
    OBVIOUS
  <2> QED BY <1>2, <2>1
<1>10. \A n \in 1 .. 3 : n \in Split[k].far <=> n \in top /\ REF_IS_FUNCT(k[n])
  BY <1>2
<1>11. Split[k].var = var
  BY <1>2
<1>12. /\ Split[k].var \in Var /\ Split[k].far \subseteq 1 .. 3
       /\ \A n \in 1 .. 3 :
            /\ Split[k].branches[n] = <<Hi(k[n], var), Lo(k[n], var)>>
            /\ Below(var, Hi(k[n], var)) /\ Below(var, Lo(k[n], var))
            /\ n \in Split[k].far => REF_IS_FUNCT(k[n]) /\ Children(k[n]) = Split[k].branches[n]
            /\ n \notin Split[k].far =>
                  {Hi(k[n], var), Lo(k[n], var)} \subseteq {k[n], REF_ONE, REF_ZERO}
  BY <1>6, <1>7, <1>8, <1>9, <1>10, <1>11
<1> HIDE DEF var
<1> QED BY <1>11, <1>12

(* The reference that canonization knows is a branch or a variable, and a  *)
(* node it asks for has the branches it was asked for.                     *)
LEMMA CanonizeFrom ==
    ASSUME NEW v \in Var, NEW hi, NEW lo, Below(v, hi), Below(v, lo)
    PROVE  LET r == ref_canonize_local(v, hi, lo)
           IN  IF r.done THEN r.ref \in {hi, REF_VAR(v), REF_NEGATE(REF_VAR(v))}
               ELSE /\ r.neg \in BOOLEAN /\ r.node \in Ref /\ ~REF_GET_NEG(r.node)
                    /\ Children(r.node) = <<Signed(hi, r.neg), Signed(lo, r.neg)>>
<1> DEFINE neg == REF_GET_NEG(hi)
           r == ref_canonize_local(v, hi, lo)
<1>1. hi \in Ref /\ lo \in Ref /\ neg \in BOOLEAN
  BY DEF Below, REF_GET_NEG
<1>2. CASE r.done
  BY <1>2 DEF ref_canonize_local
<1>3. CASE ~r.done
  <2>1. hi # lo /\ r = [done |-> FALSE, neg |-> neg,
                        node |-> Node(v, Signed(hi, neg), Signed(lo, neg))]
    BY <1>3 DEF ref_canonize_local
  <2>2. Below(v, Signed(hi, neg)) /\ Below(v, Signed(lo, neg))
    BY <1>1, RefClosed, SupportNegate DEF Below, Signed
  <2>3. Signed(hi, neg) # Signed(lo, neg)
    BY <1>1, <2>1, RefClosed DEF Signed
  <2>4. ~REF_GET_NEG(r.node)
    BY <1>1, <1>3, CanonizeSound
  <2> QED BY <1>1, <1>3, <2>1, <2>2, <2>3, <2>4, NodeChildren
<1> QED BY <1>2, <1>3
=============================================================================
