---------------------------- MODULE CircuitGates ----------------------------
(***************************************************************************)
(* The functions circuit.py builds from commands: adders and multipliers   *)
(* over vectors, counters of the signals of a vector that are 1, and       *)
(* tables.  A method takes the circuit and returns it; dest names the      *)
(* result.  The temporaries a method takes are those of the circuit it is  *)
(* called with, and the next ones.                                         *)
(***************************************************************************)
EXTENDS Circuit

\* (mutant) the first and the third are not looked at together
maj3WithoutP13(c, dest, n1, n2, n3) ==
    LET p12 == Tmp(c, 1)
        p23 == Tmp(c, 2)
        c1 == andN(tmpNodes(c, 3), p12, <<n1, n2>>)
        c2 == andN(c1, p23, <<n2, n3>>)
    IN  decRefs(orN(c2, dest, <<p12, p23>>), <<<<p12>>, <<p23>>>>)
maj3(c, dest, n1, n2, n3) ==
    LET p12 == Tmp(c, 1)
        p23 == Tmp(c, 2)
        p13 == Tmp(c, 3)
        c1 == andN(tmpNodes(c, 3), p12, <<n1, n2>>)
        c2 == andN(c1, p23, <<n2, n3>>)
        c3 == andN(c2, p13, <<n1, n3>>)
    IN  decRefs(orN(c3, dest, <<p12, p23, p13>>), <<<<p12>>, <<p23>>, <<p13>>>>)

majorityV3(c, dest, a1, a2, a3) ==
    LET n == Len(dest)
        c1 == tmpVec(c, n)
        c2 == tmpVec(c1, n)
        c3 == tmpVec(c2, n)
        p == <<TmpNames(c, n), TmpNames(c1, n), TmpNames(c2, n)>>
        c4 == andV(c3, p[1], <<a1, a2>>)
        c5 == andV(c4, p[2], <<a2, a3>>)
        c6 == andV(c5, p[3], <<a1, a3>>)
    IN  decRefs(orV(c6, dest, p), p)

(* A ripple-carry adder, without the carry out.                           *)
addV2(c, dest, a1, a2) ==
    LET n == Len(dest)
        cv == TmpNames(c, n - 1)
        carry == shiftLeft(cv, 1)
        bit(d, i) ==
            LET s == xorN(d, dest[i], <<a1[i], a2[i], carry[i]>>)
            IN  IF i < n THEN maj3(s, carry[i + 1], a1[i], a2[i], carry[i])
                ELSE s
    IN  decRefs(FoldLeft(bit, tmpVec(c, n - 1), Upto(n)), <<cv>>)

(* addV and multV combine the first two arguments until two are left, and *)
(* release the intermediate result once it has been used.                 *)
RECURSIVE addV(_, _, _, _)
addV(c, dest, args, tmpFirst) ==
    LET used == IF tmpFirst THEN <<args[1]>> ELSE <<>>
        t == TmpNames(c, Len(dest))
    IN  IF Len(args) > 2
        THEN addV(decRefs(addV2(tmpVec(c, Len(dest)), t, args[1], args[2]),
                          used),
                  dest, <<t>> \o SubSeq(args, 3, Len(args)), TRUE)
        ELSE decRefs(addV2(c, dest, args[1], args[2]), used)

(* Partial products, each shifted, and their sum.                         *)
multV2(c, dest, p1, p2) ==
    LET n == Len(dest)
        np1 == extend(p1, n, Zero)
        np2 == extend(p2, n, Zero)
        tlist == [i \in 1 .. n |-> TmpNames([c EXCEPT !.next = @ + i - 1], n)]
        pp == [i \in 1 .. n |-> extend(shiftLeft(tlist[i], i - 1), n, Zero)]
        product(d, i) == andV(tmpVec(d, n), tlist[i],
                              <<extend(<<>>, n, np2[i]), np1>>)
    IN  decRefs(addV(FoldLeft(product, c, Upto(n)), dest, pp, FALSE), tlist)

RECURSIVE multV(_, _, _, _)
multV(c, dest, args, tmpFirst) ==
    LET used == IF tmpFirst THEN <<args[1]>> ELSE <<>>
        t == TmpNames(c, Len(dest))
    IN  IF Len(args) > 2
        THEN multV(decRefs(multV2(tmpVec(c, Len(dest)), t, args[1], args[2]),
                           used),
                   dest, <<t>> \o SubSeq(args, 3, Len(args)), TRUE)
        ELSE decRefs(multV2(c, dest, args[1], args[2]), used)

-----------------------------------------------------------------------------
(* c0 and c1: none, or exactly one, of the signals is 1.                  *)
count01(c, c0, c1, v, nv) ==
    FoldLeft(LAMBDA d, i : andN(iteN(d, c1, <<v[i], c0, c1>>), c0, <<c0, nv[i]>>),
             assignConstant(assignConstant(c, c0, 1), c1, 0), Upto(Len(v)))

exactly1(c, dest, v, nv) ==
    decRefs(count01(tmpNodes(c, 1), Tmp(c, 1), dest, v, nv), <<<<Tmp(c, 1)>>>>)

atMost1(c, dest, v, nv) ==
    LET c0 == Tmp(c, 1)
        c1 == Tmp(c, 2)
        d == count01(tmpNodes(c, 2), c0, c1, v, nv)
    IN  decRefs(orN(d, dest, <<c0, c1>>), <<<<c0>>, <<c1>>>>)

(* The counters below keep in t[l + 1] whether l signals have been 1.     *)
CountStart(c, t) ==
    FoldLeft(LAMBDA d, l : assignConstant(d, t[l + 1], 0),
             assignConstant(c, t[1], 1), Upto(Len(t) - 1))

(* One signal: the counts of new follow from those of old, highest first. *)
CountStep(c, new, old, s, ns) ==
    andN(FoldLeft(LAMBDA d, l : iteN(d, new[l + 1], <<s, old[l], old[l + 1]>>),
                  c, Downto(Len(new) - 1)),
         new[1], <<old[1], ns>>)

CountUpTo(c, t, v, nv, n) ==
    FoldLeft(LAMBDA d, i : CountStep(d, t, t, v[i], nv[i]), CountStart(c, t),
             Upto(n))

countGeneratorVector(c, destV, v, nv) ==
    LET n == Len(v)
        t == TmpNames(c, Len(destV))
        d == CountUpTo(tmpVec(c, Len(destV)), t, v, nv, n - 1)
    IN  decRefs(CountStep(d, destV, t, v[n], nv[n]), <<t>>)

atMostK(c, dest, v, nv, k) ==
    LET t == TmpNames(c, k + 1)
        d == countGeneratorVector(tmpVec(c, k + 1), t, v, nv)
    IN  decRefs(orN(d, dest, t), <<t>>)

(* ok[l + 1] says whether a count of l is accepted.  The circuit keeps t, *)
(* of which it deletes the names it combined.                             *)
okList(c, dest, v, nv, ok) ==
    LET t == TmpNames(c, Len(ok))
        d == countGeneratorVector(tmpVec(c, Len(ok)), t, v, nv)
        chosen == SelectSeq(Upto(Len(ok)), LAMBDA l : ok[l])
        st == [i \in DOMAIN chosen |-> t[chosen[i]]]
    IN  decRefs(orN(Hold(d, st), dest, st), <<st>>)

(* With k = 0 the index k - 1 is the last element, which is the first.    *)
exactlyK(c, dest, v, nv, k) ==
    LET n == Len(v)
        t == TmpNames(c, k + 1)
        before == IF k = 0 THEN t[1] ELSE t[k]
        d == CountUpTo(tmpVec(c, k + 1), t, v, nv, n - 1)
    IN  decRefs(iteN(d, dest, <<v[n], before, t[k + 1]>>), <<t>>)

(* The product term of the vectors' bits that encode val.                 *)
getBit(val, i) == (val \div 2 ^ i) % 2
matchVal(c, val, v, out) ==
    andN(c, out, [i \in DOMAIN v |->
                    IF getBit(val, i - 1) = 0 THEN Neg(v[i]) ELSE v[i]])
=============================================================================
