----------------------------- MODULE Multiplier -----------------------------
(***************************************************************************)
(* The array multiplier of circuit.py, in layers of half and full adders,  *)
(* and the table that is compared with it.                                 *)
(***************************************************************************)
EXTENDS CircuitGates

pprod(c, dest, avec, bvec, i, j) == andN(c, dest, <<avec[j + 1], bvec[i + 1]>>)
pprodV(c, dv, avec, bvec, j) ==
    FoldLeft(LAMBDA d, i : pprod(d, dv[i], avec, bvec, i - 1, j), c,
             Upto(Len(dv)))

hadd(c, carry, sum, x, z) == xorN(andN(c, carry, <<x, z>>), sum, <<x, z>>)
haddV(c, cv, sv, xv, yv) ==
    FoldLeft(LAMBDA d, i : hadd(d, cv[i], sv[i], xv[i], yv[i]), c, Upto(Len(cv)))

fadd(c, carry, sum, x, y, z) == maj3(xorN(c, sum, <<x, y, z>>), carry, x, y, z)
faddV(c, cv, sv, xv, yv, zv) ==
    FoldLeft(LAMBDA d, i : fadd(d, cv[i], sv[i], xv[i], yv[i], zv[i]), c,
             Upto(Len(cv)))

(* The first two rows of partial products: bits 0 and 1 of the product.   *)
tlayer(c, out, cvec, svec, avec, bvec) ==
    LET m == Len(avec)
        v0 == TmpNames(c, m - 1)
        c1 == pprodV(tmpVec(c, m - 1), <<out[1]>> \o v0, avec, bvec, 0)
        v1 == TmpNames(c1, m - 1)
        c2 == pprodV(tmpVec(c1, m - 1), v1, avec, bvec, 1)
    IN  decRefs(haddV(c2, cvec, <<out[2]>> \o svec, v0, v1), <<v0, v1>>)

(* One more row: bit j of the product.                                    *)
mlayer(c, out, cvec, svec, cinvec, sinvec, avec, bvec, j) ==
    LET m == Len(avec)
        v == TmpNames(c, m - 1)
        c1 == pprodV(tmpVec(c, m - 1), v, avec, bvec, j)
        pp == Tmp(c1, 1)
        c2 == pprod(tmpNodes(c1, 1), pp, avec, bvec, m - 1, j - 1)
        c3 == faddV(c2, cvec, <<out[j + 1]>> \o svec, sinvec \o <<pp>>, cinvec, v)
    IN  decRefs(c3, <<v, <<pp>>>>)

(* The last carries: bits n and up of the product.                        *)
blayer(c, out, cinvec, sinvec, avec, bvec) ==
    LET m == Len(avec)
        n == Len(bvec)
        pp == Tmp(c, 1)
        c1 == pprod(tmpNodes(c, 1), pp, avec, bvec, m - 1, n - 1)
        cv == TmpNames(c1, m - 2)
        c2 == hadd(tmpVec(c1, m - 2), cv[1], out[n + 1], sinvec[1], cinvec[1])
        c3 == FoldLeft(LAMBDA d, i : fadd(d, cv[i + 1], out[n + 1 + i],
                                 sinvec[i + 1], cinvec[i + 1], cv[i]),
                       c2, Upto(m - 3))
        c4 == fadd(c3, out[n + m], out[n + m - 1], pp, cinvec[m - 1], cv[m - 2])
    IN  decRefs(c4, <<cv, <<pp>>>>)

(* Layer by layer; a layer's sums and carries are released after the next *)
RECURSIVE MiddleLayers(_, _, _, _, _, _, _)
MiddleLayers(c, out, svec, cvec, avec, bvec, j) ==
    LET m == Len(avec)
        s == TmpNames(c, m - 2)
        c1 == tmpVec(c, m - 2)
        r == TmpNames(c1, m - 1)
        c2 == tmpVec(c1, m - 1)
        c3 == mlayer(c2, out, r, s, cvec, svec, avec, bvec, j)
    IN  IF j < Len(bvec)
        THEN MiddleLayers(decRefs(c3, <<svec, cvec>>), out, s, r, avec, bvec, j + 1)
        ELSE decRefs(blayer(c, out, cvec, svec, avec, bvec), <<cvec, svec>>)

multiplier(c, out, avec, bvec) ==
    LET m == Len(avec)
        svec == TmpNames(c, m - 2)
        c1 == tmpVec(c, m - 2)
        cvec == TmpNames(c1, m - 1)
        c2 == tlayer(tmpVec(c1, m - 1), out, cvec, svec, avec, bvec)
    IN  MiddleLayers(c2, out, svec, cvec, avec, bvec, 2)

-----------------------------------------------------------------------------
(* The number a vector of bits encodes, lowest bit first.                 *)
Bits(val, n) == [i \in 1 .. n |-> getBit(val, i - 1)]
Total(s) == FoldLeft(LAMBDA a, b : a + b, 0, s)
Number(bits) == Total([i \in DOMAIN bits |-> bits[i] * 2 ^ (i - 1)])

(* blast enumerates the inputs; ifun maps their numbers to the output's.  *)
blast(c, out, ins, ifun(_)) ==
    LET all == FlattenSeq(ins)
        first(i) == Total([k \in 1 .. i - 1 |-> Len(ins[k])])
        xval(idx) == [i \in DOMAIN ins |->
                        (idx \div 2 ^ first(i)) % 2 ^ Len(ins[i])]
        add(d, select, y) ==
            FoldLeft(LAMBDA e, j : IF getBit(y, j - 1) = 0 THEN e
                                   ELSE orN(e, out[j], <<out[j], select>>),
                     d, Upto(Len(out)))
        row(d, i) ==
            LET y == ifun(xval(i - 1)) % 2 ^ Len(out)
                select == Tmp(d, 1)
            IN  IF y = 0 THEN d
                ELSE decRefs(add(matchVal(tmpNodes(d, 1), i - 1, all, select),
                                 select, y), <<<<select>>>>)
    IN  FoldLeft(row, orV(c, out, <<>>), Upto(2 ^ Len(all)))

multfun(xlist) == FoldLeft(LAMBDA v, x : v * x, 1, xlist)
multblast(c, out, avec, bvec) == blast(c, out, <<avec, bvec>>, multfun)
=============================================================================
