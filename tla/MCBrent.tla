------------------------------- MODULE MCBrent ------------------------------
(* Strassen's scheme for 2 x 2 matrices, the same with two products more   *)
(* that cancel, and parts of a scheme for 1 x 2 and 2 x 1 matrices.        *)
EXTENDS Brent

(* A product: the entries of A and B in its factors, and those of C.       *)
Product(l, as, bs, cs) == {<<"alpha", x[1], x[2], l>> : x \in as}
                            \union {<<"beta", x[1], x[2], l>> : x \in bs}
                            \union {<<"gamma", x[1], x[2], l>> : x \in cs}
Ones(dim, aux, ones) == MScheme(dim, aux, [v \in Variables(dim, aux) |-> IF v \in ones THEN 1 ELSE 0])

a == <<1, 1>>
b == <<1, 2>>
c == <<2, 1>>
d == <<2, 2>>
StrassenOnes == UNION {
    Product(1, {a, d}, {a, d}, {a, d}), Product(2, {c, d}, {a}, {c, d}),
    Product(3, {a}, {b, d}, {b, d}),    Product(4, {d}, {c, a}, {a, c}),
    Product(5, {a, b}, {d}, {b, a}),    Product(6, {c, a}, {a, b}, {d}),
    Product(7, {b, d}, {c, d}, {a})}
Strassen == Ones(<<2, 2, 2>>, 7, StrassenOnes)
(* Two kernel-free products more, of which the second is the first again.  *)
Doubled == Ones(<<2, 2, 2>>, 9, StrassenOnes \union Product(8, {a}, {c}, {a})
                                             \union Product(9, {a}, {c}, {a}))
Wrong == Ones(<<2, 2, 2>>, 7, StrassenOnes \ {<<"gamma", 1, 1, 7>>})
Partial == MScheme(<<2, 2, 2>>, 3, [v \in DOMAIN Ones(<<2, 2, 2>>, 3, {}).asst \ {<<"beta", 1, 2, 3>>}
                                      |-> IF v \in StrassenOnes THEN 1 ELSE 0])
Small == Ones(<<1, 2, 1>>, 2, Product(1, {a}, {a}, {a}) \union Product(2, {b}, {c}, {a}))
MCSchemes == {Strassen, Doubled, Wrong, Partial, Small}

-----------------------------------------------------------------------------
Whole == scheme.aux = file.aux

(* Permuting, canonizing and sending a scheme keep what it computes, and   *)
(* the number of its kernel terms (BrentVariable.permute, brent.py:208);   *)
(* an invertible matrix between A and B keeps what it computes             *)
(* (productTransform, superbrent.py:184).                                  *)
StillMultiplies ==
    /\ obeysBrent(scheme) = obeysBrent(file)
    /\ ~multiplied =>
          /\ Cardinality(findKernels(scheme)) = Cardinality(findKernels(file))
          /\ obeysSingletonExclusion(scheme) = obeysSingletonExclusion(file)

(* Merging two levels loses no kernel term, whose literals prevail over    *)
(* those of the other level, and gives no variable a value that neither    *)
(* level had, in any mode (Assignment.mergeLevels, brent.py:417).          *)
MergedTo(pair, l) == IF l = pair[1] THEN pair[2] ELSE IF l > pair[1] THEN l - 1 ELSE l
KernelsMoved(pair) ==
    \A kt \in findKernels(file) :
        <<kt[1], kt[2], kt[3], MergedTo(pair, kt[4])>> \in findKernels(scheme)
ValuesMoved(pair) ==
    LET values == {<<shiftLevel(v, MergedTo(pair, level(v))), file.asst[v]>> : v \in DOMAIN file.asst}
    IN  \A v \in DOMAIN scheme.asst : <<v, scheme.asst[v]>> \in values
MergedOnce == \E pair \in LevelPairs(file) : KernelsMoved(pair) /\ ValuesMoved(pair)

(* What one call of the class keeps of the scheme that was read.           *)
CallKeeps == IF Whole THEN StillMultiplies ELSE calls = 1 => MergedOnce

(* A scheme has one canonical form, whatever permutations it comes from,   *)
(* when no two of its levels have the same kernel terms (listCanonize,     *)
(* brent.py:786, on which the database's hashes rest).  After an           *)
(* invertible matrix it has one of those that the pairs unique up to       *)
(* permutation lead to, the only ones mtest.py tries unless told to.       *)
KernelsOf(s, l) == {<<kt[1], kt[2], kt[3]>> : kt \in AtLevel(findKernels(s), l)}
Apart(s) == \A l, m \in unitRange(s.aux) :
              KernelsOf(s, l) = KernelsOf(s, m) => l = m \/ showPolynomial(s, l) = showPolynomial(s, m)
MultipliedForms(s) ==
    {canonize(productTransform(s, PairOf(s.dim[2], sigs))) :
        sigs \in Range(PairLists[s.dim[2]].unique)}
OneCanonicalForm ==
    Whole /\ Complete(file) /\ Apart(scheme) =>
        canonize(scheme) \in IF multiplied THEN MultipliedForms(file) ELSE {canonize(file)}

(* What findSymmetry returns maps the scheme to itself, with A and B       *)
(* swapped, which makes its kernel terms symmetric too; done twice it      *)
(* changes nothing (findSymmetry, brent.py:1470).                          *)
SymmetryMaps ==
    matcher # <<>> /\ Whole /\ DOMAIN matcher = unitRange(scheme.aux) /\ calls = 1 =>
        /\ permute(scheme, [NoPermuters(scheme.dim, scheme.aux) EXCEPT !.ijk = Swap, !.level = matcher])
             = scheme
        /\ \A l \in DOMAIN matcher :
              showPolynomial(scheme, matcher[matcher[l]]) = showPolynomial(scheme, l)
        /\ isSymmetric(findKernels(scheme), scheme.dim, scheme.aux)
=============================================================================
