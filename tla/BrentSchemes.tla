---------------------------- MODULE BrentSchemes ----------------------------
(***************************************************************************)
(* KernelSet and MScheme of src/matrix/brent.py: what a scheme computes,   *)
(* its kernel terms, its canonical forms under the permutations of the     *)
(* matrices, of the indices and of the levels, the symmetry between A and  *)
(* B, and the schemes that an invertible matrix between A and B leads to   *)
(* (superbrent.py).  A scheme is a record [dim, aux, asst].                *)
(***************************************************************************)
EXTENDS BrentTerms

square(dim) == dim[1] = dim[2]     \* as the code tests it, with nonzero dimensions

-----------------------------------------------------------------------------
(* MScheme, as constructed, and its kernel terms.                          *)
generateZeroAssignment(dim, aux) == [v \in Variables(dim, aux) |-> 0]
MScheme(dim, aux, asst) == [dim |-> dim, aux |-> aux, asst |-> asst]
AllKernels(dim, aux) == {<<i, j, k, l>> : i \in unitRange(dim[1]), j \in unitRange(dim[2]),
                                           k \in unitRange(dim[3]), l \in unitRange(aux)}
findKernels(s) == {kt \in AllKernels(s.dim, s.aux) : inAssignment(kt, s.asst)}
loadKernels(s, K) == [s EXCEPT !.asst = overWrite(@, [v \in UNION {KernelVariables(kt) : kt \in K} |-> 1])]
kernelVariables(s) == UNION {KernelVariables(kt) : kt \in findKernels(s)}

permute(s, pset) == MScheme(s.dim, s.aux, permuteAssignment(s.asst, pset))
mergeSchemeLevels(s, from, to, mode) ==
    MScheme(s.dim, s.aux - 1, mergeLevels(s.asst, from, to, kernelVariables(s), mode))
permuteKernels(K, pset) == {permuteKernel(kt, pset) : kt \in K}

(* A level's polynomial lists the variables of the level that are 1: here  *)
(* a number with a bit for each.  A scheme's signature has one for each    *)
(* level.                                                                  *)
Place(dim, v) ==
    2 ^ ((rowIndex(v) - 1) * ncol(dim, cat(v)) + column(v) - 1
         + CASE cat(v) = "alpha" -> 0
             [] cat(v) = "beta"  -> dim[1] * dim[2]
             [] cat(v) = "gamma" -> dim[1] * dim[2] + dim[2] * dim[3])
showPolynomial(s, l) ==
    SumSet({Place(s.dim, v) : v \in {w \in VariablesAt(s.dim, l) : valueOf(s.asst, w) = 1}})
generatePolynomial(s) == [l \in unitRange(s.aux) |-> showPolynomial(s, l)]
signature(s) == generatePolynomial(s)

(* parsePolynomialLine: what is there becomes 1, the rest stays.           *)
parsePolynomialLine(s, p, l) ==
    [s EXCEPT !.asst = overWrite(@, [v \in {w \in VariablesAt(s.dim, l) :
                                              (p \div Place(s.dim, w)) % 2 = 1} |-> 1])]
FromLines(dim, aux, lines) ==
    FoldLeftDomain(LAMBDA s, l : parsePolynomialLine(s, lines[l], l),
                   MScheme(dim, aux, generateZeroAssignment(dim, aux)), lines)
bundle(s) == <<s.dim, s.aux, generatePolynomial(s)>>
unbundle(rep) == FromLines(rep[1], rep[2], rep[3])

-----------------------------------------------------------------------------
(* The properties of a scheme that the programs look at.                   *)
obeysUniqueUsage(s) == Cardinality(findKernels(s)) = s.dim[1] * s.dim[2] * s.dim[3]
AtLevel(K, l) == {kt \in K : kt[4] = l}
\* (it takes the greatest level first, so a set without kernel terms raises)
groupings(K, minCount, maxCount) ==
    {kt \in K : Cardinality(AtLevel(K, kt[4])) \in minCount .. maxCount}
obeysMaxDouble(s) == groupings(findKernels(s), 3, s.aux) = {}
obeysSingletonExclusion(s) ==
    \A kt \in groupings(findKernels(s), 1, 1) : \E c \in Categories :
        Cardinality({v \in VariablesAt(s.dim, kt[4]) : cat(v) = c /\ valueOf(s.asst, v) = 1}) <= 1
brentCheck(s, idx) ==
    LET val == Cardinality({l \in unitRange(s.aux) :
                   \A v \in {alpha(idx, l), beta(idx, l), gamma(idx, l)} : valueOf(s.asst, v) = 1})
    IN  (val % 2 = 1) = isKernel(idx)
obeysBrent(s) == \A idx \in Range(indexExpand(fullRanges(s.dim))) : brentCheck(s, idx)
completeAssignment(s) == Cardinality(DOMAIN s.asst) = s.dim[1] * s.dim[2] * s.dim[3] * s.aux
generateUnitClauses(s) == {unitClause(v, s.asst[v], s.dim) : v \in DOMAIN s.asst}

-----------------------------------------------------------------------------
(* KernelSet: levels with the most terms first, then by their terms;       *)
(* levels with the same terms stay in their order.                         *)
Code(kt) == 100 * kt[1] + 10 * kt[2] + kt[3]
levelize(K, l) == SortSeq(listOf({Code(kt) : kt \in AtLevel(K, l)}), <)
LevelKey(K, l) == <<-Cardinality(AtLevel(K, l))>> \o levelize(K, l)
(* The permuter that sorts levels by their keys.                           *)
SortLevels(key) ==
    [l \in DOMAIN key |->
        Cardinality({m \in DOMAIN key : \/ Before(key[m], key[l])
                                        \/ key[m] = key[l] /\ m <= l})]
levelCanonize(K, aux) == SortLevels([l \in unitRange(aux) |-> LevelKey(K, l)])

(* KernelSet.signature has the terms of levels with more than one.         *)
kernelSignature(K) ==
    LET terms == {1000 * kt[4] + Code(kt) : kt \in {x \in K : Cardinality(AtLevel(K, x[4])) > 1}}
    IN  SortSeq(listOf(terms), <)

(* listCanonize: all sets of permuters that lead to the least signature.   *)
allPermuterSets(dim, aux) ==
    {[NoPermuters(dim, aux) EXCEPT !.ijk = v, !.i = p, !.j = q, !.k = r] :
        v \in IF square(dim) THEN allPermuters(1 .. 3) ELSE {Identity(1 .. 3)},
        p \in allPermuters(unitRange(dim[1])), q \in allPermuters(unitRange(dim[2])),
        r \in allPermuters(unitRange(dim[3]))}
LevelCanonized(K, aux, pset) ==
    [pset EXCEPT !.level = levelCanonize(permuteKernels(K, pset), aux)]
\* (mutant) of the permuters that are equally good only one is kept
OneBest(K, dim, aux) ==
    LET sets == {LevelCanonized(K, aux, pset) : pset \in allPermuterSets(dim, aux)}
        sign == [pset \in sets |-> kernelSignature(permuteKernels(K, pset))]
    IN  {CHOOSE pset \in sets : sign[pset] = Least(Range(sign))}
listCanonize(K, dim, aux) ==
    LET sets == {LevelCanonized(K, aux, pset) : pset \in allPermuterSets(dim, aux)}
        sign == [pset \in sets |-> kernelSignature(permuteKernels(K, pset))]
        best == Least(Range(sign))
    IN  {pset \in sets : sign[pset] = best}

(* MScheme.canonize                                                        *)
canonize(s) ==
    LET all == {permute(s, pset) : pset \in listCanonize(findKernels(s), s.dim, s.aux)}
        lines == [t \in all |-> signature(t)]
    IN  CHOOSE t \in all : lines[t] = Least(Range(lines))

(* KernelSet.isSymmetric and findSymmetries                                *)
isSymmetric(K, dim, aux) ==
    LET Canonized(J) == permuteKernels(J, LevelCanonized(J, aux, NoPermuters(dim, aux)))
        mirror == [NoPermuters(dim, aux) EXCEPT !.ijk = Swap]
        pk == Canonized(K)
    IN  kernelSignature(pk) = kernelSignature(Canonized(permuteKernels(pk, mirror)))

-----------------------------------------------------------------------------
(* Symmetric schemes.  initialLevelCanonize sorts levels by kernel terms,  *)
(* then by polynomials.                                                    *)
initialLevelCanonize(s) ==
    LET K == findKernels(s)
    IN  SortLevels([l \in unitRange(s.aux) |-> Append(LevelKey(K, l), showPolynomial(s, l))])
WithLevels(s, p) == permute(s, [NoPermuters(s.dim, s.aux) EXCEPT !.level = p])
SwapAB(s) == permute(s, [NoPermuters(s.dim, s.aux) EXCEPT !.ijk = Swap])

(* findSymmetry: the level that each level is mapped to when A and B are   *)
(* swapped; <<>> when the scheme is not symmetric.                         *)
\* (mutant) the levels are those of the sorted scheme, not of the scheme
SymmetryOfSorted(s) ==
    LET ls == WithLevels(s, initialLevelCanonize(s))
        q == initialLevelCanonize(SwapAB(ls))
    IN  IF signature(ls) # signature(WithLevels(SwapAB(ls), q)) THEN <<>> ELSE q
findSymmetry(s) ==
    LET p == initialLevelCanonize(s)
        ls == WithLevels(s, p)
        q == initialLevelCanonize(SwapAB(ls))
    IN  IF signature(ls) # signature(WithLevels(SwapAB(ls), q)) THEN <<>>
        ELSE composePermuters(composePermuters(p, q), invertPermuter(p))

(* symmetricLevelCanonize: symmetric pairs, then self-symmetric levels, of *)
(* a scheme ls whose levels are sorted and which match maps to its mirror. *)
PairsFirst(ls, match) ==
    LET lines == generatePolynomial(ls)
        firsts == SelectSeq([l \in unitRange(ls.aux) |-> l], LAMBDA l : match[l] > l)
        selfs == SelectSeq([l \in unitRange(ls.aux) |-> l], LAMBDA l : match[l] = l)
        pairs == FlattenSeq([n \in DOMAIN firsts |->
                               <<lines[firsts[n]], lines[match[firsts[n]]]>>])
    IN  FromLines(ls.dim, ls.aux, pairs \o [n \in DOMAIN selfs |-> lines[selfs[n]]])
IfSymmetric(ls, match) ==
    IF square(ls.dim) /\ signature(ls) = signature(WithLevels(SwapAB(ls), match))
    THEN <<PairsFirst(ls, match)>> ELSE <<>>
SortedForm(ls) == IfSymmetric(ls, initialLevelCanonize(SwapAB(ls)))
symmetricLevelCanonize(s) == SortedForm(WithLevels(s, initialLevelCanonize(s)))

(* symmetricCanonize: the least under the permutations that keep symmetry. *)
LeastSymmetric(all) ==
    LET key == [t \in all |-> FlattenSeq([l \in unitRange(t.aux) |-> LevelKey(findKernels(t), l)])
                                \o signature(t)]
    IN  CHOOSE t \in all : key[t] = Least(Range(key))
symmetricCanonize(s) ==
    LET moved == {permute(s, [NoPermuters(s.dim, s.aux) EXCEPT !.i = p, !.j = q, !.k = p]) :
                    p \in allPermuters(unitRange(s.dim[1])), q \in allPermuters(unitRange(s.dim[2]))}
    IN  IF symmetricLevelCanonize(s) = <<>> THEN <<>>
        ELSE <<LeastSymmetric(UNION {Range(symmetricLevelCanonize(t)) : t \in moved})>>
-----------------------------------------------------------------------------
(* Matrices over Z2 (superbrent.py), their elements row by row, and the    *)
(* number that has a bit for each (the signature, and compress).           *)
Matrix(rows, cols, elements) == [rows |-> rows, cols |-> cols, elements |-> elements]
val(m, r, c) == m.elements[r * m.cols + c + 1]
MatrixOf(n, sig) == Matrix(n, n, [x \in 1 .. n * n |-> (sig \div 2 ^ (x - 1)) % 2])
compress(m) == SumSet({2 ^ (x - 1) : x \in {y \in DOMAIN m.elements : m.elements[y] = 1}})
multiply(m, other) ==
    LET ones(r, c) == {j \in 0 .. m.cols - 1 : val(m, r, j) = 1 /\ val(other, j, c) = 1}
    IN  Matrix(m.rows, other.cols,
               [x \in 1 .. m.rows * other.cols |->
                   Cardinality(ones((x - 1) \div other.cols, (x - 1) % other.cols)) % 2])
isIdentity(m) ==
    m.rows = m.cols /\ \A r, c \in 0 .. m.rows - 1 : (val(m, r, c) = 1) = (r = c)
\* only of rows: with an inverse of the same form that is enough
isPermutation(m) ==
    m.rows = m.cols /\ \A r \in 0 .. m.rows - 1 :
                          Cardinality({c \in 0 .. m.cols - 1 : val(m, r, c) = 1}) = 1
sortKey(m) ==
    [x \in DOMAIN m.elements |->
        LET r == (x - 1) % m.rows
            c == (r + (x - 1) \div m.rows) % m.cols
        IN  IF r = c THEN 1 - val(m, r, c) ELSE val(m, r, c)]

(* inversions.py: the pairs of inverse matrices, sorted; those of          *)
(* permutations; and those no two of which differ by a permutation.        *)
pairTest(m1, m2) == isIdentity(multiply(m1, m2))
Sorted(pairs) == SortSeq(listOf(pairs), LAMBDA p, q : Before(sortKey(p[1]), sortKey(q[1])))
Matrices(n) == {MatrixOf(n, sig) : sig \in 0 .. 2 ^ (n * n) - 1}
allPairs(n) == Sorted({p \in Matrices(n) \X Matrices(n) : pairTest(p[1], p[2])})
allPermutations(n) ==
    LET perms == {m \in Matrices(n) : isPermutation(m)}
    IN  Sorted({p \in perms \X perms : pairTest(p[1], p[2])})
uniquePairs(n) ==
    LET perms == {p[1] : p \in Range(allPermutations(n))}
        known(list, m) == \E p \in perms, u \in Range(list) : multiply(m, p) = u[1]
    IN  FoldLeft(LAMBDA list, pair : IF known(list, pair[1]) THEN list ELSE Append(list, pair),
                 <<>>, allPairs(n))
(* The lists that inversions.py writes, as numbers.                        *)
showPairs(plist) == [x \in DOMAIN plist |-> <<compress(plist[x][1]), compress(plist[x][2])>>]

(* SuperScheme: A, B and C of a level as matrices, and A multiplied by a   *)
(* matrix while B is multiplied by its inverse.                            *)
generateMatrixTriple(s, l) ==
    [c \in Categories |->
        LET cols == ncol(s.dim, c)
        IN  Matrix(nrow(s.dim, c), cols,
                   [x \in 1 .. nrow(s.dim, c) * cols |->
                       s.asst[<<c, ((x - 1) \div cols) + 1, ((x - 1) % cols) + 1, l>>]])]
loadMatrixTriple(s, l, triple) ==
    [s EXCEPT !.asst = overWrite(@, [v \in VariablesAt(s.dim, l) |->
                                       val(triple[cat(v)], rowIndex(v) - 1, column(v) - 1)])]
productTransform(s, pair) ==
    LET moved(t) == [t EXCEPT !["alpha"] = multiply(@, pair[1]), !["beta"] = multiply(pair[2], @)]
    IN  FoldLeft(LAMBDA t, l : loadMatrixTriple(t, l, moved(generateMatrixTriple(s, l))),
                 MScheme(s.dim, s.aux, generateZeroAssignment(s.dim, s.aux)),
                 [l \in unitRange(s.aux) |-> l])
=============================================================================
