----------------------------- MODULE BrentTerms -----------------------------
(***************************************************************************)
(* Schemes that multiply matrices (src/matrix/brent.py).  A scheme has a   *)
(* number of products, its levels; a Brent variable says whether an entry  *)
(* of A or B is a summand of a factor of a product (alpha, beta), and      *)
(* whether the product is a summand of an entry of C (gamma).              *)
(*                                                                         *)
(* A variable is <<category, row, column, level>>, an assignment is a      *)
(* function from variables to 0 and 1, perhaps not of all.  A kernel term  *)
(* a[i,j] * b[j,k] --> c[i,k] at a level is <<i, j, k, level>>.  Of a      *)
(* string that the code compares, the model keeps an order: a sequence of  *)
(* numbers, compared the same way.                                         *)
(***************************************************************************)
EXTENDS Integers, FiniteSets, SequencesExt

Categories == {"alpha", "beta", "gamma"}
cat(v) == v[1]
rowIndex(v) == v[2]
column(v) == v[3]
level(v) == v[4]

unitRange(n) == 1 .. n

(* The order of two sequences of numbers.                                  *)
Before(s, t) ==
    \E n \in 1 .. Len(s) + 1 :
        /\ \A m \in 1 .. n - 1 : m <= Len(t) /\ s[m] = t[m]
        /\ n <= Len(t)
        /\ n = Len(s) + 1 \/ s[n] < t[n]
Least(S) == CHOOSE s \in S : \A t \in S : s = t \/ Before(s, t)

(* A set as a list, in some order; a set of numbers or variables, sorted.  *)
listOf(S) == FoldSet(LAMBDA x, list : Append(list, x), <<>>, S)

(* All indices within ranges, the first index changing slowest.            *)
indexExpand(rlist) ==
    FoldRight(LAMBDA n, sofar : FlattenSeq([x \in unitRange(n) |->
                                   [m \in DOMAIN sofar |-> <<x>> \o sofar[m]]]),
              rlist, <<<<>>>>)

-----------------------------------------------------------------------------
(* Permuters.  A set of them has one for the matrices (ijk, of 1..3), one  *)
(* for each index, and one for the levels; those not given are identities. *)
Identity(S) == [x \in S |-> x]
allPermuters(S) == Permutations(S)
invertPermuter(p) == [y \in Range(p) |-> CHOOSE x \in DOMAIN p : p[x] = y]
composePermuters(p, q) == [x \in DOMAIN p |-> q[p[x]]]

NoPermuters(dim, aux) ==
    [ijk |-> Identity(1 .. 3), i |-> Identity(unitRange(dim[1])),
     j |-> Identity(unitRange(dim[2])), k |-> Identity(unitRange(dim[3])),
     level |-> Identity(unitRange(aux))]

(* ijk2var: where a permutation of i, j, k takes the matrices.             *)
ijk2var(p) ==
    LET sig == CASE p = <<1, 2, 3>> -> <<"alpha", "beta", "gamma">>
                 [] p = <<1, 3, 2>> -> <<"gamma", "beta", "alpha">>
                 [] p = <<2, 1, 3>> -> <<"alpha", "gamma", "beta">>
                 [] p = <<2, 3, 1>> -> <<"gamma", "alpha", "beta">>
                 [] p = <<3, 1, 2>> -> <<"beta", "gamma", "alpha">>
                 [] p = <<3, 2, 1>> -> <<"beta", "alpha", "gamma">>
    IN  [c \in Categories |-> CASE c = "alpha" -> sig[1] [] c = "beta" -> sig[2]
                                [] c = "gamma" -> sig[3]]
Swap == <<3, 2, 1>>

(* Which reorderings swap the subscripts: the odd ones.                    *)
\* (mutant) B and C may change places without a transposition
FlipWithA(vp) == <<vp["alpha"], vp["beta"], vp["gamma"]>> \in
                   {<<"gamma", "beta", "alpha">>, <<"beta", "alpha", "gamma">>}
shouldFlip(vp) == <<vp["alpha"], vp["beta"], vp["gamma"]>> \in
                    {<<"gamma", "beta", "alpha">>, <<"beta", "alpha", "gamma">>,
                     <<"alpha", "gamma", "beta">>}

Flip(pair, yes) == IF yes THEN <<pair[2], pair[1]>> ELSE pair

(* BrentVariable.permute                                                   *)
permuteVariable(v, pset) ==
    LET vp == ijk2var(pset.ijk)
        c == vp[cat(v)]
        leftRight == Flip(Flip(<<rowIndex(v), column(v)>>, cat(v) = "gamma"), shouldFlip(vp))
        rc == Flip(leftRight, c = "gamma")
    IN  <<c,
          IF c = "beta" THEN pset.j[rc[1]] ELSE pset.i[rc[1]],
          IF c = "alpha" THEN pset.j[rc[2]] ELSE pset.k[rc[2]],
          pset.level[level(v)]>>

(* KernelTerm.permute                                                      *)
permuteKernel(kt, pset) ==
    <<pset.i[kt[pset.ijk[1]]], pset.j[kt[pset.ijk[2]]], pset.k[kt[pset.ijk[3]]],
      pset.level[kt[4]]>>

(* The order of variables: by level, then gamma, alpha, beta.              *)
prefixOrder(c) == CASE c = "gamma" -> 0 [] c = "alpha" -> 1 [] c = "beta" -> 2
Key(v) == <<level(v), prefixOrder(cat(v)), rowIndex(v), column(v)>>
Less(v, w) == Before(Key(v), Key(w))

(* clauseNumber: the number of a variable in SAT formulas.                 *)
clauseNumber(v, dim) ==
    LET start == (level(v) - 1) * (dim[1] * dim[2] + dim[2] * dim[3] + dim[2] * dim[3])
                   + (IF cat(v) # "alpha" THEN dim[1] * dim[2] ELSE 0)
                   + (IF cat(v) = "gamma" THEN dim[2] * dim[3] ELSE 0)
        rc == Flip(<<rowIndex(v), column(v)>>, cat(v) = "gamma")
    IN  start + (rc[1] - 1) * (IF cat(v) = "alpha" THEN dim[2] ELSE dim[3]) + rc[2]
unitClause(v, phase, dim) == IF phase = 1 THEN clauseNumber(v, dim) ELSE -clauseNumber(v, dim)

-----------------------------------------------------------------------------
(* The variables of a problem, and of a triple of indices.                 *)
nrow(dim, c) == IF c = "beta" THEN dim[2] ELSE dim[1]
ncol(dim, c) == IF c = "alpha" THEN dim[2] ELSE dim[3]
fullRanges(dim) == <<dim[1], dim[2], dim[2], dim[3], dim[1], dim[3]>>
VariablesAt(dim, l) ==
    UNION {{<<c, r, s, l>> : r \in unitRange(nrow(dim, c)), s \in unitRange(ncol(dim, c))} :
             c \in Categories}
Variables(dim, aux) == UNION {VariablesAt(dim, l) : l \in unitRange(aux)}

(* GeneralTerm, of indices i1 i2 j1 j2 k1 k2.                              *)
alpha(idx, l) == <<"alpha", idx[1], idx[2], l>>
beta(idx, l) == <<"beta", idx[3], idx[4], l>>
gamma(idx, l) == <<"gamma", idx[5], idx[6], l>>
isKernel(idx) == idx[1] = idx[5] /\ idx[2] = idx[3] /\ idx[4] = idx[6]
KernelIndices(kt) == <<kt[1], kt[2], kt[2], kt[3], kt[1], kt[3]>>
KernelVariables(kt) == {alpha(KernelIndices(kt), kt[4]), beta(KernelIndices(kt), kt[4]),
                        gamma(KernelIndices(kt), kt[4])}

valueOf(asst, v) == IF v \in DOMAIN asst THEN asst[v] ELSE 0
inAssignment(kt, asst) == \A v \in KernelVariables(kt) : valueOf(asst, v) = 1

(* Assignment.subset, permute and overWrite                                *)
permuteAssignment(asst, pset) ==
    LET moved == {<<permuteVariable(v, pset), asst[v]>> : v \in DOMAIN asst}
    IN  [w \in {m[1] : m \in moved} |-> (CHOOSE m \in moved : m[1] = w)[2]]
subset(asst, Filter(_)) == [v \in {w \in DOMAIN asst : Filter(w)} |-> asst[v]]
overWrite(asst, other) == other @@ asst

shiftLevel(v, l) == <<cat(v), rowIndex(v), column(v), l>>

\* (mutant) what to has is never replaced
MovesIfFree(v, up, taken, kernel, mode) ==
    up \notin taken /\ (v \in kernel \/ mode = 0)
(* A literal of from whose variable at to is up: it is moved when to       *)
(* leaves the variable free, or when only from has it in a kernel term.    *)
MovesUp(v, up, taken, kernel, mode) ==
    IF up \in taken THEN v \in kernel /\ up \notin kernel ELSE v \in kernel \/ mode = 0

(* Assignment.mergeLevels: from is moved to to, and the levels behind it   *)
(* close the gap.  The literals of the variables of kernel terms prevail;  *)
(* mode says which of the others are kept.                                 *)
mergeLevels(asst, from, to, kernel, mode) ==
    LET At(l) == {v \in DOMAIN asst : level(v) = l}
        Up(v) == shiftLevel(v, to)
        checked == {Up(v) : v \in {w \in At(from) \union At(to) :
                                     (mode = 2 /\ w \in kernel) \/ mode = 3}}
        moved == {v \in At(from) : MovesUp(v, Up(v), At(to), kernel, mode)}
        conflict == {v \in At(from) :
                       /\ Up(v) \in At(to) /\ Up(v) \notin kernel
                       /\ v \in kernel \/ asst[Up(v)] # asst[v]}
        stay == {v \in At(to) : v \in kernel \/ (mode = 0 /\ v \notin {Up(w) : w \in conflict})}
        others == {v \in DOMAIN asst : level(v) \notin {from, to}
                                         /\ (v \in kernel \/ Up(v) \notin checked)}
        Close(v) == shiftLevel(v, IF level(v) < from THEN level(v) ELSE level(v) - 1)
        pairs == {<<Up(v), asst[v]>> : v \in moved} \union {<<v, asst[v]>> : v \in stay}
                   \union {<<Close(v), asst[v]>> : v \in others}
    IN  [w \in {p[1] : p \in pairs} |-> (CHOOSE p \in pairs : p[1] = w)[2]]
=============================================================================
