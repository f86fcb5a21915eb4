----------------------------- MODULE BrentProgram ---------------------------
(***************************************************************************)
(* The scripts that check or solve the Brent equations: generateProgram    *)
(* and what it calls in src/matrix/brent.py.  A job is                     *)
(*   scheme    the scheme that was read, perhaps in part,                  *)
(*   kernels   the kernel terms, of the scheme or of a kernel file,        *)
(*   prob      the share of each category's variables to fix, in percent,  *)
(*   levels    the levels to combine at, breadth first; <<>>: depth first, *)
(* and the flags of the command line.  The other variables are declared;   *)
(* the streamline formula, the equations and their conjunction follow.     *)
(***************************************************************************)
EXTENDS ScriptRun, BrentSchemes

dim == job.scheme.dim
aux == job.scheme.aux
isFixed == \A c \in Categories : job.prob[c] = 100
levelSeq == Upto(aux)
ijkList == indexExpand(dim)
findLevels(i, j, k) == {l \in unitRange(aux) : <<i, j, k, l>> \in job.kernels}
kset(idx) == IF job.fixKV /\ isKernel(idx) THEN findLevels(idx[1], idx[3], idx[6]) ELSE {}

(* The names of the functions: a general term at a level, an equation or   *)
(* the conjunction of those whose indices begin with idx, a kernel term.   *)
BrentProduct(idx, l) == <<"bp">> \o idx \o <<l>>
BrentTerm(idx) == <<"brent">> \o idx
symbol(kt) == <<"kernel">> \o kt
Kernel(ijk, l) == symbol(Append(ijk, l))
Not(names) == [n \in DOMAIN names |-> Neg(names[n])]
Check(c, name) == IF isFixed THEN checkConstant(c, name, 1) ELSE c

-----------------------------------------------------------------------------
(* Fixed and declared variables.  A sample of a category's variables, but  *)
(* not of those of kernel terms when these are fixed apart.  No program    *)
(* sets varKV, which would leave those out of the sample instead.          *)
Samples(c, vlist) ==
    LET of == {v \in DOMAIN job.scheme.asst : cat(v) = c} \ vlist
    IN  kSubset((job.prob[c] * Cardinality(of)) \div 100, of)

FixedSets ==
    LET vlist == IF job.fixKV THEN UNION {KernelVariables(kt) : kt \in job.kernels} ELSE {}
    IN  IF completeAssignment(job.scheme)
        THEN {vlist \union a \union b \union g : a \in Samples("alpha", vlist),
                b \in Samples("beta", vlist), g \in Samples("gamma", vlist)}
        ELSE {DOMAIN job.scheme.asst}

(* Where the symmetry of the scheme takes a variable.                      *)
Mirror(v, map) == permuteVariable(v, [NoPermuters(dim, aux) EXCEPT !.ijk = Swap, !.level = map])

(* Those of a level that follow from variables before, or from fixed ones. *)
Replicated(l, fixed, map) ==
    IF map = <<>> THEN {}
    ELSE {v \in VariablesAt(dim, l) \ fixed :
            Mirror(v, map) \in fixed \/ Less(Mirror(v, map), v)}

(* The comments of the script on the variables of each level, which the    *)
(* log repeats: which are declared, and which follow from which.           *)
Note(kind, of) == [kind |-> kind, of |-> of]
Comments(fixed, map) ==
    LET new(l) == VariablesAt(dim, l) \ (fixed \union Replicated(l, fixed, map))
        old(l) == SortSeq(listOf(Replicated(l, fixed, map)), Less)
    IN  FlattenSeq([l \in unitRange(aux) |->
            (IF new(l) = {} THEN <<>> ELSE <<Note("variables", l)>>)
            \o (IF old(l) = <<>> THEN <<>> ELSE <<Note("variables by symmetry", l)>>)
            \o [n \in DOMAIN old(l) |-> Note("dependency", <<old(l)[n], Mirror(old(l)[n], map)>>)]])

declareVariables(c, values, fixed, map) ==
    LET new(l) == VariablesAt(dim, l) \ (fixed \union Replicated(l, fixed, map))
        one(d, l) == FoldLeft(LAMBDA e, v : andN(e, v, <<Mirror(v, map)>>),
                              declare(d, values, SortSeq(listOf(new(l)), Less)),
                              SortSeq(listOf(Replicated(l, fixed, map)), Less))
    IN  FoldLeft(one, c, levelSeq)

(* generateMixedConstraints                                                *)
BrentDeclare ==
    LET map == IF job.symmetry THEN findSymmetry(job.scheme) ELSE <<>>
    IN  /\ job.prog = "brent" /\ At("declare")
        /\ \E fixed \in FixedSets :
              /\ in' \in Inputs(UNION {VariablesAt(dim, l) \ (fixed \union Replicated(l, fixed, map)) :
                                         l \in unitRange(aux)})
              /\ ckt' = declareVariables(
                           FoldSet(LAMBDA v, c : assignConstant(c, v, job.scheme.asst[v]), ckt, fixed),
                           in', fixed, map) @@ [comments |-> Comments(fixed, map)]
        /\ phase' = <<"streamline", 0>>
        /\ UNCHANGED job

-----------------------------------------------------------------------------
(* generateStreamline: for each kernel term that is alone at its level,    *)
(* one of the factors or the results has only the term's variable.         *)
generateStreamline(c) ==
    LET sk == listOf(groupings(job.kernels, 1, 1))
        ofTerm(category, kt) == CHOOSE v \in KernelVariables(kt) : cat(v) = category
        name(category, j) == <<"single", category, j - 1>>
        pv == nameVec(<<"exclude">>, Len(sk))
        held == [n \in 1 .. 3 |-> [j \in DOMAIN sk |-> name(<<"alpha", "beta", "gamma">>[n], j)]]
        single(d, j, category) ==
            LET all == listOf({v \in VariablesAt(dim, level(sk[j])) : cat(v) = category})
            IN  andN(d, name(category, j),
                     [n \in DOMAIN all |-> IF all[n] = ofTerm(category, sk[j]) THEN all[n] ELSE Neg(all[n])])
        term(d, j) == orN(single(single(single(d, j, "gamma"), j, "alpha"), j, "beta"), pv[j],
                          [n \in 1 .. 3 |-> held[n][j]])
        c1 == HoldAll(node(c, <<"streamline">>), Append(held, pv))
    IN  decRefs(andN(FoldLeft(term, c1, Upto(Len(sk))), <<"streamline">>, pv), Append(held, pv))

(* Kernel terms as functions, level by level, and conditions on them.      *)
KernelVec == FlattenSeq([l \in unitRange(aux) |-> [n \in DOMAIN ijkList |-> Kernel(ijkList[n], l)]])
generateKernels(c) ==
    LET define(d, name) ==
            LET v == [n \in 1 .. 6 |-> KernelIndices(Tail(name))[n]]
            IN  andN(d, name, <<alpha(v, name[5]), beta(v, name[5]), gamma(v, name[5])>>)
    IN  Hold(FoldLeft(define, c, KernelVec), KernelVec)

generateUniqueUsage(c, dest) ==
    LET uvec == [n \in DOMAIN ijkList |-> <<"unique">> \o ijkList[n]]
        once(d, n) == LET klist == [l \in unitRange(aux) |-> Kernel(ijkList[n], l)]
                      IN  exactly1(d, uvec[n], klist, Not(klist))
    IN  decRefs(andN(FoldLeft(once, Hold(c, uvec), Upto(Len(uvec))), dest, uvec), <<uvec>>)

dcount == dim[1] * dim[2] * dim[3] - aux
generateMaxDouble(c, dest) ==
    LET uvec == [l \in unitRange(aux) |-> <<IF l <= dcount THEN "double" ELSE "single", l>>]
        term(d, l) == LET klist == [n \in DOMAIN ijkList |-> Kernel(ijkList[n], l)]
                      IN  IF l <= dcount THEN exactlyK(d, uvec[l], klist, Not(klist), 2)
                          ELSE exactly1(d, uvec[l], klist, Not(klist))
    IN  decRefs(andN(FoldLeft(term, Hold(c, uvec), levelSeq), dest, uvec), <<uvec>>)

(* The nodes of a term are not the circuit's: their vectors delete them.   *)
generateSingletonExclusion(c, dest) ==
    LET srange == SelectSeq(levelSeq, LAMBDA l : l > dcount)
        xvec == [n \in DOMAIN srange |-> <<"exclude", srange[n]>>]
        name(what, l, n) == <<what, l>> \o ijkList[n]
        others(l, n, c1) == listOf({v \in VariablesAt(dim, l) : cat(v) = c1}
                                       \ KernelVariables(Append(ijkList[n], l)))
        term(l, d, n) ==
            LET a == orN(d, name("xalpha", l, n), others(l, n, "alpha"))
                b == orN(a, name("xbeta", l, n), others(l, n, "beta"))
                g == orN(b, name("xgamma", l, n), others(l, n, "gamma"))
            IN  orN(g, name("xl", l, n), Not(<<Kernel(ijkList[n], l), name("xalpha", l, n),
                                               name("xbeta", l, n), name("xgamma", l, n)>>))
        atLevel(d, m) ==
            LET l == srange[m]
                vecs == [w \in 1 .. 4 |-> [n \in DOMAIN ijkList |->
                            name(<<"xl", "xalpha", "xbeta", "xgamma">>[w], l, n)]]
                e == FoldLeft(LAMBDA f, n : term(l, f, n), HoldAll(d, vecs), Upto(Len(ijkList)))
            IN  decRefs(andN(e, xvec[m], vecs[1]), vecs)
    IN  decRefs(andN(FoldLeft(atLevel, Hold(c, xvec), Upto(Len(srange))), dest, xvec), <<xvec>>)

symbolicStreamline(c) ==
    LET snodes == <<<<"unique-usage">>, <<"max-double">>, <<"singleton-exclusion">>>>
        objs == [n \in DOMAIN snodes |-> <<snodes[n]>>]
        c1 == generateKernels(HoldAll(node(c, <<"streamline">>), objs))
        c2 == generateUniqueUsage(c1, snodes[1])
        c3 == generateMaxDouble(c2, snodes[2])
        c4 == andN(generateSingletonExclusion(c3, snodes[3]), <<"streamline">>, snodes)
    IN  decRefs(c4, Append(objs, KernelVec))

BrentStreamline ==
    /\ job.prog = "brent"
    /\ Part("streamline", "equations",
            IF job.exclude THEN generateStreamline(ckt)
            ELSE IF job.symbolic THEN symbolicStreamline(ckt)
            ELSE ckt)

-----------------------------------------------------------------------------
(* generateBrent: an equation holds when the number of levels that have    *)
(* the term is odd for a kernel term and even for others.  The term's      *)
(* levels may be fixed, and others may be limited to none or two.          *)
generateBrent(c, idx) ==
    LET bn == BrentTerm(idx)
        pv == [l \in unitRange(aux) |-> BrentProduct(idx, l)]
        vecs == <<[l \in unitRange(aux) |-> alpha(idx, l)], [l \in unitRange(aux) |-> beta(idx, l)],
                  [l \in unitRange(aux) |-> gamma(idx, l)]>>
        fixLevels == kset(idx)
        c1 == andV(Hold(c, pv), pv, vecs)
        c2 == IF fixLevels # {}
              THEN andN(c1, bn, [l \in unitRange(aux) |-> IF l \in fixLevels THEN pv[l] ELSE Neg(pv[l])])
              ELSE IF isKernel(idx) THEN xorN(c1, bn, pv)
              ELSE IF job.bound THEN okList(c1, bn, pv, Not(pv), <<TRUE, FALSE, TRUE>>)
              ELSE xorN(c1, bn, Append(pv, One))
        c3 == decRefs(c2, <<pv>>)
    IN  Check(IF job.zdd THEN Command(c3, "zconvert", bn, <<bn>>) ELSE c3, bn)

(* generateBrentConstraints, one equation after the other.                 *)
BrentEquations ==
    LET all == indexExpand(fullRanges(dim))
        n == phase[2] + 1
        last == n = Len(all)
        c1 == generateBrent(ckt, all[n])
    IN  /\ job.prog = "brent" /\ phase[1] = "equations"
        /\ PartAt("equations", phase[2], IF last THEN "combine" ELSE "equations", IF last THEN 0 ELSE n,
                  IF last /\ ~isFixed THEN Report(c1, [m \in DOMAIN all |-> BrentTerm(all[m])]) ELSE c1)

-----------------------------------------------------------------------------
(* The conjunction of the equations, index by index from the last one.     *)
streamlineLevel == 2
conjunctLevels == 4 .. 6
HasStreamline == job.exclude \/ job.symbolic
StreamlineNode == <<"streamline">>
levelOf(prefix) == 6 - Len(prefix)

(* One conjunction; the streamline formula enters once, or in each that    *)
(* is made at its level.                                                   *)
Conjunction(c, prefix, terms, Combination(_, _, _), withStreamline) ==
    LET args == IF withStreamline THEN <<StreamlineNode>> \o terms ELSE terms
    IN  Check(decRefs(Combination(Hold(c, terms), BrentTerm(prefix), args), <<terms>>), BrentTerm(prefix))
Release(c, yes) == IF yes THEN decRefs(c, <<<<StreamlineNode>>>>) ELSE c

(* The order of the conjunctions: depth first, each after those it is made *)
(* from; breadth first, level after level.                                 *)
RECURSIVE dfOrder(_, _)
dfOrder(ranges, prefix) ==
    IF Len(prefix) = 6 THEN <<>>
    ELSE Append(FlattenSeq([x \in unitRange(ranges[Len(prefix) + 1]) |->
                              dfOrder(ranges, Append(prefix, x))]), prefix)
prefixesAt(ranges, lev) == indexExpand(SubSeq(ranges, 1, 6 - lev))
bfOrder(ranges, levels) == FlattenSeq([n \in DOMAIN levels |-> prefixesAt(ranges, levels[n])])
OrderOf(j) ==
    IF j.levels = <<>> THEN dfOrder(fullRanges(j.scheme.dim), <<>>)
    ELSE bfOrder(fullRanges(j.scheme.dim), j.levels)
Orders == FoldSet(LAMBDA j, f : (j :> OrderOf(j)) @@ f, <<>>, {k \in Jobs : k.prog = "brent"})
order == Orders[job]

dfGenerator(c, prefix) ==
    LET terms == [x \in unitRange(fullRanges(dim)[Len(prefix) + 1]) |-> BrentTerm(Append(prefix, x))]
        c1 == Conjunction(c, prefix, terms, andN, HasStreamline /\ levelOf(prefix) = streamlineLevel)
        top == Release(c1, HasStreamline)
    IN  IF levelOf(prefix) # 6 THEN c1 ELSE IF isFixed THEN top ELSE Report(top, <<BrentTerm(prefix)>>)

(* The level at which the streamline formula enters, 0 for none.           *)
slevel ==
    IF ~HasStreamline THEN 0
    ELSE Max({0} \union {l \in Range(job.levels) : l <= streamlineLevel})

bfGenerator(c, prefix) ==
    LET lev == levelOf(prefix)
        lastLevel == Max({0} \union {l \in Range(job.levels) : l < lev})
        gcounts == indexExpand(SubSeq(fullRanges(dim), 7 - lev, 6 - lastLevel))
        terms == [m \in DOMAIN gcounts |-> BrentTerm(prefix \o gcounts[m])]
        c1 == IF lev \in conjunctLevels THEN Conjunction(c, prefix, terms, conjunctN, lev = slevel)
              ELSE Conjunction(c, prefix, terms, andN, lev = slevel)
        all == prefixesAt(fullRanges(dim), lev)
        c2 == Release(c1, lev = slevel)
    IN  IF prefix # all[Len(all)] THEN c1
        ELSE IF isFixed THEN c2
        ELSE Report(c2, [m \in DOMAIN all |-> BrentTerm(all[m])])

GenerateCombination(generator(_, _)) ==
    LET n == phase[2] + 1
        last == n = Len(order)
    IN  PartAt("combine", phase[2], IF last THEN "finish" ELSE "combine", IF last THEN 0 ELSE n,
               generator(ckt, order[n]))
BrentDepthFirst ==
    job.prog = "brent" /\ phase[1] = "combine" /\ job.levels = <<>> /\ GenerateCombination(dfGenerator)
BrentBreadthFirst ==
    job.prog = "brent" /\ phase[1] = "combine" /\ job.levels # <<>> /\ GenerateCombination(bfGenerator)

BrentFinish ==
    /\ job.prog = "brent"
    /\ Part("finish", "done", IF isFixed THEN ckt ELSE Report(ckt, <<BrentTerm(<<>>)>>))

BrentNext == BrentDeclare \/ BrentStreamline \/ BrentEquations \/ BrentDepthFirst
               \/ BrentBreadthFirst \/ BrentFinish

-----------------------------------------------------------------------------
(* Reading the log (mm_parse.py).  When the console satisfies the last     *)
(* conjunction, a line has a digit for each declared variable; lines of up *)
(* to eight digits are not taken for solutions.  A line with a variable    *)
(* that has no value of its own is refused, and left out here.             *)
getDependencies ==
    LET notes == SelectSeq(ckt.comments, LAMBDA note : note.kind = "dependency")
    IN  [n \in DOMAIN notes |-> notes[n].of]
SatisfyingLines == IF Get(BrentTerm(<<>>)) THEN {[v \in DOMAIN in |-> IF in[v] THEN 1 ELSE 0]} ELSE {}
getBitSolutions == {bits \in SatisfyingLines : Cardinality(DOMAIN bits) > 8}
parseFromSolver(s, bits) == MScheme(dim, aux, overWrite(s.asst, bits))
parseDependencies(s, list) ==
    MScheme(dim, aux, FoldLeft(LAMBDA asst, d : overWrite(asst, d[1] :> asst[d[2]]), s.asst, list))
generateSolutions == {parseDependencies(parseFromSolver(job.scheme, bits), getDependencies) :
                        bits \in getBitSolutions}

(* The scheme that the values of the variables make, and the conditions    *)
(* that the script puts on it.                                             *)
Found == MScheme(dim, aux, [v \in Variables(dim, aux) |-> BitOf(v)])
LevelsOf(s, idx) == {l \in unitRange(aux) :
    \A v \in {alpha(idx, l), beta(idx, l), gamma(idx, l)} : s.asst[v] = 1}
Equations(s) ==
    \A idx \in Range(indexExpand(fullRanges(dim))) :
        IF kset(idx) # {} THEN LevelsOf(s, idx) = kset(idx)
        ELSE IF job.bound /\ ~isKernel(idx) THEN Cardinality(LevelsOf(s, idx)) \in {0, 2}
        ELSE brentCheck(s, idx)
Alone(s, kt) == \E c \in Categories :
    {v \in VariablesAt(dim, level(kt)) : cat(v) = c /\ s.asst[v] = 1} = {v \in KernelVariables(kt) : cat(v) = c}
Form(s) ==
    LET K == findKernels(s)
        count(l) == Cardinality(AtLevel(K, l))
    IN  /\ job.exclude => \A kt \in groupings(job.kernels, 1, 1) : Alone(s, kt)
        /\ job.symbolic => /\ \A idx \in Range(ijkList) : Cardinality({kt \in K : SubSeq(kt, 1, 3) = idx}) = 1
                           /\ \A l \in unitRange(aux) : count(l) = IF l <= dcount THEN 2 ELSE 1
                           /\ obeysSingletonExclusion(s)

(* What is left at the end of a script stands for the schemes it asks for: *)
(* those that obey the equations in the form they were to have, and keep   *)
(* the symmetry of the scheme they started from; what is read back from    *)
(* the log is the scheme that was found (generateSolutions, mm_parse.py:   *)
(* 381); and a script that checks a scheme reports no difference for one   *)
(* that does.                                                              *)
BrentRight ==
    Done /\ job.prog = "brent" /\ (HasStreamline /\ job.levels # <<>> => slevel # 0) =>
        LET right == Equations(Found) /\ Form(Found)
        IN  /\ Get(BrentTerm(<<>>)) = right
            /\ isFixed => (ckt.differ = {}) = right
            /\ \A s \in generateSolutions : s = Found
            /\ LET map == findSymmetry(job.scheme)
               IN  job.symmetry /\ map # <<>> => Found = permute(Found,
                       [NoPermuters(dim, aux) EXCEPT !.ijk = Swap, !.level = map])
=============================================================================
