----------------------------- MODULE Hamiltonian ----------------------------
(***************************************************************************)
(* The formulas for Hamiltonian paths (hamiltonian/hpath.py): a board's    *)
(* squares, numbered by row, with the moves of a knight or of a mesh; a    *)
(* variable for every square and step, but for the first and the last step,*)
(* which are at the source and the sink.  A formula is built from clusters:*)
(* some squares during some steps, with a function for "occupied at step   *)
(* s", one for "square v is visited", and one for "so far a path".         *)
(*                                                                         *)
(* The order in which clusters are made and joined does not depend on      *)
(* their functions: it is the plan of a job, a sequence of cluster         *)
(* operations, and the script executes one after the other.                *)
(***************************************************************************)
EXTENDS ScriptRun

SquareCount(j) == j.rows * j.columns
vertexCount == SquareCount(job)
Row(v) == (v - 1) \div job.columns
Column(v) == (v - 1) % job.columns
Distance(a, b) == IF a < b THEN b - a ELSE a - b

(* The squares before v: addEdges of MeshGraph, and of KnightGraph.        *)
MeshEdges(v) ==
    {w \in 1 .. vertexCount :
        Distance(Row(v), Row(w)) + Distance(Column(v), Column(w)) = 1}
KnightEdges(v) ==
    {w \in 1 .. vertexCount :
        <<Distance(Row(v), Row(w)), Distance(Column(v), Column(w))>> \in {<<1, 2>>, <<2, 1>>}}
inEdges(v) == IF job.mesh THEN MeshEdges(v) ELSE KnightEdges(v)

(* The board, split in halves down to its squares: <<v>> or <<tree, tree>>.*)
RECURSIVE split(_, _, _, _, _)
split(columns, rmin, rmax, cmin, cmax) ==
    LET rmid == (rmin + rmax) \div 2
        cmid == (cmin + cmax) \div 2
    IN  IF rmax - rmin >= cmax - cmin
        THEN IF rmin = rmax THEN <<cmin + (rmin - 1) * columns>>
             ELSE <<split(columns, rmin, rmid, cmin, cmax), split(columns, rmid + 1, rmax, cmin, cmax)>>
        ELSE <<split(columns, rmin, rmax, cmin, cmid), split(columns, rmin, rmax, cmid + 1, cmax)>>

InOrder(S) == SelectSeq(Upto(Max({0} \union S)), LAMBDA v : v \in S)

RECURSIVE Leaves(_)
Leaves(tree) == IF Len(tree) = 1 THEN {tree[1]} ELSE Leaves(tree[1]) \union Leaves(tree[2])

-----------------------------------------------------------------------------
(* The plan.  A plan in the making has the operations, the cluster they    *)
(* lead to, and the next free id.                                          *)
Cluster(id, first, last, squares) == [id |-> id, first |-> first, last |-> last, squares |-> squares]

UnitPlan(id, v, step) ==
    LET c == Cluster(id, step, step, {v})
    IN  [ops |-> <<[op |-> "unit", new |-> c]>>, top |-> c, next |-> id + 1]

(* join: the new id comes after those of both clusters.                    *)
JoinPlans(p, q) ==
    LET new == Cluster(q.next, Min({p.top.first, q.top.first}), Max({p.top.last, q.top.last}),
                       p.top.squares \union q.top.squares)
    IN  [ops |-> p.ops \o q.ops \o <<[op |-> "join", new |-> new, self |-> p.top, other |-> q.top]>>,
         top |-> new, next |-> q.next + 1]

(* addStep: the new id comes first, then one for each square.              *)
LayerPlan(p, before) ==
    LET step == IF before THEN p.top.first - 1 ELSE p.top.last + 1
        squares == InOrder(p.top.squares)
        new == [p.top EXCEPT !.id = p.next, !.first = Min({@, step}), !.last = Max({@, step})]
        unit == [n \in DOMAIN squares |-> Cluster(p.next + n, step, step, {squares[n]})]
    IN  [ops |-> p.ops \o [n \in DOMAIN squares |-> [op |-> "unit", new |-> unit[n]]]
                   \o <<[op |-> "layer", new |-> new, self |-> p.top, step |-> step, units |-> unit]>>,
         top |-> new, next |-> p.next + Len(squares) + 1]

RECURSIVE generateFormulaTR(_, _, _, _)
generateFormulaTR(tree, stepMin, stepMax, id) ==
    LET vcount == Cardinality(Leaves(tree))
        scount == stepMax - stepMin + 1
        mid == (stepMin + stepMax) \div 2
        p == IF vcount >= scount THEN generateFormulaTR(tree[1], stepMin, stepMax, id)
             ELSE generateFormulaTR(tree, stepMin, mid, id)
    IN  IF vcount = 1 /\ scount = 1 THEN UnitPlan(id, tree[1], stepMin)
        ELSE JoinPlans(p, IF vcount >= scount THEN generateFormulaTR(tree[2], stepMin, stepMax, p.next)
                          ELSE generateFormulaTR(tree, mid + 1, stepMax, p.next))

(* From one step on, step after step.                                      *)
Stepwise(tree, first, steps, id, layered) ==
    LET add(p, s) == IF layered THEN LayerPlan(p, s < p.top.first)
                     ELSE JoinPlans(p, generateFormulaTR(tree, s, s, p.next))
    IN  FoldLeft(add, generateFormulaTR(tree, first, first, id), steps)
generateFormulaTF(tree, n) == Stepwise(tree, 1, [i \in 1 .. n - 1 |-> i + 1], 1, FALSE)
generateUpper(tree, n, layered) == Stepwise(tree, 1, [i \in 1 .. n \div 2 - 1 |-> i + 1], 1, layered)
generateLower(tree, n, layered) == Stepwise(tree, n, [i \in 1 .. n - n \div 2 - 1 |-> n - i], 1001, layered)
generateFormulaTB(tree, n, layered) ==
    JoinPlans(generateUpper(tree, n, layered), generateLower(tree, n, layered))

(* Split mode: three scripts, the first two of which store the clusters    *)
(* that the third loads and joins.                                         *)
SplitPlan(tree, n, layered) ==
    LET up == generateUpper(tree, n, layered)
        low == generateLower(tree, n, layered)
        new == Cluster(1, 1, n, Leaves(tree))
    IN  [ops |-> up.ops \o <<[op |-> "store", new |-> up.top]>>
                   \o low.ops \o <<[op |-> "store", new |-> low.top]>>
                   \o <<[op |-> "load", new |-> up.top], [op |-> "load", new |-> low.top],
                        [op |-> "join", new |-> new, self |-> low.top, other |-> up.top]>>,
         top |-> new, next |-> 2]

PlanOf(j) ==
    LET n == SquareCount(j)
        tree == split(j.columns, 1, j.rows, 1, j.columns)
    IN  CASE j.mode = "R" -> generateFormulaTR(tree, 1, n, 1)
          [] j.mode = "F" -> generateFormulaTF(tree, n)
          [] j.mode = "S" -> SplitPlan(tree, n, j.layered)
          [] j.mode = "B" -> generateFormulaTB(tree, n, j.layered)
Plans == FoldSet(LAMBDA j, f : (j :> PlanOf(j)) @@ f, <<>>, {k \in Jobs : k.prog = "hpath"})
plan == Plans[job]

-----------------------------------------------------------------------------
(* The names of a cluster's functions.  Those over squares are not kept    *)
(* when they span all squares, nor those over steps when they span all.    *)
isUnit(cl) == cl.first = cl.last /\ Cardinality(cl.squares) = 1
stepSpanning(cl) == cl.first = 1 /\ cl.last = vertexCount
vertexSpanning(cl) == Cardinality(cl.squares) = vertexCount
okFormula(cl) == IF stepSpanning(cl) /\ vertexSpanning(cl) THEN <<"OK">> ELSE <<"OK", cl.id>>
VertexOccupied(cl, step) == <<"Vertex_occupied", cl.id, step>>
StepOccupied(cl, v) == <<"Step_occupied", cl.id, v>>
Steps(cl) == [n \in 1 .. cl.last - cl.first + 1 |-> cl.first + n - 1]
SquaresOf(cl) == InOrder(cl.squares)
vertexFormulaDict(cl) ==
    IF vertexSpanning(cl) /\ ~isUnit(cl) THEN <<>>
    ELSE [n \in DOMAIN Steps(cl) |-> VertexOccupied(cl, Steps(cl)[n])]
stepFormulaDict(cl) ==
    IF stepSpanning(cl) /\ ~isUnit(cl) THEN <<>>
    ELSE [n \in DOMAIN SquaresOf(cl) |-> StepOccupied(cl, SquaresOf(cl)[n])]
Functions(cl) == <<okFormula(cl)>> \o vertexFormulaDict(cl) \o stepFormulaDict(cl)

(* A vector made of names to delete them.                                  *)
Drop(c, names) == decRefs(Hold(c, names), <<names>>)
flush(c, cl) == Drop(c, Functions(cl))
Copy(c, to, from) == FoldLeft(LAMBDA d, n : andN(d, to[n], <<from[n]>>), c, Upto(Len(to)))

Variable(root, v, t) == <<root, v, t>>
others == SelectSeq(Upto(vertexCount), LAMBDA v : v \notin {job.source, job.sink})
inner == [n \in 1 .. vertexCount - 2 |-> n + 1]
AllVariables(root) ==
    FlattenSeq([n \in DOMAIN inner |-> [m \in DOMAIN others |-> Variable(root, others[m], inner[n])]])
variableDict(v, t) ==
    IF t = vertexCount THEN IF v = job.sink THEN One ELSE Zero
    ELSE IF t = 1 THEN IF v = job.source THEN One ELSE Zero
    ELSE IF v \in {job.source, job.sink} THEN Zero
    ELSE Variable("V", v, t)

(* In step-major order; ZDDs are made from variables of their own.         *)
bprefix == IF job.zdd THEN "B" ELSE "V"
declareSteps(c, values) ==
    LET d == declare(c, values, AllVariables(bprefix))
    IN  IF job.zdd THEN zcV(d, AllVariables("V"), AllVariables("B")) ELSE d

unitCluster(c, cl) ==
    LET step == cl.first
        v == CHOOSE w \in cl.squares : TRUE
        local == variableDict(v, step)
        vformula == VertexOccupied(cl, step)
        sformula == StepOccupied(cl, v)
        before == InOrder(inEdges(v))
        c1 == IF local \in {One, Zero}
              THEN assignConstant(assignConstant(c, vformula, IF local = One THEN 1 ELSE 0),
                                  sformula, IF local = One THEN 1 ELSE 0)
              ELSE andN(andN(c, vformula, <<local>>), sformula, <<local>>)
    IN  IF step = 1 THEN assignConstant(c1, okFormula(cl), 1)
        ELSE orN(c1, okFormula(cl),
                 <<Neg(local)>> \o [n \in DOMAIN before |-> variableDict(before[n], step - 1)])

(* The functions new are the or of those of two clusters, which must not   *)
(* both hold; when nothing else can make them true, they must hold.        *)
joinFormulas(c, self, other, ncluster, new, left, right, final) ==
    LET k == Len(new)
        c1 == FoldLeft(LAMBDA d, n : orN(d, new[n], <<left[n], right[n]>>), c, Upto(k))
        tvec == TmpNames(c1, k)
        nvec == TmpNames([c1 EXCEPT !.next = @ + 1], k)
        c2 == notV(andV(tmpVec(tmpVec(c1, k), k), tvec, <<left, right>>), nvec, tvec)
        c3 == andN(c2, okFormula(ncluster), <<okFormula(self), okFormula(other)>> \o nvec
                                               \o IF final THEN new ELSE <<>>)
        c4 == decRefs(c3, <<tvec, nvec>>)
    IN  IF final THEN Drop(c4, new) ELSE c4

temporalJoin(c, self, other, ncluster) ==
    LET over(cl) == [n \in DOMAIN SquaresOf(cl) |-> StepOccupied(cl, SquaresOf(cl)[n])]
        at(cl, of) == [n \in DOMAIN Steps(of) |-> VertexOccupied(cl, Steps(of)[n])]
        c1 == IF vertexSpanning(self) THEN c
              ELSE Copy(Copy(c, at(ncluster, self), at(self, self)), at(ncluster, other), at(other, other))
    IN  Report(joinFormulas(c1, self, other, ncluster, over(ncluster), over(self), over(other),
                            stepSpanning(ncluster)),
               Functions(ncluster))

spatialJoin(c, self, other, ncluster) ==
    LET at(cl) == [n \in DOMAIN Steps(cl) |-> VertexOccupied(cl, Steps(cl)[n])]
        over(cl, of) == [n \in DOMAIN SquaresOf(of) |-> StepOccupied(cl, SquaresOf(of)[n])]
        c1 == IF stepSpanning(self) THEN c
              ELSE Copy(Copy(c, over(ncluster, self), over(self, self)), over(ncluster, other), over(other, other))
        c2 == joinFormulas(c1, self, other, ncluster, at(ncluster), at(self), at(other), vertexSpanning(ncluster))
    IN  IF vertexSpanning(ncluster) THEN Report(c2, Functions(ncluster)) ELSE c2

join(c, self, other, ncluster) ==
    CASE self.first = other.first /\ self.last = other.last /\ self.squares \intersect other.squares = {} ->
           spatialJoin(c, self, other, ncluster)
      [] self.squares = other.squares /\ (self.first = other.last + 1 \/ other.first = self.last + 1) ->
           temporalJoin(c, self, other, ncluster)
      [] OTHER -> Fail(c, <<"invalid join", ncluster.id>>)

(* A step for all squares.  Its "vertex occupied" is not the cluster's to  *)
(* delete: self.vertexSpanning is a method and so never false.             *)
addStep(c, self, ncluster, step, units) ==
    LET vec == [n \in DOMAIN units |-> VertexOccupied(units[n], step)]
        vlist == SquaresOf(self)
        new == [n \in DOMAIN vlist |-> StepOccupied(ncluster, vlist[n])]
        vformula == VertexOccupied(ncluster, step)
        amo == Tmp(c, 1)
        tvec == TmpNames([c EXCEPT !.next = @ + 3], Len(vlist))
        nvec == TmpNames([c EXCEPT !.next = @ + 4], Len(vlist))
        left == [n \in DOMAIN vlist |-> StepOccupied(self, vlist[n])]
        right == [n \in DOMAIN vlist |-> StepOccupied(units[n], vlist[n])]
        c1 == atMost1(tmpNodes(orN(c, vformula, vec), 1), amo, vec, [n \in DOMAIN vec |-> Neg(vec[n])])
        c2 == FoldLeft(LAMBDA d, n : orN(d, new[n], <<left[n], right[n]>>), c1, Upto(Len(vlist)))
        c3 == notV(andV(tmpVec(tmpVec(c2, Len(vlist)), Len(vlist)), tvec, <<left, right>>), nvec, tvec)
        c4 == andN(c3, okFormula(ncluster), <<okFormula(self), vformula, amo>>
                          \o (IF stepSpanning(ncluster) THEN new ELSE <<>>) \o nvec)
        c5 == decRefs(c4, <<<<amo>>, tvec, nvec>>)
    IN  Report(FoldLeft(flush, c5, units), stepFormulaDict(ncluster))

(* Storing ends a script, with its console; its variables are declared     *)
(* again in the next one.                                                  *)
FileOf(name) == <<"file">> \o name
store(c, cl) ==
    LET c1 == FoldLeft(LAMBDA d, name : Store(d, name, FileOf(name)), c, Functions(cl))
        c2 == flush(Report(c1, <<okFormula(cl)>>), cl)
    IN  declareSteps([InitCircuit EXCEPT !.next = c2.next, !.live = c2.live,
                                          !.stored = c2.stored, !.errors = c2.errors], in)
load(c, cl) == FoldLeft(LAMBDA d, name : Load(d, name, FileOf(name)), c, Functions(cl))

-----------------------------------------------------------------------------
(* The values of the variables: all, or for the larger boards those that   *)
(* have one square for every step, and a given one for the second (bound). *)
HamiltonInputs ==
    LET names == ToSet(AllVariables(bprefix))
    IN  IF Cardinality(names) <= 10 THEN Inputs(names)
        ELSE {[x \in names |-> at[x[3]] = x[2]] :
                at \in {f \in [ToSet(inner) -> ToSet(others)] : f[2] \in job.second}}
HamiltonDeclare ==
    /\ job.prog = "hpath" /\ At("declare")
    /\ in' \in HamiltonInputs
    /\ ckt' = declareSteps(ckt, in')
    /\ phase' = <<"clusters", 0>>
    /\ UNCHANGED job

(* The operations in the order of the plan; a cluster is flushed as soon   *)
(* as another has taken its place.                                         *)
Executed(c, e) ==
    CASE e.op = "unit"  -> unitCluster(c, e.new)
      [] e.op = "join"  -> flush(flush(join(c, e.self, e.other, e.new), e.self), e.other)
      [] e.op = "layer" -> flush(addStep(c, e.self, e.new, e.step, e.units), e.self)
      [] e.op = "store" -> store(c, e.new)
      [] e.op = "load"  -> load(c, e.new)
HamiltonCluster ==
    LET n == phase[2] + 1
        last == n = Len(plan.ops)
    IN  /\ job.prog = "hpath" /\ phase[1] = "clusters"
        /\ PartAt("clusters", phase[2], IF last THEN "wrapup" ELSE "clusters",
                  IF last THEN 0 ELSE n, Executed(ckt, plan.ops[n]))

wrapup == Part("wrapup", "flush", Report(ckt, <<<<"OK">>>>))
HamiltonFinish == Part("flush", "done", flush(ckt, plan.top))

HamiltonNext == HamiltonDeclare \/ HamiltonCluster \/ wrapup \/ HamiltonFinish

-----------------------------------------------------------------------------
(* Where an assignment puts the path at a step.                            *)
Occupied(t) ==
    {v \in 1 .. vertexCount :
        \/ t = 1 /\ v = job.source
        \/ t = vertexCount /\ v = job.sink
        \/ v \in ToSet(others) /\ t \in ToSet(inner) /\ in[Variable(bprefix, v, t)]}
OnceEach ==
    /\ \A t \in 1 .. vertexCount : Cardinality(Occupied(t)) = 1
    /\ UNION {Occupied(t) : t \in 1 .. vertexCount} = 1 .. vertexCount
Moves ==
    \A t \in 2 .. vertexCount : \A v \in Occupied(t) : Occupied(t - 1) \subseteq inEdges(v)

(* OK is true for the paths from source to sink that visit every square    *)
(* once, and for no other assignment, whichever way run put it together.   *)
EncodesPaths ==
    At("flush") /\ job.prog = "hpath" => Get(<<"OK">>) = (OnceEach /\ Moves)

(* Layers that addStep puts on leave out that a step is a move: then OK is *)
(* true for the paths, and for some orders of the squares that are none.   *)
(* At the end the functions of the clusters are deleted, but for those of  *)
(* the layers.                                                             *)
HamiltonRight ==
    /\ IF At("flush") /\ job.prog = "hpath" /\ job.layered
       THEN /\ Get(<<"OK">>) => OnceEach
            /\ OnceEach /\ Moves => Get(<<"OK">>)
       ELSE EncodesPaths
    /\ Done /\ job.prog = "hpath" =>
         \A x \in Left : \/ x[1] \in {"V", "B"}
                         \/ x[1] = "Vertex_occupied" /\ job.layered
=============================================================================
