----------------------------- MODULE MCScripts ------------------------------
(***************************************************************************)
(* The programs that write scripts, with jobs that are small and between   *)
(* them take every branch of the programs.                                 *)
(***************************************************************************)
EXTENDS CircuitBenchmarks, Dictionary, Netlist, Hamiltonian, Queens, Chess, BrentProgram

(* Arithmetic and counters.                                                *)
CircuitJobs ==
    [prog : {"addAssociative"}, n : {2, 3}] \union [prog : {"multAssociative"}, n : {2}]
      \union [prog : {"Multiplier"}, n : {3}, zdd : {"none", "vars", "convert", "avars"},
              reverseA : BOOLEAN, reverseB : {FALSE}, interleave : {TRUE}, check : {TRUE}]
      \union [prog : {"Multiplier"}, n : {3}, zdd : {"none"},
              reverseA : {FALSE}, reverseB : {TRUE}, interleave : {FALSE}, check : {FALSE}]
      \union [prog : {"exactly1", "atMost1", "norN"}, n : 1 .. 4]
      \union [prog : {"countGeneratorVector", "atMostK"}, n : 1 .. 4, k : 0 .. 4]
      \union [prog : {"exactlyK"}, n : 1 .. 4, k : 1 .. 4]
      \union [prog : {"okList"}, n : {3}, ok : [1 .. 3 -> BOOLEAN]]
      \union [prog : {"majorityV3"}, n : {3}]

(* Words that share beginnings, begin another, or leave positions out.     *)
DictionaryJobs ==
    [prog : {"dencode"}, extra : {{}, {3}}, onh : BOOLEAN, zdd : BOOLEAN, add : {FALSE},
     words : {{<<1>>, <<1, 2>>, <<2>>, <<2, 1>>}, {<<1, 2>>, <<1, 1>>, <<2>>},
              {<<1, 1, 1>>, <<1>>}, {}}]
      \union [prog : {"dencode"}, extra : {{}}, onh : BOOLEAN, zdd : {FALSE}, add : {TRUE},
              words : {{<<1, 2>>, <<1, 1>>, <<2>>}}]

(* The circuit c17 of the benchmarks, and one with a gate of every type.   *)
Inp(a, f) == [adr |-> a, name |-> a, type |-> "inpt", fanout |-> f]
Gat(a, t, f) == [adr |-> a, name |-> a, type |-> t, fanout |-> f]
Fan(a) == [adr |-> a, type |-> "from"]
Ins(s) == [adrs |-> s]
C17 == <<Inp(1, 1), Inp(2, 1), Inp(3, 2), Fan(8), Fan(9), Inp(6, 1), Inp(7, 1),
         Gat(10, "nand", 1), Ins(<<1, 8>>), Gat(11, "nand", 2), Ins(<<9, 6>>), Fan(14), Fan(15),
         Gat(16, "nand", 2), Ins(<<2, 14>>), Fan(20), Fan(21), Gat(19, "nand", 1), Ins(<<15, 7>>),
         Gat(22, "nand", 0), Ins(<<10, 20>>), Gat(23, "nand", 0), Ins(<<21, 19>>)>>
AllGates == <<Inp(1, 3), Fan(11), Fan(12), Fan(13), Inp(2, 3), Fan(21), Fan(22), Fan(23), Inp(3, 0),
              Gat(4, "xor", 2), Ins(<<11, 21>>), Fan(41), Fan(42), Gat(5, "xnor", 1), Ins(<<41, 12>>),
              Gat(6, "not", 1), Ins(<<5>>), Gat(7, "buff", 1), Ins(<<6>>),
              Gat(8, "nor", 2), Ins(<<42, 22>>), Fan(81), Fan(82), Gat(9, "or", 0), Ins(<<7, 81>>),
              Gat(10, "and", 0), Ins(<<82, 13, 23>>)>>
NetlistJobs ==
    [prog : {"iscnet"}, file : {C17, AllGates}, reorder : BOOLEAN, zdd : {"none", "zdd", "add"}]

(* Boards with no path, because of the moves, the parity or the ends; and  *)
(* paths in every mode.                                                    *)
PathJobs ==
    [prog : {"hpath"}, rows : {2}, columns : {2}, mesh : BOOLEAN, source : {1}, sink : {1, 2, 4},
     mode : {"R", "F"}, layered : {FALSE}, zdd : BOOLEAN]
      \union [prog : {"hpath"}, rows : {2}, columns : {2}, mesh : {TRUE}, source : {1}, sink : {2},
              mode : {"B", "S"}, layered : BOOLEAN, zdd : BOOLEAN]
      \union {[prog |-> "hpath", rows |-> 2, columns |-> 3, mesh |-> TRUE, source |-> 1, sink |-> 4,
               mode |-> x[1], layered |-> x[2], zdd |-> FALSE, second |-> {2}] :
                 x \in {<<"R", FALSE>>, <<"B", FALSE>>, <<"S", FALSE>>, <<"B", TRUE>>}}

ZddKinds == {"none", "vars", "convert", "avars"}
QueenJobs ==
    [prog : {"nQueens"}, n : {2}, binary : {TRUE}, info : BOOLEAN, preconstrain : 0 .. 4, zdd : ZddKinds]
      \union [prog : {"nQueens"}, n : {3}, binary : {TRUE}, info : {FALSE}, preconstrain : 0 .. 2, zdd : ZddKinds]
      \union [prog : {"nQueens"}, n : {4}, binary : {TRUE}, info : BOOLEAN, preconstrain : {1},
              zdd : {"none"}]
      \union [prog : {"nQueens"}, n : {2}, binary : {FALSE}, info : {FALSE}, preconstrain : 0 .. 2, zdd : ZddKinds]
      \union [prog : {"lQueens"}, n : {2}, binary : BOOLEAN, info : {TRUE}, interleave : BOOLEAN,
              zdd : {"none", "vars", "avars"}]
      \union [prog : {"lQueens"}, n : {3}, binary : BOOLEAN, info : {TRUE}, interleave : BOOLEAN,
              zdd : {"none"}]
      \union [prog : {"lQueens"}, n : {4}, binary : {TRUE}, info : {TRUE}, interleave : BOOLEAN,
              zdd : {"none"}]

Corners == {"UL", "UR", "LL", "LR"}
ChessSets ==
    [prog : {"gen_chess"}, height : {2}, width : {2}, remove : SUBSET Corners,
     tileWidth : 1 .. 2, tileHeight : 1 .. 2]
      \union [prog : {"gen_chess"}, height : {2}, width : {3}, remove : {{}, {"UL", "LR"}},
              tileWidth : 1 .. 2, tileHeight : 1 .. 2]
      \union [prog : {"gen_chess"}, height : {3}, width : {3}, remove : {{}, {"UL"}},
              tileWidth : 1 .. 2, tileHeight : {2}]
      \union [prog : {"gen_chess"}, height : {1}, width : {9}, remove : {{}, {"UL"}},
              tileWidth : {2}, tileHeight : {1}]
      \union [prog : {"gen_chess_v1"}, height : {2}, width : {2}, remove : SUBSET Corners,
              zdd : {"none", "vars", "convert"}, conjunct : {"none", "row", "rowcol", "square"},
              divide : BOOLEAN, quantify : {FALSE}]
      \union [prog : {"gen_chess_v1"}, height : {2}, width : {2}, remove : {{}, {"UL"}, {"UR", "LL"}},
              zdd : {"none", "convert"}, conjunct : {"none", "square"}, divide : {TRUE}, quantify : {TRUE}]
      \union [prog : {"gen_chess_v1"}, height : {3}, width : {3}, remove : {{"UR"}},
              zdd : {"none"}, conjunct : {"rowcol", "square"}, divide : {TRUE}, quantify : {FALSE}]

-----------------------------------------------------------------------------
(* Schemes of small problems: of 1 x 2 by 2 x 1 matrices, right and wrong, *)
(* of 2 x 2 by 2 x 1, of 2 x 1 by 1 x 1; and parts of them.                *)
Share(p) == [c \in Categories |-> p]
WithOnes(d, x, ones) == MScheme(d, x, [v \in Variables(d, x) |-> IF v \in ones THEN 1 ELSE 0])
Only(s, kept) == [s EXCEPT !.asst = [v \in kept |-> s.asst[v]]]
Without(s, gone) == Only(s, DOMAIN s.asst \ gone)
Product(l, as, bs, gs) ==
    {<<"alpha", x[1], x[2], l>> : x \in as} \union {<<"beta", x[1], x[2], l>> : x \in bs}
      \union {<<"gamma", x[1], x[2], l>> : x \in gs}
RightScheme == WithOnes(<<1, 2, 1>>, 2, Product(1, {<<1, 1>>}, {<<1, 1>>}, {<<1, 1>>})
                                 \union Product(2, {<<1, 2>>}, {<<2, 1>>}, {<<1, 1>>}))
WrongScheme == WithOnes(<<1, 2, 1>>, 2, Product(1, {<<1, 1>>}, {<<1, 1>>}, {<<1, 1>>})
                                 \union Product(2, {<<1, 2>>, <<1, 1>>}, {<<2, 1>>}, {<<1, 1>>}))
CrossScheme == WithOnes(<<1, 2, 1>>, 2, Product(1, {<<1, 1>>}, {<<2, 1>>}, {<<1, 1>>})
                                 \union Product(2, {<<1, 2>>}, {<<1, 1>>}, {<<1, 1>>}))
(* Eight values of twenty: as many as completeAssignment asks for.         *)
Crossed == Only(WithOnes(<<1, 2, 1>>, 4, Product(1, {<<1, 1>>}, {<<2, 1>>}, {})
                                  \union Product(2, {<<1, 2>>}, {<<1, 1>>}, {})),
                UNION {{v \in VariablesAt(<<1, 2, 1>>, l) : cat(v) # "gamma"} : l \in 1 .. 2})
StandardScheme == WithOnes(<<2, 2, 1>>, 4,
    UNION {Product(2 * (i - 1) + k, {<<i, k>>}, {<<k, 1>>}, {<<i, 1>>}) : i \in 1 .. 2, k \in 1 .. 2})
FourKnown == Only(RightScheme, {<<"alpha", 1, 1, 1>>, <<"beta", 1, 1, 1>>, <<"gamma", 1, 1, 1>>,
                                <<"alpha", 1, 2, 2>>})
Sides == Only(WithOnes(<<2, 1, 1>>, 2, {<<"alpha", 1, 1, 1>>, <<"beta", 1, 1, 1>>, <<"gamma", 2, 1, 2>>}),
              {<<"alpha", 1, 1, 1>>, <<"gamma", 2, 1, 2>>, <<"beta", 1, 1, 1>>,
               <<"alpha", 2, 1, 1>>, <<"alpha", 1, 1, 2>>})
Missing == {<<"alpha", 1, 2, 1>>, <<"beta", 2, 1, 1>>, <<"alpha", 1, 1, 2>>, <<"beta", 1, 1, 2>>}

(* A job that leaves all options out, and what others change in it.        *)
PlainJob(s) == [prog |-> "brent", scheme |-> s, kernels |-> findKernels(s), prob |-> Share(0),
                fixKV |-> FALSE, exclude |-> FALSE, symbolic |-> FALSE, bound |-> FALSE, zdd |-> FALSE,
                levels |-> <<>>, symmetry |-> FALSE]
Breadths == {<<>>, <<2, 4, 6>>, <<1, 6>>}
EquationJobs ==
    {[PlainJob(s) EXCEPT !.kernels = {}, !.symbolic = y, !.bound = b] :
        s \in {MScheme(<<1, 2, 1>>, 1, <<>>), Sides}, y \in BOOLEAN, b \in BOOLEAN}
    \union {[PlainJob(s) EXCEPT !.prob = Share(100), !.exclude = e, !.bound = b, !.zdd = z, !.levels = l] :
        s \in {RightScheme, WrongScheme}, e \in BOOLEAN, b \in BOOLEAN, z \in BOOLEAN, l \in Breadths}
    \union {[PlainJob(StandardScheme) EXCEPT !.prob = Share(100), !.zdd = TRUE, !.levels = l] :
        l \in {<<>>, <<1, 3, 6>>}}
    \union {[PlainJob(Without(RightScheme, Missing)) EXCEPT !.fixKV = x, !.exclude = x, !.bound = x,
                                                            !.symbolic = ~x, !.levels = l] :
        x \in BOOLEAN, l \in Breadths}
    \union {[PlainJob(Without(s, Missing)) EXCEPT !.symmetry = TRUE] : s \in {CrossScheme, RightScheme}}
    \union {[PlainJob(Crossed) EXCEPT !.symmetry = TRUE, !.levels = <<6>>],
            [PlainJob(Only(RightScheme, {<<"gamma", 1, 1, 2>>})) EXCEPT !.levels = <<6>>],
            [PlainJob(FourKnown) EXCEPT !.prob = Share(50), !.levels = <<6>>],
            [PlainJob(FourKnown) EXCEPT !.prob = [c \in Categories |-> IF c = "alpha" THEN 100 ELSE 0],
                                        !.fixKV = TRUE, !.levels = <<6>>]}

MCJobs == CircuitJobs \union DictionaryJobs \union NetlistJobs \union PathJobs \union QueenJobs
            \union ChessSets \union EquationJobs
LayeredJobs == {[prog |-> "hpath", rows |-> 2, columns |-> 3, mesh |-> TRUE, source |-> 1, sink |-> 4,
                 mode |-> "B", layered |-> TRUE, zdd |-> FALSE, second |-> {2}]}

Next == \/ CircuitNext \/ DictionaryNext \/ NetlistNext \/ HamiltonNext \/ QueensNext
        \/ ChessNext \/ BrentNext \/ Stop
Spec == Init /\ [][Next]_vars

-----------------------------------------------------------------------------
(* Every command of a script finds the functions it names: no program uses *)
(* one that it has not made, or has deleted, nor defines a variable again. *)
(* Not so nQueens when it conjoins the conditions early: it reports some   *)
(* after it has deleted them.                                              *)
CommandsSucceed ==
    (job.prog = "nQueens" => job.preconstrain < IF job.info THEN 2 ELSE 3) => ckt.errors = {}

(* circuit.py's vectors are the sums, products and counts of its inputs,   *)
(* with every kind of function and order of variables.                     *)
ArithmeticRight == AssocRight /\ MultiplierRight /\ CountRight

(* The boards: whichever way the conditions are combined, the function is  *)
(* true for the solutions of the problem and for them only.                *)
BoardsRight == QueensRight /\ ChessRight /\ HamiltonRight

(* What is read from a file is what the script's functions say: the words  *)
(* of a dictionary, the outputs of a netlist, the equations of a scheme.   *)
EncodingsRight == DictionaryRight /\ NetlistRight /\ BrentRight
=============================================================================
