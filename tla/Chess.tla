------------------------------- MODULE Chess --------------------------------
(***************************************************************************)
(* The mutilated chessboard: gen_chess.py, with tiles of squares, and its  *)
(* first version gen_chess_v1.py, by rows and in two halves.  A variable   *)
(* tells for each edge between two squares whether a domino covers both:   *)
(* V(r, c) is the edge left of square (r, c), and H(r, c) the edge above.  *)
(* The order in which arguments of a conjunction are written is random and *)
(* does not matter to its value.  conjunct -q quantifies only in functions *)
(* of many nodes (quantify_threshold, src/conjunct.c) and is a conjunction *)
(* here.                                                                   *)
(***************************************************************************)
EXTENDS ScriptRun

Height == job.height
Width == job.width

vertical(p, r, c) == <<p, "V", r, c>>
horizontal(p, r, c) == <<p, "H", r, c>>
vrow(p, r) == [i \in 1 .. Width - 1 |-> vertical(p, r, i)]
hrow(p, r) == [i \in 1 .. Width |-> horizontal(p, r, i - 1)]

squareVars(r, c) ==
    (IF r > 0 THEN <<horizontal("", r, c)>> ELSE <<>>) \o
    (IF r < Height - 1 THEN <<horizontal("", r + 1, c)>> ELSE <<>>) \o
    (IF c > 0 THEN <<vertical("", r, c)>> ELSE <<>>) \o
    (IF c < Width - 1 THEN <<vertical("", r, c + 1)>> ELSE <<>>)

removed(r, c) ==
    CASE r = 0 /\ c = 0                  -> "UL" \in job.remove
      [] r = 0 /\ c = Width - 1 /\ c > 0 -> "UR" \in job.remove
      [] r = Height - 1 /\ c = 0 /\ r > 0 -> "LL" \in job.remove
      [] r = Height - 1 /\ c = Width - 1 /\ r > 0 /\ c > 0 -> "LR" \in job.remove
      [] OTHER -> FALSE

BoardNames(p) ==
    FlattenSeq([i \in 1 .. Height |->
        (IF i > 1 THEN hrow(p, i - 1) ELSE <<>>) \o vrow(p, i - 1)])

(* chess/circuit.py leaves out the last step of the count of none.        *)
exactly1Short(c, dest, v, nv) ==
    LET c0 == Tmp(c, 1)
        n == Len(v)
        d == count01(tmpNodes(c, 1), c0, dest, Front(v), Front(nv))
        e == assignConstant(assignConstant(tmpNodes(c, 1), c0, 1), dest, 0)
    IN  decRefs(IF n = 0 THEN e ELSE iteN(d, dest, <<v[n], c0, dest>>), <<<<c0>>>>)

squareOK(r, c) == <<"squareOK", r, c>>
constrainSquare(ckt0, r, c) ==
    LET v == squareVars(r, c)
        nv == [i \in DOMAIN v |-> Neg(v[i])]
        d == node(ckt0, squareOK(r, c))
    IN  IF removed(r, c) THEN andN(d, squareOK(r, c), nv)
        ELSE exactly1Short(d, squareOK(r, c), v, nv)

constrainSquares(c, squares) ==
    FoldLeft(LAMBDA d, s : constrainSquare(d, s[1], s[2]), c, squares)
SquareNames(squares) == [i \in DOMAIN squares |-> squareOK(squares[i][1], squares[i][2])]

(* The squares of a rectangle that starts at row r0 and column c0.        *)
Rectangle(r0, rows, c0, columns) ==
    [i \in 1 .. rows * columns |-> <<r0 + (i - 1) \div columns,
                                     c0 + ((i - 1) % columns)>>]

-----------------------------------------------------------------------------
(* gen_chess.py: tiles.                                                   *)
AllOK == <<"ok">>

TileDeclare ==
    /\ job.prog = "gen_chess"
    /\ DeclareAs(InitCircuit, BoardNames(""), "tiles")

Ceil(a, b) == (a + b - 1) \div b
csize == Ceil(Width, Width \div job.tileWidth)
rsize == Ceil(Height, Height \div job.tileHeight)
TileCorners ==
    LET rcount == Height \div job.tileHeight
        ccount == Width \div job.tileWidth
    IN  [i \in 1 .. ccount * rcount |-> <<((i - 1) % rcount) * rsize,
                                          ((i - 1) \div rcount) * csize>>]

(* The tiles' size may reach the end of the board before the last tile.   *)
Within(size, board, start) == Max({0, Min({size, board - start})})
TileRows(t) == Within(rsize, Height, t[1])
TileColumns(t) == Within(csize, Width, t[2])
IsSquare(t) == TileRows(t) = 1 /\ TileColumns(t) = 1
TileSquares(t) == Rectangle(t[1], TileRows(t), t[2], TileColumns(t))
TileName(t) == <<"tileOK", t[1], t[1] + rsize - 1, t[2], t[2] + csize - 1>>

generateTile(c, t) ==
    LET d == constrainSquares(node(c, TileName(t)), TileSquares(t))
    IN  IF IsSquare(t) THEN d
        ELSE conjunctN(d, TileName(t), SquareNames(TileSquares(t)))

Tiles ==
    LET c1 == FoldLeft(generateTile, node(ckt, AllOK), TileCorners)
        args == [i \in DOMAIN TileCorners |->
                    LET t == TileCorners[i]
                    IN  IF IsSquare(t) THEN squareOK(t[1], t[2]) ELSE TileName(t)]
        c2 == conjunctN(c1, AllOK, args)
    IN  Part("tiles", "done", checkConstant(Report(c2, <<AllOK>>), AllOK, 0))

-----------------------------------------------------------------------------
(* gen_chess_v1.py: rows, for a range of columns that only the squares    *)
(* method uses: by rows both halves are the whole board.                  *)
V1Prefix == IF job.zdd \in {"none", "convert"} THEN "" ELSE "b"

V1Declare ==
    /\ job.prog = "gen_chess_v1"
    /\ DeclareAs(InitCircuit, BoardNames(V1Prefix), IF job.divide THEN "left" ELSE "whole")

V1Convert(c) ==
    LET to == IF job.zdd = "vars" THEN "zconvert" ELSE "aconvert"
        v == BoardNames("")
    IN  IF V1Prefix = "" THEN c
        ELSE cmdSequence(c, to, <<v, BoardNames(V1Prefix)>>)

allOK(start, count) ==
    IF count < Height THEN <<"ok", start, start + count - 1>> ELSE <<"ok">>
rowOK(r) == <<"rowOK", r>>

constrainRow(c, r) ==
    LET squares == Rectangle(r, 1, 0, Height)
        args == SquareNames(squares)
        d == constrainSquares(node(c, rowOK(r)), squares)
        e == IF job.conjunct \in {"row", "rowcol"}
             THEN conjunctN(d, rowOK(r), args)
             ELSE decRefs(andN(d, rowOK(r), args), [i \in DOMAIN args |-> <<args[i]>>])
    IN  Report(e, <<rowOK(r)>>)

constrainAll(c, dest) ==
    LET order == [i \in 1 .. Height |-> Height - i]
        args == [i \in 1 .. Height |-> rowOK(order[i])]
        d == FoldLeft(constrainRow, node(c, dest), order)
    IN  IF job.conjunct = "rowcol" THEN conjunctN(d, dest, args)
        ELSE decRefs(andN(d, dest, args), [i \in DOMAIN args |-> <<args[i]>>])

conjunctAllSquares(c, dest, start, count) ==
    LET squares == Rectangle(0, Height, start, count)
    IN  conjunctN(constrainSquares(node(c, dest), squares), dest, SquareNames(squares))

Constrain(c, start, count) ==
    IF job.conjunct = "square"
    THEN conjunctAllSquares(c, allOK(start, count), start, count)
    ELSE constrainAll(c, allOK(start, count))

V1End(c) == checkConstant(Report(c, <<AllOK>>), AllOK, 0)

V1Whole == Part("whole", "done", V1End(Constrain(V1Convert(ckt), 0, Height)))

Lcount == Height \div 2
Rcount == Height - Lcount
OkLeft == allOK(0, Lcount)
OkRight == allOK(Lcount, Rcount)
SaveFile == "save.bdd"

V1Left ==
    LET c1 == Constrain(V1Convert(ckt), 0, Lcount)
    IN  Part("left", "right", decRefs(Store(c1, OkLeft, SaveFile), <<<<OkLeft>>>>))

V1Right ==
    LET c1 == node(Constrain(ckt, Lcount, Rcount), OkLeft)
        c2 == Report(Load(c1, OkLeft, SaveFile), <<OkLeft, OkRight>>)
    IN  Part("right", IF job.quantify THEN "quantify" ELSE "halves", node(c2, AllOK))

(* The variables of edges within the columns of one half.                 *)
partialVars(start, count) ==
    {horizontal("", r, c) : r \in 1 .. Height - 1, c \in start .. start + count - 1}
      \union {vertical("", r, c) : r \in 0 .. Height - 1,
                                   c \in start + 1 .. start + count - 1}

(* equant: whether values of the variables vs exist for which the half is *)
(* right; the others keep theirs.                                         *)
Exists(ok, start, count, vs) ==
    \E w \in [vs -> BOOLEAN] :
        Constrain(declare(InitCircuit, w @@ in, BoardNames("")), start, count).env[ok]
equantN(c, dest, fun, value) ==
    IF Known(c, fun) THEN Assign(c, dest, value) ELSE Fail(c, <<"equant", dest>>)

QLeft == <<"q", OkLeft>>
QRight == <<"q", OkRight>>
kernelNode == <<"k", AllOK>>
V1Quantify ==
    LET el == Exists(OkLeft, 0, Lcount, partialVars(0, Lcount))
        er == Exists(OkRight, Lcount, Rcount, partialVars(Lcount, Rcount))
        c1 == equantN(HoldAll(ckt, <<<<QLeft>>, <<QRight>>>>), QLeft, OkLeft, el)
        c2 == Report(equantN(c1, QRight, OkRight, er), <<QLeft, QRight>>)
        c3 == decRefs(andN(node(c2, kernelNode), kernelNode, <<QLeft, QRight>>),
                      <<<<QLeft>>, <<QRight>>>>)
        c4 == andN(Report(c3, <<kernelNode>>), OkLeft, <<OkLeft, kernelNode>>)
        c5 == andN(c4, OkRight, <<OkRight, kernelNode>>)
    IN  Part("quantify", "halves", Report(c5, <<OkLeft, OkRight>>))

V1Combine ==
    LET halves == <<OkLeft, OkRight>>
        z == IF job.zdd = "convert" THEN [i \in 1 .. 2 |-> <<"z", halves[i]>>]
             ELSE halves
        held == [i \in 1 .. 2 |-> <<halves[i]>>]
        heldZ == [i \in 1 .. 2 |-> <<z[i]>>]
        c1 == IF job.zdd = "convert"
              THEN decRefs(zcV(HoldAll(ckt, heldZ), z, halves), held) ELSE ckt
        c2 == decRefs(andN(c1, AllOK, z), heldZ)
    IN  Part("halves", "done", V1End(c2))

ChessNext ==
    \/ TileDeclare \/ Tiles
    \/ V1Declare \/ V1Whole \/ V1Left \/ V1Right \/ V1Quantify \/ V1Combine

-----------------------------------------------------------------------------
ChessJobs == {"gen_chess", "gen_chess_v1"}
Kept == {<<r, c>> \in (0 .. Height - 1) \X (0 .. Width - 1) :
           ~ \/ <<r, c>> = <<0, 0>> /\ "UL" \in job.remove
             \/ <<r, c>> = <<0, Width - 1>> /\ "UR" \in job.remove
             \/ <<r, c>> = <<Height - 1, 0>> /\ "LL" \in job.remove
             \/ <<r, c>> = <<Height - 1, Width - 1>> /\ "LR" \in job.remove}

(* The squares a domino on an edge covers.                                *)
Covers(x) == {<<x[3], x[4]>>, IF x[2] = "V" THEN <<x[3], x[4] - 1>>
                              ELSE <<x[3] - 1, x[4]>>}
Dominoes == {x \in DOMAIN in : in[x]}

(* The dominoes tile the squares kept: they cover no other and none twice.*)
Tiling ==
    /\ UNION {Covers(x) : x \in Dominoes} = Kept
    /\ \A x, y \in Dominoes : x # y => Covers(x) \intersect Covers(y) = {}

ChessRight == Done /\ job.prog \in ChessJobs => Get(AllOK) = Tiling
=============================================================================
