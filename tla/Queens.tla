------------------------------- MODULE Queens -------------------------------
(***************************************************************************)
(* The n-queens generators (src/scripts/qcircuit.py): nQueens builds the   *)
(* conditions of rows, columns, diagonals and off-diagonals one after the  *)
(* other, each of which may be conjoined with the ones before at an        *)
(* earlier point (preconstrain, 0 .. 4); lQueens goes row by row.  The     *)
(* board has a variable per square, or a binary number per row.  collect,  *)
(* status and time change nothing and are left out.                        *)
(***************************************************************************)
EXTENDS ScriptRun

N == job.n
Converting == job.zdd = "convert"
From0(n) == [i \in 1 .. n |-> i - 1]

sq(r, c) == <<"sq", r, c>>
bsq(r, c) == <<"bsq", r, c>>
NegVec(v) == [i \in DOMAIN v |-> Neg(v[i])]
row(n, r) == [i \in 1 .. n |-> sq(r, i - 1)]
col(n, c) == [i \in 1 .. n |-> sq(i - 1, c)]
diag(n, i) == IF i < 0 THEN [j \in 1 .. n + i |-> sq(j - 1 - i, j - 1)]
              ELSE [j \in 1 .. n - i |-> sq(j - 1, j - 1 + i)]
\* (mutant) the last square is missing
offDiagShort(n, i) == IF i < 0 THEN [j \in 1 .. n + i - 1 |-> sq(n + i - j, j - 1)]
                      ELSE [j \in 1 .. n - i - 1 |-> sq(n - j, i + j - 1)]
offDiag(n, i) == IF i < 0 THEN [j \in 1 .. n + i |-> sq(n + i - j, j - 1)]
                 ELSE [j \in 1 .. n - i |-> sq(n - j, i + j - 1)]

bigLog2(x) == CHOOSE m \in 0 .. x : 2 ^ m >= x /\ \A k \in 0 .. m - 1 : 2 ^ k < x

(* The variables: the bits of each row, highest first, or the squares.    *)
RowBits(root, r) == nameVec(<<root, r>>, bigLog2(N))
BoardVector(root) ==
    IF job.binary
    THEN FlattenSeq([r \in 1 .. N |->
             Reverse(RowBits(IF root = "b" THEN "bv" ELSE "v", r - 1))])
    ELSE FlattenSeq([r \in 1 .. N |-> [i \in 1 .. N |->
             IF root = "b" THEN bsq(r - 1, i - 1) ELSE sq(r - 1, i - 1)]])
BoardSeparate == job.zdd \in {"vars", "avars"}
BoardVars == BoardVector(IF BoardSeparate THEN "b" ELSE "")

(* The functions of the squares, converted or decoded from the variables. *)
Squares(c) ==
    LET c1 == CASE job.zdd = "vars"  -> zcV(c, BoardVector(""), BoardVars)
                [] job.zdd = "avars" -> acV(c, BoardVector(""), BoardVars)
                [] OTHER -> c
        square(d, k) == LET r == k \div N
                        IN  matchVal(d, k % N, RowBits("v", r), sq(r, k % N))
    IN  IF job.binary THEN FoldLeft(square, c1, From0(N * N)) ELSE c1

-----------------------------------------------------------------------------
Pc == <<"preconstrain">>
OkR == <<"okR">>
OkC == <<"okC">>
OkRC == <<"okRC">>
OkD == <<"okD">>
OkRCD == <<"okRCD">>
OkO == <<"okO">>
Ok == <<"ok">>
ZokR == <<"zokR">>
ZokC == <<"zokC">>
ZokRC == <<"zokRC">>
ZokD == <<"zokD">>
ZokRCD == <<"zokRCD">>
ZokO == <<"zokO">>
Zok == <<"zok">>
Nodes(names) == [i \in DOMAIN names |-> <<names[i]>>]
Okr == nameVec(<<"okr">>, N)
Okc == nameVec(<<"okc">>, N)
Okd == nameVec(<<"okd">>, 2 * N - 1)
Oko == nameVec(<<"oko">>, 2 * N - 1)

(* With -z convert each condition is converted, and its BDD released.     *)
Converted(c, z, x) ==
    IF Converting THEN decRefs(Command(c, "zconvert", z, <<x>>), <<<<x>>>>) ELSE c
Info(c, ils) == IF job.info THEN Report(c, ils) ELSE c

QueensDeclare ==
    LET nodes == <<Pc, OkR>> \o IF Converting THEN <<ZokR>> ELSE <<>>
        rows == IF job.binary THEN [r \in 1 .. N |-> RowBits("v", r - 1)]
                ELSE <<>>
    IN  /\ job.prog = "nQueens"
        /\ DeclareAs(HoldAll(andN(HoldAll(InitCircuit, Nodes(nodes)), Pc, <<>>), rows),
                     BoardVars, "rows")

(* In binary a row holds one queen at most, and okR is one.               *)
QueensRows ==
    LET c1 == Squares(ckt)
        one(d, r) == exactly1(d, Okr[r + 1], row(N, r), NegVec(row(N, r)))
        c2 == FoldLeft(one, Hold(c1, Okr), From0(N))
        c3 == decRefs(andN(c2, OkR, Okr), <<Okr>>)
        c4 == IF job.preconstrain >= 1 THEN andN(c3, Pc, <<OkR>>) ELSE c3
    IN  Part("rows", "columns",
             IF job.binary THEN andN(c1, OkR, <<>>) ELSE Converted(c4, ZokR, OkR))

QueensColumns ==
    LET c0 == HoldAll(ckt, <<Okc, Okd, Oko>> \o Nodes(
                <<OkC, OkRC, OkD, OkRCD, OkO, Ok>> \o
                IF Converting THEN <<ZokC, ZokD, ZokO, ZokRC, ZokRCD, Zok>>
                ELSE <<>>))
        one(d, c) == andN(exactly1(d, Okc[c + 1], col(N, c), NegVec(col(N, c))),
                          Okc[c + 1], <<Okc[c + 1], Pc>>)
        c1 == FoldLeft(one, c0, From0(N))
        c2 == decRefs(andN(c1, OkC, Okc), <<Okc>>)
        c3 == IF job.preconstrain >= 1 THEN decRefs(c2, <<<<OkR>>>>) ELSE c2
        c4 == Converted(c3, ZokC, OkC)
    IN  Part("columns", "rowcol", Info(c4, <<IF Converting THEN ZokC ELSE OkC>>))

QueensRowColumn ==
    LET dls == CASE Converting /\ job.binary -> <<ZokC>>
                 [] Converting /\ ~job.binary -> <<ZokR, ZokC>>
                 [] ~Converting /\ job.preconstrain < 1 -> <<OkR, OkC>>
                 [] OTHER -> <<OkC>>
        out == IF Converting THEN ZokRC ELSE OkRC
        c1 == andN(ckt, out, dls)
        c2 == IF ~Converting /\ job.preconstrain >= 2 THEN andN(c1, Pc, <<OkRC>>)
              ELSE c1
    IN  Part("rowcol", "diagonals", Info(decRefs(c2, Nodes(dls)), <<out>>))

(* The conditions of the diagonals that line(n, i) lists, conjoined in ok.*)
AtMostOnePerLine(c, line(_, _), outs, ok) ==
    LET one(d, k) ==
          LET v == line(N, k - N + 1)
          IN  andN(atMost1(d, outs[k + 1], v, NegVec(v)), outs[k + 1],
                   <<outs[k + 1], Pc>>)
    IN  decRefs(andN(FoldLeft(one, c, From0(2 * N - 1)), ok, outs), <<outs>>)

QueensDiagonals ==
    LET c1 == Converted(AtMostOnePerLine(ckt, diag, Okd, OkD), ZokD, OkD)
        ils1 == IF Converting THEN <<ZokD>> ELSE <<OkD>>
        c2 == Info(c1, ils1)
        joined == Converting \/ job.preconstrain < 2
        c3 == CASE Converting -> andN(c2, ZokRCD, <<ZokRC, ZokD>>)
                [] ~Converting /\ joined -> andN(c2, OkRCD, <<OkRC, OkD>>)
                [] OTHER -> andN(c2, OkRCD, <<OkD>>)
        ils2 == CASE Converting -> <<ZokRCD>>
                  [] ~Converting /\ joined -> <<OkRCD>>
                  [] OTHER -> ils1
        c4 == IF ~Converting /\ job.preconstrain >= 3 THEN andN(c3, Pc, <<OkRCD>>)
              ELSE c3
    IN  Part("diagonals", "offdiagonals",
             Info(decRefs(c4, Nodes(IF Converting THEN <<ZokRC, ZokD>>
                                    ELSE <<OkRC, OkD>>)), ils2))

(* ils keeps okO when the conditions were preconstrained: at the end it   *)
(* is reported, and counted, after its deletion.                          *)
QueensOffDiagonals ==
    LET c1 == Converted(AtMostOnePerLine(ckt, offDiag, Oko, OkO), ZokO, OkO)
        ils1 == IF Converting THEN <<ZokO>> ELSE <<OkO>>
        c2 == Info(c1, ils1)
        joined == Converting \/ job.preconstrain < 3
        c3 == CASE Converting -> andN(c2, Zok, <<ZokRCD, ZokO>>)
                [] ~Converting /\ joined -> andN(c2, Ok, <<OkRCD, OkO>>)
                [] OTHER -> andN(c2, Ok, <<OkO>>)
        ils2 == CASE Converting -> <<Zok>>
                  [] ~Converting /\ joined -> <<Ok>>
                  [] OTHER -> ils1
        c4 == decRefs(c3, Nodes(IF Converting THEN <<ZokRCD, ZokO>>
                                ELSE <<OkRCD, OkO>>))
    IN  Part("offdiagonals", "done", Report(decRefs(c4, <<<<Pc>>>>), ils2))

-----------------------------------------------------------------------------
(* The order of the declared rows that puts the middle rows first.        *)
RowPosition(vr) ==
    LET odd == N % 2 = 1
        mid == IF odd THEN (N - 1) \div 2 ELSE N \div 2
    IN  CASE odd /\ vr = mid -> 0
          [] odd /\ vr > mid -> (vr - mid - 1) * 2 + 1
          [] odd /\ vr < mid -> (mid - vr) * 2
          [] ~odd /\ vr >= mid -> (vr - mid) * 2 + 1
          [] OTHER -> (mid - vr - 1) * 2

interleaveRows(names) ==
    LET m == Len(names) \div N
    IN  [k \in DOMAIN names |->
           LET vr == CHOOSE r \in 0 .. N - 1 : RowPosition(r) = (k - 1) \div m
           IN  names[vr * m + ((k - 1) % m) + 1]]

Layer(root, r) == nameVec(<<root, r>>, N)
Vok == nameVec(<<"ok">>, N + 1)
LegalAll(r) == <<"Legal", r>>

LQueensDeclare ==
    LET rows == IF job.binary THEN [r \in 1 .. N |-> RowBits("v", r - 1)]
                ELSE <<>>
    IN  /\ job.prog = "lQueens"
        /\ DeclareAs(HoldAll(InitCircuit, <<Okr>> \o rows),
                     IF job.interleave THEN interleaveRows(BoardVars)
                     ELSE BoardVars, "lrows")

(* Everything is free below the fictional row N; freedom of diagonal 0    *)
(* and of off-diagonal N - 1 is never asked.                              *)
LQueensRows ==
    LET one(d, r) == exactly1(d, Okr[r + 1], row(N, r), NegVec(row(N, r)))
        c1 == FoldLeft(one, Squares(ckt), From0(N))
        free(d, names) == FoldLeft(LAMBDA e, x : andN(e, x, <<>>), d, names)
        c2 == free(Hold(c1, Layer("cfree", N)), Layer("cfree", N))
        c3 == free(Hold(c2, Layer("dfree", N)), Tail(Layer("dfree", N)))
        c4 == free(Hold(c3, Layer("ofree", N)), Front(Layer("ofree", N)))
    IN  PartAt("lrows", 0, "layer", N - 1,
               andN(Hold(c4, Vok), Vok[N + 1], <<>>))

(* The squares of row r that the rows above it leave free, and that its   *)
(* queens stand on such squares.                                          *)
LayerCheck(c, r) ==
    LET cf == Layer("cfree", r + 1)
        df == Layer("dfree", r + 1)
        of == Layer("ofree", r + 1)
        clear == Layer("clear", r)
        legal == Layer("legal", r)
        above(i) == (IF i > 1 THEN <<of[i - 1]>> ELSE <<>>) \o <<cf[i]>>
                    \o IF i < N THEN <<df[i + 1]>> ELSE <<>>
        c1 == FoldLeft(LAMBDA d, i : andN(d, clear[i], above(i)), Hold(c, clear),
                       Upto(N))
        c2 == orV(Hold(c1, legal), legal, <<NegVec(row(N, r)), clear>>)
        c3 == andN(node(c2, LegalAll(r)), LegalAll(r), legal)
    IN  andN(c3, Vok[r + 1], <<Vok[r + 2], Okr[r + 1], LegalAll(r)>>)

(* What rows r and up leave free for the row below.                       *)
LayerFree(c, r) ==
    LET q == NegVec(row(N, r))
        pcf == Layer("cfree", r + 1)
        pdf == Layer("dfree", r + 1)
        pof == Layer("ofree", r + 1)
        cf == Layer("cfree", r)
        df == Layer("dfree", r)
        of == Layer("ofree", r)
        both(d, out, i, prev) == andN(d, out[i], <<q[i], prev>>)
        inner == [i \in 1 .. N - 2 |-> i + 1]
        c1 == FoldLeft(LAMBDA d, i : both(d, cf, i, pcf[i]),
                       HoldAll(c, <<cf, df, of>>), Upto(N))
        c2 == FoldLeft(LAMBDA d, i : both(d, df, i, pdf[i + 1]), c1, inner)
        c3 == andN(andN(c2, df[N], <<q[N]>>), of[1], <<q[1]>>)
    IN  FoldLeft(LAMBDA d, i : both(d, of, i, pof[i - 1]), c3, inner)

(* A vector the circuit holds is changed in place.                        *)
Trim(c, old, new) == Hold([c EXCEPT !.live = BagRemove(@, old)], new)

LQueensLayer(r) ==
    LET df == Layer("dfree", r + 1)
        of == Layer("ofree", r + 1)
        c1 == LayerCheck(ckt, r)
        c2 == IF r > 0 THEN LayerFree(c1, r) ELSE c1
        c3 == Trim(Trim(c2, df, Tail(df)), of, Front(of))
        used == <<Layer("cfree", r + 1), Tail(df), Front(of), Layer("clear", r),
                  Layer("legal", r), <<LegalAll(r)>>, <<Okr[r + 1]>>, <<Vok[r + 2]>>>>
        c4 == decRefs(node(node(c3, Okr[r + 1]), Vok[r + 2]), used)
        info == <<Vok[r + 1]>> \o Layer("cfree", r) \o Tail(Layer("dfree", r))
                \o Front(Layer("ofree", r))
    IN  IF r > 0 THEN PartAt("layer", r, "layer", r - 1, Info(c4, info))
        ELSE PartAt("layer", 0, "total", 0, c4)

LQueensLayers == phase[1] = "layer" /\ \E r \in 0 .. N - 1 : LQueensLayer(r)

LQueensTotal ==
    LET c1 == decRefs(node(andN(node(ckt, Ok), Ok, <<Vok[1]>>), Vok[1]), <<<<Vok[1]>>>>)
    IN  Part("total", "done", Report(c1, <<Ok>>))

QueensNext ==
    \/ QueensDeclare \/ QueensRows \/ QueensColumns \/ QueensRowColumn
    \/ QueensDiagonals \/ QueensOffDiagonals
    \/ LQueensDeclare \/ LQueensRows \/ LQueensLayers \/ LQueensTotal

-----------------------------------------------------------------------------
Queen(r, c) ==
    IF job.binary THEN InNumber(RowBits(IF BoardSeparate THEN "bv" ELSE "v", r)) = c
    ELSE in[IF BoardSeparate THEN bsq(r, c) ELSE sq(r, c)]
Cells == (0 .. N - 1) \X (0 .. N - 1)
Attacks(a, b) ==
    /\ a # b
    /\ \/ a[1] = b[1] \/ a[2] = b[2]
       \/ a[1] - b[1] = a[2] - b[2] \/ a[1] - b[1] = b[2] - a[2]
QueensJobs == {"nQueens", "lQueens"}

(* A solution is N queens of which none attacks another.                  *)
Solution ==
    LET q == {x \in Cells : Queen(x[1], x[2])}
    IN  Cardinality(q) = N /\ \A a, b \in q : ~Attacks(a, b)

QueensRight ==
    Done /\ job.prog \in QueensJobs =>
        Get(IF job.prog = "nQueens" /\ Converting THEN Zok ELSE Ok) = Solution
=============================================================================
