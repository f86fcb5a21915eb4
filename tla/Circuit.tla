------------------------------ MODULE Circuit -------------------------------
(***************************************************************************)
(* The library that writes scripts (src/matrix/circuit.py), each script    *)
(* being run by a console as it is written.  A circuit is the console plus *)
(* next, the number of the next temporary (Uniq), and live, the bag of the *)
(* nodes and vectors the circuit still holds.  A vector is the sequence of *)
(* its names, counted from 1; a node is a vector of one name.  No object   *)
(* is ever referenced twice, so decRefs deletes what it is given, provided *)
(* that the circuit holds it.                                              *)
(***************************************************************************)
EXTENDS ScriptConsole, BagsExt

InitCircuit == [next |-> 0, live |-> EmptyBag] @@ InitConsole

Upto(n) == [i \in 1 .. n |-> i]
Downto(n) == [i \in 1 .. n |-> n + 1 - i]

nameVec(root, n) == [i \in 1 .. n |-> Append(root, i - 1)]
concatenate(v, w) == v \o w
extend(v, n, ele) == [i \in 1 .. n |-> IF i <= Len(v) THEN v[i] ELSE ele]
shiftLeft(v, n) == [i \in 1 .. n |-> Zero] \o v
interleave(v, w) ==
    LET short == IF Len(v) < Len(w) THEN v ELSE w
        long  == IF Len(v) < Len(w) THEN w ELSE v
        step  == Len(long) \div Len(short)
    IN  FlattenSeq([i \in DOMAIN short |->
            <<short[i]>> \o SubSeq(long, (i - 1) * step + 1, i * step)])
          \o SubSeq(long, Len(short) * step + 1, Len(long))

(* addVec, addNode: the circuit holds an object from now on.              *)
Hold(c, obj) == [c EXCEPT !.live = BagAdd(@, obj)]
node(c, name) == Hold(c, <<name>>)

(* The names of the next k temporary nodes, or of a temporary vector.     *)
Tmp(c, k) == <<"n_t", c.next + k - 1>>
TmpNames(c, n) == [i \in 1 .. n |-> <<"n_t", c.next, i - 1>>]

tmpNodes(c, k) ==
    FoldLeft(LAMBDA d, i : [node(d, Tmp(d, 1)) EXCEPT !.next = @ + 1],
             c, Upto(k))
tmpVec(c, n) == [Hold(c, TmpNames(c, n)) EXCEPT !.next = @ + 1]

decRefs(c, objs) ==
    FoldLeft(LAMBDA d, obj : IF ~BagIn(obj, d.live) THEN d
                 ELSE Delete([d EXCEPT !.live = BagRemove(@, obj)], obj),
             c, objs)

declare(c, in, v) == FoldLeft(LAMBDA d, x : DeclareOne(d, in, x), c, v)

-----------------------------------------------------------------------------
andN(c, dest, args) == Command(c, "and", dest, args)
orN(c, dest, args)  == Command(c, "or", dest, args)
xorN(c, dest, args) == Command(c, "xor", dest, args)
iteN(c, dest, args) == Command(c, "ite", dest, args)
conjunctN(c, dest, args) == Command(c, "conjunct", dest, args)
Complement(a) == IF IsNeg(a) THEN a[2] ELSE Neg(a)
norN(c, dest, args) ==
    andN(c, dest, [i \in DOMAIN args |-> Complement(args[i])])

assignConstant(c, dest, val) ==
    CASE val = 1 -> andN(c, dest, <<>>)
      [] val = 0 -> orN(c, dest, <<>>)
      [] OTHER   -> c
checkConstant(c, dest, val) ==
    CASE val = 1 -> Equal(c, dest, One)
      [] val = 0 -> Equal(c, dest, Zero)
      [] OTHER   -> c

(* One command per position; the shorter vectors are filled with zero.    *)
cmdSequence(c, cmd, vecs) ==
    LET size == CHOOSE n \in {Len(vecs[j]) : j \in DOMAIN vecs} :
                    \A j \in DOMAIN vecs : Len(vecs[j]) <= n
        arg(j, i) == extend(vecs[j], size, Zero)[i]
        one(d, i) ==
            IF cmd = "equal" THEN Equal(d, arg(1, i), arg(2, i))
            ELSE Command(d, cmd, arg(1, i),
                         [j \in 1 .. Len(vecs) - 1 |-> arg(j + 1, i)])
    IN  FoldLeft(one, c, Upto(size))

notV(c, dest, v) == cmdSequence(c, "not", <<dest, v>>)
andV(c, dest, vecs) == cmdSequence(c, "and", <<dest>> \o vecs)
orV(c, dest, vecs)  == cmdSequence(c, "or", <<dest>> \o vecs)
xorV(c, dest, vecs) == cmdSequence(c, "xor", <<dest>> \o vecs)
zcV(c, dest, v) == cmdSequence(c, "zconvert", <<dest, v>>)
acV(c, dest, v) == cmdSequence(c, "aconvert", <<dest, v>>)
=============================================================================
