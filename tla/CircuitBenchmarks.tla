-------------------------- MODULE CircuitBenchmarks -------------------------
(***************************************************************************)
(* The benchmarks of circuit.py: addition and multiplication are           *)
(* associative, and the array multiplier against a table.  Last come calls *)
(* of the counters, as the other programs make them: a program declares a  *)
(* vector of signals, negates it, and counts.                              *)
(***************************************************************************)
EXTENDS ScriptRun

Vectors(n) == [a |-> nameVec(<<"a">>, n), b |-> nameVec(<<"b">>, n), c |-> nameVec(<<"c">>, n),
               s |-> nameVec(<<"s">>, n), t |-> nameVec(<<"t">>, n), x |-> nameVec(<<"x">>, n)]

E == <<"e">>

(* The vectors a, b, c are made twice, for the computation and to declare *)
(* the variables, interleaved and reversed.                               *)
AssocDeclare ==
    LET v == Vectors(job.n)
        objs == <<v.a, v.b, v.c, v.s, v.t, v.x, <<E>>, v.a, v.b, v.c>>
    IN  /\ job.prog \in {"addAssociative", "multAssociative"}
        /\ DeclareAs(HoldAll(InitCircuit, objs),
                     Reverse(interleave(interleave(v.a, v.b), v.c)), job.prog)

AddAssociative ==
    LET v == Vectors(job.n)
        c1 == addV(ckt, v.s, <<v.a, v.b, v.c>>, FALSE)
        c2 == addV(c1, v.t, <<v.c, v.b, v.a>>, FALSE)
    IN  Part("addAssociative", "compare",
             decRefs(Report(c2, v.t), <<v.a, v.b, v.c>>))

MultAssociative ==
    LET v == Vectors(job.n)
        c1 == multV(ckt, v.s, <<v.a, v.b, v.c>>, FALSE)
        c2 == multV(c1, v.t, <<v.c, v.b, v.a>>, FALSE)
    IN  Part("multAssociative", "compare",
             decRefs(Report(c2, v.t), <<v.a, v.b, v.c>>))

(* The nodes made for the or of x are new objects with x's names.         *)
Compare ==
    LET v == Vectors(job.n)
        c1 == decRefs(xorV(ckt, v.x, <<v.s, v.t>>), <<v.s, v.t>>)
        c2 == orN(HoldAll(c1, [i \in DOMAIN v.x |-> <<v.x[i]>>]), E, v.x)
    IN  Part("compare", "done", Equal(decRefs(c2, <<v.x>>), Zero, E))

-----------------------------------------------------------------------------
A == nameVec(<<"A">>, job.n)
B == nameVec(<<"B">>, job.n)
Out == nameVec(<<"out">>, 2 * job.n)
Outc == nameVec(IF job.zdd = "convert" THEN <<"outc">> ELSE <<"out">>, 2 * job.n)
Cout == nameVec(<<"cout">>, 2 * job.n)
Separate == job.zdd \in {"vars", "avars"}
Dav == IF Separate THEN nameVec(<<"bA">>, job.n) ELSE A
Dbv == IF Separate THEN nameVec(<<"bB">>, job.n) ELSE B

MultiplierDeclare ==
    LET da == IF job.reverseA THEN Reverse(Dav) ELSE Dav
        db == IF job.reverseB THEN Reverse(Dbv) ELSE Dbv
        held == <<A, B>> \o IF Separate THEN <<Dav, Dbv>> ELSE <<>>
    IN  /\ job.prog = "Multiplier"
        /\ DeclareAs(HoldAll(InitCircuit, held),
                     IF job.interleave THEN interleave(da, db) ELSE da \o db,
                     "convert")

(* With ZDDs or ADDs the factors are converted from the variables, whose  *)
(* order reverseA and reverseB have changed: so have the bits.            *)
MultiplierConvert ==
    LET da == IF job.reverseA THEN Reverse(Dav) ELSE Dav
        db == IF job.reverseB THEN Reverse(Dbv) ELSE Dbv
    IN  Part("convert", "multiply",
             CASE job.zdd = "vars"  -> zcV(zcV(ckt, A, da), B, db)
               [] job.zdd = "avars" -> acV(acV(ckt, A, da), B, db)
               [] OTHER -> ckt)

MultiplierBuild ==
    LET held == <<Out>> \o IF job.zdd = "convert" THEN <<Outc>> ELSE <<>>
        c1 == multiplier(HoldAll(ckt, held), Outc, A, B)
        c2 == IF job.zdd = "convert" THEN decRefs(zcV(c1, Out, Outc), <<Outc>>)
              ELSE c1
    IN  Part("multiply", IF job.check THEN "check" ELSE "done", Report(c2, Out))

MultiplierCheck ==
    LET c1 == multblast(Hold(ckt, Cout), Cout, A, B)
    IN  Part("check", "done", cmdSequence(c1, "equal", <<Out, Cout>>))

-----------------------------------------------------------------------------
(* A caller of the counters: v and its negation, then the count of v.     *)
Sig == nameVec(<<"v">>, job.n)
NSig == nameVec(<<"nv">>, job.n)
Dest == <<"dest">>
DestV == nameVec(<<"dest">>, IF "k" \in DOMAIN job THEN job.k + 1 ELSE 0)
CountJobs == {"exactly1", "atMost1", "countGeneratorVector", "atMostK", "okList",
              "exactlyK", "majorityV3", "norN"}

CountDeclare ==
    /\ job.prog \in CountJobs
    /\ DeclareAs(HoldAll(InitCircuit, <<Sig, NSig, <<Dest>>>>), Sig, "negate")

CountNegate == Part("negate", job.prog, notV(ckt, NSig, Sig))

CountCall ==
    /\ job.prog \in CountJobs
    /\ Part(job.prog, "done",
            CASE job.prog = "exactly1" -> exactly1(ckt, Dest, Sig, NSig)
              [] job.prog = "atMost1"  -> atMost1(ckt, Dest, Sig, NSig)
              [] job.prog = "atMostK"  -> atMostK(ckt, Dest, Sig, NSig, job.k)
              [] job.prog = "okList"   -> okList(ckt, Dest, Sig, NSig, job.ok)
              [] job.prog = "exactlyK" -> exactlyK(ckt, Dest, Sig, NSig, job.k)
              [] job.prog = "norN"     -> norN(ckt, Dest, Sig)
              [] job.prog = "majorityV3" ->
                   majorityV3(ckt, <<Dest>>, <<Sig[1]>>, <<Sig[2]>>, <<Sig[3]>>)
              [] OTHER -> countGeneratorVector(ckt, DestV, Sig, NSig))

CircuitNext ==
    \/ AssocDeclare \/ AddAssociative \/ MultAssociative \/ Compare
    \/ MultiplierDeclare \/ MultiplierConvert \/ MultiplierBuild
    \/ MultiplierCheck
    \/ CountDeclare \/ CountNegate \/ CountCall

-----------------------------------------------------------------------------
(* The number a function of the jobs stands for, by arithmetic on numbers.*)
AssocRight ==
    LET v == Vectors(job.n)
        a == InNumber(v.a)
        b == InNumber(v.b)
        c == InNumber(v.c)
        r == IF job.prog = "addAssociative" THEN a + b + c ELSE a * b * c
    IN  At("compare") => /\ NumberOf(v.s) = r % 2 ^ job.n
                             /\ NumberOf(v.t) = r % 2 ^ job.n

MultiplierRight ==
    Done /\ job.prog = "Multiplier" =>
        NumberOf(Out) = NumberOf(A) * NumberOf(B) /\ ckt.differ = {}

CountRight ==
    LET n == InCount(Sig)
    IN  Done /\ job.prog \in CountJobs =>
          CASE job.prog = "exactly1" -> Get(Dest) = (n = 1)
            [] job.prog = "atMost1"  -> Get(Dest) = (n <= 1)
            [] job.prog = "atMostK"  -> Get(Dest) = (n <= job.k)
            [] job.prog = "okList"   -> Get(Dest) =
                                (n < Len(job.ok) /\ job.ok[n + 1])
            [] job.prog = "exactlyK" -> Get(Dest) = (n = job.k)
            [] job.prog = "norN"     -> Get(Dest) = (n = 0)
            [] job.prog = "majorityV3" -> Get(Dest) = (n >= 2)
            [] OTHER -> \A l \in 0 .. job.k : Get(DestV[l + 1]) = (n = l)
=============================================================================
