------------------------------- MODULE Netlist ------------------------------
(***************************************************************************)
(* The circuits of the ISCAS85 benchmarks (benchmarks/iscas85/iscnet.py):  *)
(* reading a file, ordering the inputs, and evaluating the gates, each     *)
(* function being deleted when it has been used as often as the file says. *)
(*                                                                         *)
(* A line of the file describes a gate [adr, name, type, fanout], gives    *)
(* the gate before another address [adr, type |-> "from"], or lists the    *)
(* addresses of a gate's inputs [adrs].  A job has the lines, whether the  *)
(* inputs are reordered, and the kind of the functions.                    *)
(***************************************************************************)
EXTENDS ScriptRun

(* Gate types: their operation, and the arguments that are complemented.   *)
gateOp(t) == CASE t \in {"and", "nor", "buff"} -> "and"
               [] t \in {"or", "nand"}   -> "or"
               [] t \in {"xor", "xnor"}  -> "xor"
               [] t = "not" -> "not"
compInput(t) == t \in {"nand", "nor"}
compFirst(t) == t = "xnor"

-----------------------------------------------------------------------------
(* readFile.  A gate refers to the gates of its inputs by their numbers.   *)
NoNetlist == [gates |-> <<>>, address |-> <<>>, needInput |-> FALSE, ok |-> TRUE]

ReadInputs(net, line) ==
    LET known == SelectSeq(line.adrs, LAMBDA a : a \in DOMAIN net.address)
    IN  [net EXCEPT !.gates[Len(net.gates)].inputs = [n \in DOMAIN known |-> net.address[known[n]]],
                    !.ok = @ /\ Len(known) = Len(line.adrs),
                    !.needInput = FALSE]
ReadBranch(net, line) == [net EXCEPT !.address = (line.adr :> Len(net.gates)) @@ @]
ReadGate(net, line) ==
    [net EXCEPT !.gates = Append(@, [name |-> line.name, type |-> line.type,
                                     fanoutCount |-> line.fanout, inputs |-> <<>>]),
                !.address = (line.adr :> Len(net.gates) + 1) @@ @,
                !.needInput = line.type # "inpt"]
ReadLine(net, line) ==
    IF net.needInput THEN ReadInputs(net, line)
    ELSE IF line.type = "from" THEN ReadBranch(net, line) ELSE ReadGate(net, line)
readFile(lines) == FoldLeft(ReadLine, NoNetlist, lines)

numbers(net) == [n \in DOMAIN net.gates |-> n]
fileInputs(net) == SelectSeq(numbers(net), LAMBDA n : net.gates[n].type = "inpt")
outputs(net) == SelectSeq(numbers(net), LAMBDA n : net.gates[n].fanoutCount = 0)

-----------------------------------------------------------------------------
(* reorder.  A gate's level is its distance from the last gate after it;   *)
(* its depth is the highest level of the gates before it.                  *)
levels(net) ==
    LET level[n \in DOMAIN net.gates] ==
            Max({0} \union {level[m] + 1 : m \in {h \in DOMAIN net.gates : n \in Range(net.gates[h].inputs)}})
    IN  level
depths(net) ==
    LET level == levels(net)
        maxdepth[n \in DOMAIN net.gates] ==
            Max({level[n]} \union {maxdepth[m] : m \in Range(net.gates[n].inputs)})
    IN  maxdepth

(* The inputs in the order a traversal meets them, deepest gates first.    *)
deepestFirst(list, maxdepth) ==
    LET order == SortSeq([n \in DOMAIN list |-> n],
                         LAMBDA a, b : \/ maxdepth[list[a]] > maxdepth[list[b]]
                                       \/ maxdepth[list[a]] = maxdepth[list[b]] /\ a < b)
    IN  [n \in DOMAIN list |-> list[order[n]]]

RECURSIVE reorderTraverse(_, _, _, _)
reorderTraverse(net, maxdepth, t, list) ==
    LET visit(s, n) ==
            IF n \in s.visited THEN s
            ELSE LET u == [s EXCEPT !.visited = @ \union {n}]
                 IN  IF net.gates[n].type = "inpt" THEN [u EXCEPT !.sofar = Append(@, n)]
                     ELSE reorderTraverse(net, maxdepth, u, net.gates[n].inputs)
    IN  FoldLeft(visit, t, deepestFirst(list, maxdepth))

(* Inputs that no output depends on are lost here, those of the file that  *)
(* were to follow being looked for in the wrong list.                      *)
reorder(net) == reorderTraverse(net, depths(net), [visited |-> {}, sofar |-> <<>>], outputs(net)).sofar

(* A job's netlist is read, and its inputs are ordered, once.              *)
NetOf(j) == LET net == readFile(j.file)
            IN  net @@ [inputs |-> IF j.reorder THEN reorder(net) ELSE fileInputs(net),
                        outputs |-> outputs(net)]
Nets == FoldSet(LAMBDA j, f : (j :> NetOf(j)) @@ f, <<>>, {k \in Jobs : k.prog = "iscnet"})
Gate(n) == Nets[job].gates[n]
inputs == Nets[job].inputs

-----------------------------------------------------------------------------
name(n) == <<"g", Gate(n).name>>
variable(n) == IF job.zdd = "none" THEN name(n) ELSE <<"v_", Gate(n).name>>
Names(list) == [k \in DOMAIN list |-> name(list[k])]

(* decl: the inputs are declared, and converted unless they are BDDs.      *)
NetDeclare ==
    /\ job.prog = "iscnet" /\ At("declare") /\ Nets[job].ok
    /\ DeclareAs(ckt, [k \in DOMAIN inputs |-> variable(inputs[k])], "net-convert")
NetConvert ==
    LET vars1 == [k \in DOMAIN inputs |-> variable(inputs[k])]
    IN  Part("net-convert", "gates",
             CASE job.zdd = "zdd" -> zcV(ckt, Names(inputs), vars1)
               [] job.zdd = "add" -> acV(ckt, Names(inputs), vars1)
               [] OTHER -> ckt)

cmd(c, n) ==
    LET g == Gate(n)
        arg(k) == IF compInput(g.type) \/ (compFirst(g.type) /\ k = 1) THEN Neg(name(g.inputs[k]))
                  ELSE name(g.inputs[k])
    IN  Command(c, gateOp(g.type), name(n), [k \in DOMAIN g.inputs |-> arg(k)])

(* refs: how often m has been used when gate n has taken its first inputs. *)
\* (mutant) a use is counted twice
refsAhead(m, n, k) ==
    1 + Cardinality({<<h, j>> \in (1 .. n) \X (1 .. Max({0} \union {Len(Gate(h).inputs) : h \in 1 .. n})) :
                   j \in DOMAIN Gate(h).inputs /\ (h < n \/ j <= k) /\ Gate(h).inputs[j] = m})
refs(m, n, k) ==
    Cardinality({<<h, j>> \in (1 .. n) \X (1 .. Max({0} \union {Len(Gate(h).inputs) : h \in 1 .. n})) :
                   j \in DOMAIN Gate(h).inputs /\ (h < n \/ j <= k) /\ Gate(h).inputs[j] = m})

(* genGates, one gate at a time.                                           *)
NetGate ==
    LET n == phase[2] + 1
        release(c, k) ==
            LET m == Gate(n).inputs[k]
            IN  IF Gate(m).type # "inpt" /\ refs(m, n, k) = Gate(m).fanoutCount
                THEN Delete(c, <<name(m)>>) ELSE c
        more == n < Len(Nets[job].gates)
    IN  /\ job.prog = "iscnet" /\ phase[1] = "gates"
        /\ PartAt("gates", phase[2], IF more THEN "gates" ELSE "finish-net", IF more THEN n ELSE 0,
                  IF Gate(n).type = "inpt" THEN ckt
                  ELSE FoldLeft(release, cmd(ckt, n), Upto(Len(Gate(n).inputs))))

NetFinish == Part("finish-net", "done", Report(ckt, Names(Nets[job].outputs)))

NetlistNext == NetDeclare \/ NetConvert \/ NetGate \/ NetFinish

-----------------------------------------------------------------------------
(* The value of a gate, by the meaning of its type.                        *)
RECURSIVE Meaning(_)
Meaning(n) ==
    LET g == Gate(n)
        on == {k \in DOMAIN g.inputs : Meaning(g.inputs[k])}
    IN  CASE g.type = "inpt" -> in[variable(n)]
          [] g.type = "and"  -> on = DOMAIN g.inputs
          [] g.type = "nand" -> on # DOMAIN g.inputs
          [] g.type = "or"   -> on # {}
          [] g.type = "nor"  -> on = {}
          [] g.type = "xor"  -> Cardinality(on) % 2 = 1
          [] g.type = "xnor" -> Cardinality(on) % 2 = 0
          [] g.type = "buff" -> on # {}
          [] g.type = "not"  -> on = {}

(* The outputs have the values the file describes, no function having been *)
(* deleted before its last use, and no gate but the outputs is left.       *)
NetlistRight ==
    Done /\ job.prog = "iscnet" =>
        /\ \A n \in Range(Nets[job].outputs) : name(n) \in DOMAIN ckt.env /\ Get(name(n)) = Meaning(n)
        /\ \A x \in Left : \/ x \in Range(Names(Nets[job].outputs))
                          \/ \E n \in DOMAIN Nets[job].gates :
                                Gate(n).type = "inpt" /\ x \in {name(n), variable(n)}
=============================================================================
