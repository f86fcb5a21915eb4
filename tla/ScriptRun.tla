----------------------------- MODULE ScriptRun ------------------------------
(***************************************************************************)
(* A run of a program that writes a script, with the console that reads    *)
(* it.  job says which program runs and its parameters; when the script    *)
(* declares its variables, in takes their values, for which everything     *)
(* that follows is evaluated; phase is the next part of the script, with   *)
(* the index of a loop that is a part of its own at each round.            *)
(***************************************************************************)
EXTENDS Multiplier

CONSTANTS Jobs,      \* the programs to run, with their parameters
          MaxTrue    \* bound: variables that are true, when there are many

VARIABLES job, in, ckt, phase

vars == <<job, in, ckt, phase>>

Init == /\ job \in Jobs
        /\ in = <<>>
        /\ ckt = InitCircuit
        /\ phase = <<"declare", 0>>

(* The circuit holds objects that are never released: the program's own.  *)
HoldAll(c, objs) == FoldLeft(Hold, c, objs)

(* Every assignment of up to ten variables; of more, those with few true. *)
Inputs(names) ==
    IF Cardinality(names) <= 10 THEN [names -> BOOLEAN]
    ELSE {[x \in names |-> x \in t] : t \in UNION {kSubset(k, names) : k \in 0 .. MaxTrue}}

At(part) == phase = <<part, 0>>

(* The script declares names, for the values the model looks at.          *)
DeclareAs(c, names, next) ==
    /\ At("declare")
    /\ in' \in Inputs(ToSet(names))
    /\ ckt' = declare(c, in', names)
    /\ phase' = <<next, 0>>
    /\ UNCHANGED job

(* A part of the script; those of a loop have an index.                   *)
PartAt(here, i, next, j, c) ==
    /\ phase = <<here, i>>
    /\ ckt' = c
    /\ phase' = <<next, j>>
    /\ UNCHANGED <<job, in>>
Part(here, next, c) == PartAt(here, 0, next, 0, c)

Done == At("done")

(* The script has ended.                                                  *)
Stop == Done /\ UNCHANGED vars

Get(x) == ckt.env[x]
BitOf(x) == IF Get(x) THEN 1 ELSE 0
NumberOf(v) == Number([i \in DOMAIN v |-> BitOf(v[i])])
InNumber(v) == Number([i \in DOMAIN v |-> IF in[v[i]] THEN 1 ELSE 0])
InCount(v) == Cardinality({i \in DOMAIN v : in[v[i]]})
Left == DOMAIN ckt.env \ {One, Zero}
=============================================================================
