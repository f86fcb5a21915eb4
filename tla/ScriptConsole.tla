---------------------------- MODULE ScriptConsole ---------------------------
(***************************************************************************)
(* What a script does at the console (src/runbdd.c), for one assignment of *)
(* the variables: every name stands for the value of its function under    *)
(* that assignment.  A name is a tuple <<"root", index, ...>>, and         *)
(* <<"!", name>> is the complement of a name.                              *)
(*                                                                         *)
(* A console is a record: env, the values of the names it knows; var, the  *)
(* names that are bound to variables; stored, the values in files; errors, *)
(* the commands that failed; differ, the tests of equality that failed.    *)
(* Decision diagrams of different kinds (BDD, ZDD, ADD) with one value are *)
(* not told apart.                                                         *)
(***************************************************************************)
EXTENDS Integers, FiniteSets, SequencesExt

One  == <<"one">>
Zero == <<"zero">>
Neg(x) == <<"!", x>>
IsNeg(a) == a[1] = "!"
NameOf(a) == IF IsNeg(a) THEN a[2] ELSE a

InitConsole == [env |-> (One :> TRUE) @@ (Zero :> FALSE), var |-> {},
                stored |-> <<>>, errors |-> {}, differ |-> {}]

(* get_ref knows the names of nametable and their complements.            *)
Known(c, a) == NameOf(a) \in DOMAIN c.env
Value(c, a) == IF IsNeg(a) THEN ~c.env[a[2]] ELSE c.env[a]

Fail(c, what) == [c EXCEPT !.errors = @ \union {what}]

(* assign_ref: a name that is bound to its variable keeps it.             *)
Assign(c, x, v) ==
    IF x \in c.var THEN Fail(c, <<"redefines", x>>)
    ELSE [c EXCEPT !.env = (x :> v) @@ @]

-----------------------------------------------------------------------------
Conversions == {"zconvert", "aconvert"}

OddNumber(vals) == Cardinality({i \in DOMAIN vals : vals[i]}) % 2 = 1

(* What the commands that combine functions compute.                      *)
Combine(op, vals) ==
    CASE op \in {"and", "conjunct"} -> \A i \in DOMAIN vals : vals[i]
      [] op = "or"  -> \E i \in DOMAIN vals : vals[i]
      [] op = "xor" -> OddNumber(vals)
      [] op = "ite" -> IF vals[1] THEN vals[2] ELSE vals[3]
      [] op = "not" -> ~vals[1]
      [] op \in Conversions -> vals[1]

Arity(op, n) == CASE op = "ite" -> n = 3
                  [] op \in Conversions \union {"not"} -> n = 1
                  [] OTHER -> TRUE

(* A command whose arguments are not all known fails and assigns nothing. *)
Command(c, op, x, args) ==
    IF \/ ~Arity(op, Len(args))
       \/ \E i \in DOMAIN args : ~Known(c, args[i])
    THEN Fail(c, <<op, x>>)
    ELSE Assign(c, x, Combine(op, [i \in DOMAIN args |-> Value(c, args[i])]))

(* var binds each name to a new variable, whose value is in[name].        *)
DeclareOne(c, in, x) ==
    LET d == Assign(c, x, in[x])
    IN  [d EXCEPT !.var = @ \union {x}]

(* delete stops at the first name it does not find.                       *)
Delete(c, names) ==
    LET missing == {i \in DOMAIN names : names[i] \notin DOMAIN c.env
                        \/ \E j \in 1 .. i - 1 : names[j] = names[i]}
        last == IF missing = {} THEN Len(names)
                ELSE (CHOOSE i \in missing : \A j \in missing : i <= j) - 1
        gone == {names[i] : i \in 1 .. last}
        d == [c EXCEPT !.env = [x \in DOMAIN c.env \ gone |-> c.env[x]],
                       !.var = @ \ gone]
    IN  IF missing = {} THEN d ELSE Fail(d, <<"delete", names[last + 1]>>)

(* equal reports whether two functions are the same.                      *)
Equal(c, a, b) ==
    IF ~Known(c, a) \/ ~Known(c, b) THEN Fail(c, <<"equal", a>>)
    ELSE IF Value(c, a) = Value(c, b) THEN c
    ELSE [c EXCEPT !.differ = @ \union {<<a, b>>}]

(* count, information: reads that fail for an unknown name.               *)
Report(c, names) ==
    IF \A i \in DOMAIN names : Known(c, names[i]) THEN c
    ELSE Fail(c, <<"report", names>>)

Store(c, x, file) ==
    IF ~Known(c, x) THEN Fail(c, <<"store", x>>)
    ELSE [c EXCEPT !.stored = (file :> Value(c, x)) @@ @]

Load(c, x, file) ==
    IF file \notin DOMAIN c.stored THEN Fail(c, <<"load", x>>)
    ELSE Assign(c, x, c.stored[file])
=============================================================================
