--------------------------- MODULE DistITEProofs ----------------------------
(***************************************************************************)
(* Proofs about distributed ITE, for any workers, clients, variables, hash *)
(* functions and requests, and for any order of the messages: the caches   *)
(* are never wrong and no node is missing.  No message says what it is for.*)
(* The argument gives every slot of every operator a meaning when its      *)
(* identifier is handed out, and shows that everything that is ever sent   *)
(* there has it.                                                           *)
(***************************************************************************)
EXTENDS DistITEProperties, BDDRefProofs, SequenceTheorems

(***************************************************************************)
(* A world is what the messages of a moment rely on: which identifiers have*)
(* been handed out, which nodes are stored, what every slot is to receive, *)
(* and a rank that rises from every operator's destination to the operator.*)
(* The last two are no variables of the program; the invariant says that   *)
(* some such functions are right.                                          *)
(***************************************************************************)
Id == [agent : Agent, seq : Nat]

Worlds == [meaning : [Id -> [Nat -> Ref]],
           rank    : [Id -> Nat],
           seq     : [Agent -> 0 .. IdLimit - 1],
           nodes   : [Worker -> SUBSET Ref]]

(* An identifier that has been handed out.                                 *)
Issued(C, id) == id \in Id /\ id.seq < C.seq[id.agent]

(* A reference the program may hold: its node, if it has one, is at its    *)
(* worker.                                                                 *)
StoredIn(C, r) == /\ r \in Ref
                  /\ REF_IS_FUNCT(r) => /\ HomeRef(r) \in Worker
                                        /\ REF_ABSVAL(r) \in C.nodes[HomeRef(r)]

(* A node a worker may hold: regular, with children that are stored.       *)
NodeIn(C, n) == /\ n \in Ref /\ ~REF_GET_NEG(n)
                /\ StoredIn(C, Children(n)[1]) /\ StoredIn(C, Children(n)[2])

(* A destination, with the value it is to receive.                         *)
Awaits(C, d, r) == /\ d \in [agent : Agent, id : Id, offset : Nat]
                   /\ Issued(C, d.id) /\ C.meaning[d.id][d.offset] = r
                   /\ d.agent \in Client => d.offset = 0

(* What an operator with this opcode is to compute from its slots.         *)
Task(C, op, a) ==
    LET slot == C.meaning[op.id]
        arg  == op.arg
    IN  \/ /\ op.code = "ITE_LOOKUP"
           /\ StoredIn(C, arg.i) /\ StoredIn(C, arg.t) /\ StoredIn(C, arg.e)
           /\ arg.i # REF_ONE /\ arg.i # REF_ZERO /\ arg.neg \in BOOLEAN
           /\ Awaits(C, op.dest, Signed(Ite(arg.i, arg.t, arg.e), arg.neg))
        \/ /\ op.code = "RETRIEVE_LOOKUP"
           /\ StoredIn(C, arg.ref) /\ REF_IS_FUNCT(arg.ref) /\ a = HomeRef(arg.ref)
           /\ Awaits(C, op.dest, Children(arg.ref)[1])
           /\ C.meaning[op.dest.id][op.dest.offset + 1] = Children(arg.ref)[2]
        \/ /\ op.code = "ITE_RECURSE"
           /\ arg.var \in Var /\ \A o \in 1 .. 6 : Below(arg.var, slot[o])
           /\ Awaits(C, op.dest, Node(arg.var, Ite(slot[1], slot[3], slot[5]),
                                               Ite(slot[2], slot[4], slot[6])))
        \/ /\ op.code = "CANONIZE"
           /\ arg.var \in Var /\ Below(arg.var, slot[1]) /\ Below(arg.var, slot[2])
           /\ Awaits(C, op.dest, Node(arg.var, slot[1], slot[2]))
        \/ /\ op.code = "CANONIZE_LOOKUP"
           /\ NodeIn(C, arg.node) /\ arg.neg \in BOOLEAN /\ a = HomeNode(arg.node)
           /\ Awaits(C, op.dest, Signed(arg.node, arg.neg))
        \/ /\ op.code = "ITE_STORE"
           /\ arg.i \in Ref /\ arg.t \in Ref /\ arg.e \in Ref /\ arg.neg \in BOOLEAN
           /\ slot[3] = Ite(arg.i, arg.t, arg.e)
           /\ Awaits(C, op.dest, Signed(Ite(arg.i, arg.t, arg.e), arg.neg))

(* Data for the slots of id is what they are to receive.                   *)
Right(C, id, data) == \A o \in DOMAIN data : /\ o \in Nat /\ data[o] = C.meaning[id][o]
                                             /\ StoredIn(C, data[o])

(* An operator that is right: its filled slots are, and so is what it will *)
(* send, to an operator of lower rank or a client.                         *)
OperatorIn(C, op, a) ==
    /\ op = [code |-> op.code, id |-> op.id, dest |-> op.dest, arg |-> op.arg,
             data |-> op.data]
    /\ Issued(C, op.id) /\ Right(C, op.id, op.data) /\ Task(C, op, a)
    /\ C.rank[op.dest.id] < C.rank[op.id]

(* An operand that is right.                                               *)
OperandIn(C, m) == /\ Issued(C, m.id) /\ Right(C, m.id, m.data)
                   /\ m.to \in Client => 0 \in DOMAIN m.data

(* A message that is right.                                                *)
MessageIn(C, m) == \/ m.kind = "operation" /\ OperatorIn(C, m.op, m.to)
                   \/ m.kind = "operand" /\ OperandIn(C, m)

-----------------------------------------------------------------------------
(* As time goes by, identifiers are handed out and nodes are stored, and   *)
(* what was promised for an identifier stays.                              *)
Later(C, D) == /\ C \in Worlds /\ D \in Worlds
               /\ \A a \in Agent : C.seq[a] =< D.seq[a]
               /\ \A w \in Worker : C.nodes[w] \subseteq D.nodes[w]
               /\ \A id \in Id : Issued(C, id) => /\ D.meaning[id] = C.meaning[id]
                                                 /\ D.rank[id] = C.rank[id]

(* What is stored, issued or awaited stays so.                             *)
LEMMA LaterKeeps ==
    ASSUME NEW C, NEW D, Later(C, D)
    PROVE  /\ \A id : Issued(C, id) => /\ Issued(D, id) /\ D.meaning[id] = C.meaning[id]
                                      /\ D.rank[id] = C.rank[id]
           /\ \A r : StoredIn(C, r) => StoredIn(D, r)
           /\ \A n : NodeIn(C, n) => NodeIn(D, n)
           /\ \A d, r : Awaits(C, d, r) => Awaits(D, d, r)
<1>1. ASSUME NEW id, Issued(C, id)
      PROVE  Issued(D, id) /\ D.meaning[id] = C.meaning[id] /\ D.rank[id] = C.rank[id]
  <2>1. id \in Id /\ id.agent \in Agent /\ id.seq \in Nat /\ id.seq < C.seq[id.agent]
    BY <1>1 DEF Issued, Id
  <2>2. C.seq[id.agent] \in 0 .. IdLimit - 1 /\ D.seq[id.agent] \in 0 .. IdLimit - 1
    BY <2>1 DEF Later, Worlds
  <2>3. C.seq[id.agent] =< D.seq[id.agent]
    BY <2>1 DEF Later
  <2>4. id.seq < D.seq[id.agent]
    BY <2>1, <2>2, <2>3, DataflowAssumption
  <2> QED BY <1>1, <2>1, <2>4 DEF Issued, Later
<1>2. \A r : StoredIn(C, r) => StoredIn(D, r)
  BY DEF StoredIn, Later
<1>3. \A n : NodeIn(C, n) => NodeIn(D, n)
  BY <1>2 DEF NodeIn
<1>4. \A d, r : Awaits(C, d, r) => Awaits(D, d, r)
  BY <1>1 DEF Awaits
<1> QED BY <1>1, <1>2, <1>3, <1>4

(* An operator's destination has been handed out.                          *)
LEMMA TaskIssued == ASSUME NEW C, NEW op, NEW a, Task(C, op, a)
                    PROVE  \E r : Awaits(C, op.dest, r)
<1>1. \A r : Awaits(C, op.dest, r) => \E x : Awaits(C, op.dest, x)
  OBVIOUS
<1> QED BY <1>1 DEF Task

(* What is right in a world is right in a later one.                       *)
LEMMA MessageKeeps ==
    ASSUME NEW C, NEW D, Later(C, D)
    PROVE  /\ \A id, data : Issued(C, id) /\ Right(C, id, data) => Right(D, id, data)
           /\ \A op, a : OperatorIn(C, op, a) => OperatorIn(D, op, a)
           /\ \A m : OperandIn(C, m) => OperandIn(D, m)
           /\ \A m : MessageIn(C, m) => MessageIn(D, m)
<1>1. ASSUME NEW id, NEW data, Issued(C, id), Right(C, id, data) PROVE Right(D, id, data)
  BY <1>1, LaterKeeps DEF Right
<1>2. ASSUME NEW op, NEW a, OperatorIn(C, op, a) PROVE OperatorIn(D, op, a)
  <2>1. Issued(D, op.id) /\ D.meaning[op.id] = C.meaning[op.id]
    BY <1>2, LaterKeeps DEF OperatorIn
  <2>2. Right(D, op.id, op.data)
    BY <1>1, <1>2 DEF OperatorIn
  <2>3. op.code = "RETRIEVE_LOOKUP" /\ Awaits(C, op.dest, Children(op.arg.ref)[1]) =>
            D.meaning[op.dest.id] = C.meaning[op.dest.id]
    BY LaterKeeps DEF Awaits
  <2>4. Task(D, op, a)
    BY <1>2, <2>1, <2>3, LaterKeeps DEF OperatorIn, Task
  <2>5. D.rank[op.id] = C.rank[op.id] /\ D.rank[op.dest.id] = C.rank[op.dest.id]
    <3>1. Issued(C, op.dest.id) /\ Issued(C, op.id)
      BY <1>2, TaskIssued DEF OperatorIn, Awaits
    <3> QED BY <3>1, LaterKeeps
  <2> QED BY <1>2, <2>1, <2>2, <2>4, <2>5 DEF OperatorIn
<1>3. \A m : OperandIn(C, m) => OperandIn(D, m)
  BY <1>1, LaterKeeps DEF OperandIn
<1> QED BY <1>1, <1>2, <1>3 DEF MessageIn

-----------------------------------------------------------------------------
(* Sequences of messages that a handler has still to send, and lists of    *)
(* deferred operands for an identifier.                                    *)
AllIn(C, s) == \E S : s \in Seq(S) /\ \A m \in S : MessageIn(C, m) \/ m.kind = "retire"

ListIn(C, id, ls) == \E S : /\ ls \in Seq(S)
                            /\ \A m \in S : m.kind = "operand" /\ m.id = id /\ OperandIn(C, m)

(* The tables of the runtime hold only what is right.                      *)
RuntimeIn(C) ==
    /\ DOMAIN agenda = Worker /\ DOMAIN operator_table = Worker
    /\ DOMAIN deferred_operand_table = Worker
    /\ \A m \in DOMAIN net : MessageIn(C, m)
    /\ \A w \in Worker : AllIn(C, agenda[w])
    /\ \A w \in Worker : \A id \in DOMAIN operator_table[w] :
           operator_table[w][id].id = id /\ OperatorIn(C, operator_table[w][id], w)
    /\ \A w \in Worker : \A id \in DOMAIN deferred_operand_table[w] :
           ListIn(C, id, deferred_operand_table[w][id])

(* Agendas: the empty one, one message, one after the other, and the rest. *)
LEMMA Sequences ==
    ASSUME NEW C
    PROVE  /\ AllIn(C, <<>>)
           /\ \A m : MessageIn(C, m) \/ m.kind = "retire" => AllIn(C, <<m>>)
           /\ \A s, t : AllIn(C, s) /\ AllIn(C, t) => AllIn(C, s \o t)
           /\ \A s : AllIn(C, s) /\ s # <<>> =>
                  /\ AllIn(C, Tail(s))
                  /\ MessageIn(C, Head(s)) \/ Head(s).kind = "retire"
<1>1. AllIn(C, <<>>)
  <2> DEFINE S == {}
  <2>1. <<>> \in Seq(S) /\ \A m \in S : MessageIn(C, m) \/ m.kind = "retire"
    OBVIOUS
  <2> HIDE DEF S
  <2> QED BY <2>1 DEF AllIn
<1>2. ASSUME NEW m, MessageIn(C, m) \/ m.kind = "retire" PROVE AllIn(C, <<m>>)
  <2> DEFINE S == {m}
  <2>1. <<m>> \in Seq(S) /\ \A x \in S : MessageIn(C, x) \/ x.kind = "retire"
    BY <1>2
  <2> HIDE DEF S
  <2> QED BY <1>2, <2>1 DEF AllIn
<1>3. ASSUME NEW s, NEW t, AllIn(C, s), AllIn(C, t) PROVE AllIn(C, s \o t)
  <2>1. PICK S : s \in Seq(S) /\ \A m \in S : MessageIn(C, m) \/ m.kind = "retire"
    BY <1>3 DEF AllIn
  <2>2. PICK T : t \in Seq(T) /\ \A m \in T : MessageIn(C, m) \/ m.kind = "retire"
    BY <1>3 DEF AllIn
  <2>3. s \in Seq(S \cup T) /\ t \in Seq(S \cup T)
    BY <2>1, <2>2
  <2>4. s \o t \in Seq(S \cup T)
    BY <2>3
  <2> QED BY <2>1, <2>2, <2>4 DEF AllIn
<1>4. ASSUME NEW s, AllIn(C, s), s # <<>>
      PROVE  AllIn(C, Tail(s)) /\ (MessageIn(C, Head(s)) \/ Head(s).kind = "retire")
  <2>1. PICK S : s \in Seq(S) /\ \A m \in S : MessageIn(C, m) \/ m.kind = "retire"
    BY <1>4 DEF AllIn
  <2>2. Head(s) \in S /\ Tail(s) \in Seq(S)
    BY <1>4, <2>1
  <2> QED BY <2>1, <2>2 DEF AllIn
<1> QED BY <1>1, <1>2, <1>3, <1>4

(* A deferred operand enters the list of its identifier.                   *)
LEMMA Lists ==
    ASSUME NEW C, NEW id
    PROVE  /\ ListIn(C, id, <<>>)
           /\ \A ls, m : ListIn(C, id, ls) /\ m.kind = "operand" /\ m.id = id /\ OperandIn(C, m) =>
                  ListIn(C, id, IF ls = <<>> THEN <<m>> ELSE <<Head(ls), m>> \o Tail(ls))
<1>1. ListIn(C, id, <<>>)
  <2> DEFINE S == {}
  <2>1. /\ <<>> \in Seq(S)
        /\ \A m \in S : m.kind = "operand" /\ m.id = id /\ OperandIn(C, m)
    OBVIOUS
  <2> HIDE DEF S
  <2> QED BY <2>1 DEF ListIn
<1>2. ASSUME NEW ls, NEW m, ListIn(C, id, ls), m.kind = "operand", m.id = id, OperandIn(C, m)
      PROVE  ListIn(C, id, IF ls = <<>> THEN <<m>> ELSE <<Head(ls), m>> \o Tail(ls))
  <2>1. PICK S : ls \in Seq(S) /\ \A x \in S : x.kind = "operand" /\ x.id = id /\ OperandIn(C, x)
    BY <1>2 DEF ListIn
  <2> DEFINE T == S \cup {m}
  <2>2. <<m>> \in Seq(T)
    OBVIOUS
  <2>3. ls # <<>> => <<Head(ls), m>> \o Tail(ls) \in Seq(T)
    <3> SUFFICES ASSUME ls # <<>> PROVE <<Head(ls), m>> \o Tail(ls) \in Seq(T)
      OBVIOUS
    <3>1. Head(ls) \in S /\ Tail(ls) \in Seq(S)
      BY <2>1
    <3>2. <<Head(ls), m>> \in Seq(T) /\ Tail(ls) \in Seq(T)
      BY <3>1
    <3> QED BY <3>2
  <2>4. \A x \in T : x.kind = "operand" /\ x.id = id /\ OperandIn(C, x)
    BY <1>2, <2>1
  <2> HIDE DEF T
  <2> QED BY <2>2, <2>3, <2>4 DEF ListIn
<1> QED BY <1>1, <1>2

(* Both stay as time goes by.                                              *)
LEMMA SequenceKeeps ==
    ASSUME NEW C, NEW D, Later(C, D)
    PROVE  /\ \A s : AllIn(C, s) => AllIn(D, s)
           /\ \A id, ls : ListIn(C, id, ls) => ListIn(D, id, ls)
  BY MessageKeeps DEF AllIn, ListIn

(* A bounded non-empty set of naturals has a greatest member.              *)
LEMMA NatMax ==
    ASSUME NEW S \in SUBSET Nat, S # {}, NEW b \in Nat, \A x \in S : x =< b
    PROVE  \E x \in S : \A y \in S : y =< x
<1> DEFINE T == {b - x : x \in S}
<1>1. T \in SUBSET Nat /\ T # {}
  <2>1. \A x \in S : b - x \in Nat
    OBVIOUS
  <2> QED BY <2>1
<1>2. PICK z \in T : \A y \in T : z =< y
  <2> HIDE DEF T
  <2> QED BY <1>1, NatMin
<1>3. PICK x \in S : z = b - x
  BY <1>2
<1>4. ASSUME NEW y \in S PROVE y =< x
  <2>1. b - x =< b - y
    BY <1>2, <1>3
  <2>2. x \in Nat /\ y \in Nat
    OBVIOUS
  <2> HIDE DEF T
  <2> QED BY <2>1, <2>2
<1> QED BY <1>4

(* An operator with the operands of a list is right, when both are.        *)
LEMMA InsertIn ==
    ASSUME NEW C, NEW op, NEW a, OperatorIn(C, op, a), NEW new, Right(C, op.id, new)
    PROVE  LET r == [op EXCEPT !.data = Fill(@, new)]
           IN  OperatorIn(C, r, a) /\ r.id = op.id
<1> DEFINE d == Fill(op.data, new)
           r == [op EXCEPT !.data = Fill(@, new)]
<1>1. r = [code |-> op.code, id |-> op.id, dest |-> op.dest, arg |-> op.arg, data |-> d]
  BY DEF OperatorIn
<1>2. Right(C, op.id, d)
  BY DEF OperatorIn, Right, Fill
<1> HIDE DEF d, r
<1>3. Task(C, r, a)
  <2>1. Task(C, op, a)
    BY DEF OperatorIn
  <2>2. r.code = op.code /\ r.id = op.id /\ r.dest = op.dest /\ r.arg = op.arg
    BY <1>1
  <2> QED BY <2>1, <2>2 DEF Task
<1>4. /\ r.id = op.id /\ r.data = d /\ Issued(C, op.id) /\ r.dest = op.dest
      /\ C.rank[op.dest.id] < C.rank[op.id]
  BY <1>1 DEF OperatorIn
<1>5. OperatorIn(C, r, a)
  BY <1>1, <1>2, <1>3, <1>4 DEF OperatorIn
<1> QED BY <1>4, <1>5 DEF r

(* The same for the list of the deferred operands.                         *)
LEMMA InsertAllIn ==
    ASSUME NEW C, NEW op, NEW a, OperatorIn(C, op, a), NEW ls, ListIn(C, op.id, ls)
    PROVE  OperatorIn(C, InsertAll(op, ls), a) /\ InsertAll(op, ls).id = op.id
<1>1. PICK S : ls \in Seq(S) /\ \A m \in S : m.kind = "operand" /\ m.id = op.id /\ OperandIn(C, m)
  BY DEF ListIn
<1> DEFINE Fills(n, o) == n \in DOMAIN ls /\ o \in DOMAIN ls[n].data
           Last(o) == CHOOSE n \in DOMAIN ls :
                          Fills(n, o) /\ \A k \in DOMAIN ls : Fills(k, o) => k =< n
           data == [o \in UNION {DOMAIN ls[n].data : n \in DOMAIN ls} |-> ls[Last(o)].data[o]]
<1>2. ASSUME NEW o \in UNION {DOMAIN ls[n].data : n \in DOMAIN ls}
      PROVE  Last(o) \in DOMAIN ls /\ o \in DOMAIN ls[Last(o)].data
  <2> DEFINE F == {n \in DOMAIN ls : Fills(n, o)}
  <2>1. DOMAIN ls = 1 .. Len(ls) /\ Len(ls) \in Nat
    BY <1>1
  <2>2. F \in SUBSET Nat /\ F # {} /\ \A n \in F : n =< Len(ls)
    BY <2>1
  <2>3. PICK n \in F : \A k \in F : k =< n
    <3> HIDE DEF F
    <3> QED BY <2>1, <2>2, NatMax
  <2>4. n \in DOMAIN ls /\ Fills(n, o) /\ \A k \in DOMAIN ls : Fills(k, o) => k =< n
    BY <2>3
  <2> HIDE DEF F
  <2>5. Last(o) \in DOMAIN ls /\ Fills(Last(o), o)
    BY <2>4
  <2> QED BY <2>5
<1>3. \A n \in DOMAIN ls : ls[n] \in S
  BY <1>1
<1>4. Right(C, op.id, data)
  <2> SUFFICES ASSUME NEW o \in DOMAIN data
               PROVE  o \in Nat /\ data[o] = C.meaning[op.id][o] /\ StoredIn(C, data[o])
    BY DEF Right
  <2> DEFINE m == ls[Last(o)]
  <2>1. m \in S /\ o \in DOMAIN m.data /\ data[o] = m.data[o]
    BY <1>2, <1>3
  <2>2. Right(C, op.id, m.data)
    BY <1>1, <2>1 DEF OperandIn
  <2> HIDE DEF m, data
  <2> QED BY <2>1, <2>2 DEF Right
<1>5. InsertAll(op, ls) = [op EXCEPT !.data = Fill(@, data)]
  BY DEF InsertAll
<1> HIDE DEF data
<1> QED BY <1>4, <1>5, InsertIn

-----------------------------------------------------------------------------
(* The runtime, whatever the operators do.                                 *)

(* What a worker may receive, and the operator that comes of it.           *)
LEMMA ArrivalIn ==
    ASSUME NEW C, RuntimeIn(C), NEW w \in Worker, NEW m \in Arrival(w)
    PROVE  m.to = w /\ (MessageIn(C, m) \/ m.kind = "retire")
<1>1. CASE agenda[w] = <<>>
  BY <1>1 DEF Arrival, RuntimeIn, BagToSet
<1>2. CASE agenda[w] # <<>>
  <2>1. m = Head(agenda[w]) /\ m.to = w
    BY <1>2 DEF Arrival, SelfRouted
  <2>2. AllIn(C, agenda[w])
    BY DEF RuntimeIn
  <2> QED BY <1>2, <2>1, <2>2, Sequences
<1> QED BY <1>1, <1>2

(* The operator that a message makes or completes is right, and has the    *)
(* identifier the table knows it by.                                       *)
LEMMA AcceptedIn ==
    ASSUME NEW C, RuntimeIn(C), NEW w \in Worker, NEW m \in Arrival(w), Matched(w, m)
    PROVE  /\ OperatorIn(C, Accepted(w, m), w)
           /\ \/ /\ m.kind = "operation" /\ MessageIn(C, m)
                 /\ Accepted(w, m).id = m.op.id /\ m.op.id \notin DOMAIN operator_table[w]
              \/ /\ m.kind = "operand" /\ MessageIn(C, m)
                 /\ Accepted(w, m).id = m.id /\ m.id \in DOMAIN operator_table[w]
<1>1. m.to = w /\ (MessageIn(C, m) \/ m.kind = "retire")
  BY ArrivalIn
<1>2. CASE m.kind = "operation"
  <2>1. OperatorIn(C, m.op, w) /\ MessageIn(C, m)
    BY <1>1, <1>2 DEF MessageIn
  <2>2. /\ m.op.id \notin DOMAIN operator_table[w]
        /\ Accepted(w, m) = InsertAll(m.op, Deferred(w, m.op.id))
    BY <1>2 DEF Accepted, Matched
  <2>3. ListIn(C, m.op.id, Deferred(w, m.op.id))
    BY Lists DEF Deferred, RuntimeIn
  <2> QED BY <1>2, <2>1, <2>2, <2>3, InsertAllIn
<1>3. CASE m.kind = "operand"
  <2>1. OperandIn(C, m) /\ MessageIn(C, m)
    BY <1>1, <1>3 DEF MessageIn
  <2>2. /\ m.id \in DOMAIN operator_table[w]
        /\ Accepted(w, m) = op_insert_operand(operator_table[w][m.id], m)
    BY <1>3 DEF Accepted, Matched
  <2> DEFINE op == operator_table[w][m.id]
  <2>3. op.id = m.id /\ OperatorIn(C, op, w)
    BY <2>2 DEF RuntimeIn
  <2>4. Right(C, op.id, m.data)
    BY <2>1, <2>3 DEF OperandIn
  <2> HIDE DEF op
  <2>5. /\ OperatorIn(C, op_insert_operand(op, m), w)
        /\ op_insert_operand(op, m).id = op.id
    BY <2>3, <2>4, InsertIn DEF op_insert_operand
  <2> QED BY <1>3, <2>1, <2>2, <2>3, <2>5 DEF op
<1>4. CASE m.kind \notin {"operation", "operand"}
  BY <1>4 DEF Accepted, Matched
<1> QED BY <1>2, <1>3, <1>4

(* A firing operator is full: its slots hold what they were to receive.    *)
LEMMA FiringIn ==
    ASSUME NEW C, RuntimeIn(C), NEW w \in Worker, NEW code \in Opcodes, NEW f \in Firings(w, code)
    PROVE  /\ f.msg \in Arrival(w) /\ f.op = Accepted(w, f.msg) /\ Matched(w, f.msg)
           /\ f.op.code = code /\ OperatorIn(C, f.op, w)
           /\ \A o \in IteSlots(code) : f.op.data[o] = C.meaning[f.op.id][o]
                                        /\ StoredIn(C, f.op.data[o])
<1>1. /\ f.msg \in Arrival(w) /\ f.op = Accepted(w, f.msg) /\ Matched(w, f.msg)
      /\ f.op.code = code /\ op_check_full(f.op)
  BY DEF Firings
<1>2. OperatorIn(C, f.op, w)
  BY <1>1, AcceptedIn
<1>3. DOMAIN f.op.data = IteSlots(code)
  BY <1>1, IteAssumption DEF op_check_full
<1> QED BY <1>1, <1>2, <1>3 DEF OperatorIn, Right

-----------------------------------------------------------------------------
(* The members of a bag that gains or loses one.                           *)
LEMMA BagDomains ==
    ASSUME NEW B, NEW x
    PROVE  /\ DOMAIN (B (+) SetToBag({x})) = DOMAIN B \cup {x}
           /\ DOMAIN (B (-) SetToBag({x})) \subseteq DOMAIN B
  BY DEF (+), (-), SetToBag

(* The runtime goes on in a later world.                                   *)
LEMMA RuntimeKeeps ==
    ASSUME NEW C, NEW D, Later(C, D), RuntimeIn(C), UNCHANGED runtimeVars
    PROVE  RuntimeIn(D)'
  BY MessageKeeps, SequenceKeeps DEF RuntimeIn, runtimeVars

(* Taking a message adds none.                                             *)
LEMMA TookIn ==
    ASSUME NEW w, NEW m
    PROVE  DOMAIN Took(w, m) \subseteq DOMAIN net
  BY BagDomains DEF Took

(* A message that fires nothing is put into a table.                       *)
LEMMA QueueKeeps ==
    ASSUME NEW C, RuntimeIn(C), NEW w \in Worker, Queue(w)
    PROVE  RuntimeIn(C)'
<1>1. PICK m \in Arrival(w) :
        LET op == Accepted(w, m) IN
        /\ m.kind \in {"operation", "operand"}
        /\ Matched(w, m) => ~op_check_full(op)
        /\ IF Matched(w, m)
           THEN operator_table' = [operator_table EXCEPT ![w] = keyvalue_insert(@, op.id, op)]
           ELSE UNCHANGED operator_table
        /\ CASE m.kind = "operand" /\ ~Matched(w, m) -> add_deferred_operand(w, m)
             [] m.kind = "operation" /\ Matched(w, m) -> ForgetDeferred(w, op.id)
             [] OTHER -> UNCHANGED deferred_operand_table
        /\ net' = Took(w, m)
        /\ agenda' = [agenda EXCEPT ![w] = IF @ = <<>> THEN @ ELSE Tail(@)]
  BY DEF Queue
<1> DEFINE op == Accepted(w, m)
<1>2. MessageIn(C, m)
  BY <1>1, ArrivalIn DEF MessageIn
<1>3. \A x \in DOMAIN net' : MessageIn(C, x)
  BY <1>1, TookIn DEF RuntimeIn
<1>4. DOMAIN agenda' = Worker /\ \A u \in Worker : AllIn(C, agenda'[u])
  <2>1. agenda' = [agenda EXCEPT ![w] = IF @ = <<>> THEN @ ELSE Tail(@)]
    BY <1>1
  <2> QED BY <2>1, Sequences DEF RuntimeIn
<1>5. /\ DOMAIN operator_table' = Worker
      /\ \A u \in Worker : \A id \in DOMAIN operator_table'[u] :
            operator_table'[u][id].id = id /\ OperatorIn(C, operator_table'[u][id], u)
  <2>1. CASE ~Matched(w, m)
    BY <1>1, <2>1 DEF RuntimeIn
  <2>2. CASE Matched(w, m)
    <3>1. OperatorIn(C, op, w)
      BY <2>2, AcceptedIn
    <3>2. operator_table' = [operator_table EXCEPT ![w] = keyvalue_insert(@, op.id, op)]
      BY <1>1, <2>2
    <3> HIDE DEF op
    <3> QED BY <3>1, <3>2 DEF RuntimeIn, keyvalue_insert
  <2> QED BY <2>1, <2>2
<1>6. /\ DOMAIN deferred_operand_table' = Worker
      /\ \A u \in Worker : \A id \in DOMAIN deferred_operand_table'[u] :
            ListIn(C, id, deferred_operand_table'[u][id])
  <2>1. CASE m.kind = "operand" /\ ~Matched(w, m)
    <3> DEFINE ls == Deferred(w, m.id)
               new == IF ls = <<>> THEN <<m>> ELSE <<Head(ls), m>> \o Tail(ls)
    <3>1. OperandIn(C, m)
      BY <1>2, <2>1 DEF MessageIn
    <3>2. ListIn(C, m.id, ls)
      BY Lists DEF Deferred, RuntimeIn
    <3> HIDE DEF ls
    <3>3. ListIn(C, m.id, new)
      BY <2>1, <3>1, <3>2, Lists
    <3>4. deferred_operand_table' =
              [deferred_operand_table EXCEPT ![w] = keyvalue_insert(@, m.id, new)]
      BY <1>1, <2>1 DEF add_deferred_operand, ls
    <3> HIDE DEF new
    <3> QED BY <3>3, <3>4 DEF RuntimeIn, keyvalue_insert
  <2>2. CASE m.kind = "operation" /\ Matched(w, m)
    <3>1. deferred_operand_table' = [deferred_operand_table EXCEPT ![w] =
                                        Restrict(@, DOMAIN @ \ {op.id})]
      BY <1>1, <2>2 DEF ForgetDeferred
    <3> HIDE DEF op
    <3> QED BY <3>1 DEF RuntimeIn, Restrict
  <2>3. CASE ~(m.kind = "operand" /\ ~Matched(w, m)) /\ ~(m.kind = "operation" /\ Matched(w, m))
    <3>1. UNCHANGED deferred_operand_table
      BY <1>1, <2>3
    <3> QED BY <3>1 DEF RuntimeIn
  <2> QED BY <2>1, <2>2, <2>3
<1> QED BY <1>3, <1>4, <1>5, <1>6 DEF RuntimeIn

(* A message is handed to a router.                                        *)
LEMMA SendKeeps ==
    ASSUME NEW C, RuntimeIn(C), NEW w \in Worker, send_op(w)
    PROVE  RuntimeIn(C)'
<1> DEFINE m == Head(agenda[w])
<1>1. /\ agenda[w] # <<>> /\ m.kind # "retire" /\ net' = net (+) SetToBag({m})
      /\ agenda' = [agenda EXCEPT ![w] = Tail(@)]
      /\ UNCHANGED <<operator_table, deferred_operand_table>>
  BY DEF send_op
<1>2. AllIn(C, agenda[w])
  BY DEF RuntimeIn
<1>3. MessageIn(C, m) /\ AllIn(C, Tail(agenda[w]))
  BY <1>1, <1>2, Sequences
<1> HIDE DEF m
<1>4. \A x \in DOMAIN net' : MessageIn(C, x)
  <2>1. DOMAIN net' = DOMAIN net \cup {m}
    BY <1>1, BagDomains
  <2> QED BY <1>3, <2>1 DEF RuntimeIn
<1> QED BY <1>1, <1>3, <1>4 DEF RuntimeIn

(* An operator that has fired leaves the table.                            *)
LEMMA FinishKeeps ==
    ASSUME NEW C, RuntimeIn(C), NEW w \in Worker, Finish(w)
    PROVE  RuntimeIn(C)'
<1> DEFINE id == Head(agenda[w]).id
<1>1. /\ agenda[w] # <<>>
      /\ operator_table' = [operator_table EXCEPT ![w] = Restrict(@, DOMAIN @ \ {id})]
      /\ agenda' = [agenda EXCEPT ![w] = Tail(@)]
      /\ UNCHANGED <<net, deferred_operand_table>>
  BY DEF Finish
<1>2. AllIn(C, agenda[w])
  BY DEF RuntimeIn
<1>3. AllIn(C, Tail(agenda[w]))
  BY <1>1, <1>2, Sequences
<1> HIDE DEF id
<1> QED BY <1>1, <1>3 DEF RuntimeIn, Restrict

(* A firing, with messages that are right in a later world.                *)
LEMMA FireKeeps ==
    ASSUME NEW C, NEW D, RuntimeIn(C), Later(C, D),
           NEW w \in Worker, NEW code \in Opcodes, NEW f \in Firings(w, code),
           NEW msgs, AllIn(D, msgs), Emit(w, f, msgs)
    PROVE  RuntimeIn(D)'
<1> DEFINE m == f.msg
           rest == IF agenda[w] = <<>> THEN <<>> ELSE Tail(agenda[w])
           retire == IF m.kind = "operand" THEN <<Retire(w, m.id)>> ELSE <<>>
<1>1. /\ net' = Took(w, m)
      /\ agenda' = [agenda EXCEPT ![w] = msgs \o retire \o rest]
      /\ IF m.kind = "operand"
         THEN /\ operator_table' = [operator_table EXCEPT ![w][m.id] = f.op]
              /\ UNCHANGED deferred_operand_table
         ELSE /\ UNCHANGED operator_table
              /\ ForgetDeferred(w, f.op.id)
  BY DEF Emit
<1>2. /\ m \in Arrival(w) /\ f.op = Accepted(w, m) /\ Matched(w, m) /\ OperatorIn(C, f.op, w)
  BY FiringIn
<1>3. \A x \in DOMAIN net' : MessageIn(D, x)
  BY <1>1, TookIn, MessageKeeps DEF RuntimeIn
<1>4. DOMAIN agenda' = Worker /\ \A u \in Worker : AllIn(D, agenda'[u])
  <2>1. AllIn(C, agenda[w]) /\ \A u \in Worker : AllIn(C, agenda[u]) /\ DOMAIN agenda = Worker
    BY DEF RuntimeIn
  <2>2. AllIn(D, rest)
    <3>1. AllIn(C, rest)
      BY <2>1, Sequences
    <3> HIDE DEF rest
    <3> QED BY <3>1, SequenceKeeps
  <2>3. AllIn(D, retire)
    <3>1. AllIn(D, <<Retire(w, m.id)>>)
      BY Sequences DEF Retire
    <3> QED BY <3>1, Sequences
  <2> HIDE DEF m, rest, retire
  <2>4. AllIn(D, msgs \o retire \o rest)
    BY <2>2, <2>3, Sequences
  <2>5. \A u \in Worker : AllIn(D, agenda[u])
    BY <2>1, SequenceKeeps
  <2> DEFINE all == msgs \o retire \o rest
  <2>6. agenda' = [agenda EXCEPT ![w] = all] /\ AllIn(D, all)
    BY <1>1, <2>4
  <2> HIDE DEF all
  <2> QED BY <2>1, <2>5, <2>6
<1>5. /\ DOMAIN operator_table' = Worker
      /\ \A u \in Worker : \A id \in DOMAIN operator_table'[u] :
            operator_table'[u][id].id = id /\ OperatorIn(D, operator_table'[u][id], u)
  <2>0. /\ DOMAIN operator_table = Worker
        /\ \A u \in Worker : \A id \in DOMAIN operator_table[u] :
               operator_table[u][id].id = id /\ OperatorIn(D, operator_table[u][id], u)
    BY MessageKeeps DEF RuntimeIn
  <2>1. CASE m.kind = "operand"
    <3>1. m.id \in DOMAIN operator_table[w] /\ f.op.id = m.id
      BY <1>2, <2>1, AcceptedIn
    <3>2. OperatorIn(D, f.op, w)
      BY <1>2, MessageKeeps
    <3>3. operator_table' = [operator_table EXCEPT ![w][m.id] = f.op]
      BY <1>1, <2>1
    <3> DEFINE op == f.op   i == m.id
    <3>4. /\ operator_table' = [operator_table EXCEPT ![w][i] = op]
          /\ OperatorIn(D, op, w) /\ op.id = i
      BY <3>1, <3>2, <3>3
    <3> HIDE DEF op, i
    <3> QED BY <2>0, <3>4
  <2>2. CASE m.kind # "operand"
    BY <1>1, <2>0, <2>2
  <2> QED BY <2>1, <2>2
<1>6. /\ DOMAIN deferred_operand_table' = Worker
      /\ \A u \in Worker : \A id \in DOMAIN deferred_operand_table'[u] :
            ListIn(D, id, deferred_operand_table'[u][id])
  <2>0. /\ DOMAIN deferred_operand_table = Worker
        /\ \A u \in Worker : \A id \in DOMAIN deferred_operand_table[u] :
               ListIn(D, id, deferred_operand_table[u][id])
    BY SequenceKeeps DEF RuntimeIn
  <2>1. CASE m.kind = "operand"
    BY <1>1, <2>0, <2>1
  <2>2. CASE m.kind # "operand"
    <3> DEFINE i == f.op.id
    <3>1. deferred_operand_table' = [deferred_operand_table EXCEPT ![w] =
                                        Restrict(@, DOMAIN @ \ {i})]
      BY <1>1, <2>2 DEF ForgetDeferred
    <3> HIDE DEF i
    <3> QED BY <2>0, <3>1 DEF Restrict
  <2> QED BY <2>1, <2>2
<1> QED BY <1>3, <1>4, <1>5, <1>6 DEF RuntimeIn

-----------------------------------------------------------------------------
(* The tables of the package, the clients, and the invariant.              *)

Triples == Ref \X Ref \X Ref

(* Those that wait for a triple are to receive its result, complemented as *)
(* each of them wants it.                                                  *)
WaitersIn(C, k, ls) == \E S : /\ ls \in Seq(S)
                              /\ \A x \in S : /\ x.neg \in BOOLEAN
                                              /\ Awaits(C, x.dest,
                                                        Signed(Ite(k[1], k[2], k[3]), x.neg))

(* The tables of the package: nodes, results, and those that wait.         *)
TablesIn(C) ==
    /\ DOMAIN ite_table = Worker /\ DOMAIN deferred_ite_table = Worker
    /\ \A w \in Worker : \A n \in unique_table[w] : NodeIn(C, n)
    /\ \A w \in Worker : \A k \in DOMAIN ite_table[w] :
           /\ k \in Triples /\ ite_table[w][k] = Ite(k[1], k[2], k[3])
           /\ StoredIn(C, ite_table[w][k])
    /\ \A w \in Worker : \A k \in DOMAIN deferred_ite_table[w] :
           k \in Triples /\ WaitersIn(C, k, deferred_ite_table[w][k])

(* The clients: what they know, and that one waits exactly while it has    *)
(* asked, for the result of what it has asked for.                         *)
ClientsIn(C) ==
    /\ DOMAIN known = Client /\ DOMAIN wait = Client /\ DOMAIN asked = Client
    /\ \A c \in Client : \A r \in known[c] : StoredIn(C, r)
    /\ \A c \in Client : wait[c] = None <=> asked[c] = None
    /\ \A c \in Client : wait[c] # None =>
           /\ asked[c] \in Asks /\ wait[c].agent = c /\ wait[c].offset = 0
           /\ Awaits(C, wait[c], Ite(asked[c][1], asked[c][2], asked[c][3]))

(* A world that fits the state.                                            *)
DistIn(C) == /\ C \in Worlds /\ C.seq = seq_num /\ C.nodes = unique_table
             /\ RuntimeIn(C) /\ TablesIn(C) /\ ClientsIn(C)

(* The inductive invariant: there is such a world.                         *)
DistInv == \E C : DistIn(C)

(* No agent hands out 2^48 identifiers.                                    *)
Rising == \A a \in Agent : seq_num[a] =< seq_num'[a]

-----------------------------------------------------------------------------
(* Constants, variables and complements need no node of their own.         *)
LEMMA StoredFacts ==
    ASSUME NEW C
    PROVE  /\ StoredIn(C, REF_ONE) /\ StoredIn(C, REF_ZERO)
           /\ \A v \in Var : StoredIn(C, REF_VAR(v)) /\ StoredIn(C, REF_NEGATE(REF_VAR(v)))
           /\ \A r : StoredIn(C, r) =>
                  /\ StoredIn(C, REF_NEGATE(r))
                  /\ \A neg \in BOOLEAN : StoredIn(C, Signed(r, neg))
<1>1. StoredIn(C, REF_ONE) /\ StoredIn(C, REF_ZERO)
  BY DEF StoredIn, REF_IS_FUNCT, REF_ONE, REF_ZERO, Ref
<1>2. ASSUME NEW v \in Var PROVE StoredIn(C, REF_VAR(v)) /\ StoredIn(C, REF_NEGATE(REF_VAR(v)))
  <2>1. REF_VAR(v) \in Ref /\ REF_NEGATE(REF_VAR(v)) \in Ref
    BY RefClosed DEF REF_VAR, Ref
  <2> QED BY <2>1 DEF StoredIn, REF_IS_FUNCT
<1>3. ASSUME NEW r, StoredIn(C, r) PROVE StoredIn(C, REF_NEGATE(r))
  <2>1. r \in Ref
    BY <1>3 DEF StoredIn
  <2>2. /\ REF_NEGATE(r) \in Ref /\ REF_NEGATE(REF_NEGATE(r)) = r
        /\ REF_GET_NEG(REF_NEGATE(r)) <=> ~REF_GET_NEG(r)
        /\ REF_IS_FUNCT(REF_NEGATE(r)) <=> REF_IS_FUNCT(r)
    BY <2>1, Complements
  <2>3. REF_ABSVAL(REF_NEGATE(r)) = REF_ABSVAL(r)
    BY <2>2 DEF REF_ABSVAL, Signed
  <2> QED BY <1>3, <2>2, <2>3 DEF StoredIn, HomeRef
<1> QED BY <1>1, <1>2, <1>3 DEF Signed

(* The reference of a stored node, and its branches.                       *)
LEMMA OwnedIn ==
    ASSUME NEW C, NEW n, NodeIn(C, n), HomeNode(n) \in Worker, n \in C.nodes[HomeNode(n)],
           NEW neg \in BOOLEAN
    PROVE  StoredIn(C, Signed(n, neg))
<1>1. n \in Ref /\ ~REF_GET_NEG(n)
  BY DEF NodeIn
<1>2. REF_ABSVAL(n) = n
  BY <1>1 DEF REF_ABSVAL, Signed
<1>3. StoredIn(C, n)
  BY <1>1, <1>2 DEF StoredIn, HomeRef
<1> QED BY <1>3, StoredFacts

(* The branches of a function whose node is right are stored.              *)
LEMMA ChildrenIn ==
    ASSUME NEW C, NEW r, r \in Ref, REF_IS_FUNCT(r), NodeIn(C, REF_ABSVAL(r))
    PROVE  StoredIn(C, Children(r)[1]) /\ StoredIn(C, Children(r)[2])
<1>1. CASE ~REF_GET_NEG(r)
  BY <1>1 DEF REF_ABSVAL, Signed, NodeIn
<1>2. CASE REF_GET_NEG(r)
  <2> DEFINE n == REF_NEGATE(r)
  <2>1. /\ n \in Ref /\ REF_NEGATE(n) = r /\ REF_IS_FUNCT(n)
    BY Complements
  <2>2. Children(r) = <<REF_NEGATE(Children(n)[1]), REF_NEGATE(Children(n)[2])>>
    <3> HIDE DEF n
    <3> QED BY <2>1, Complements
  <2>3. StoredIn(C, Children(n)[1]) /\ StoredIn(C, Children(n)[2])
    BY <1>2 DEF REF_ABSVAL, Signed, NodeIn
  <2> HIDE DEF n
  <2> QED BY <2>2, <2>3, StoredFacts
<1> QED BY <1>1, <1>2

-----------------------------------------------------------------------------
(* Messages that are right.                                                *)
LEMMA AnswerIn ==
    ASSUME NEW C, NEW d, NEW r, Awaits(C, d, r), StoredIn(C, r)
    PROVE  MessageIn(C, Operand(d, <<r>>)) /\ AllIn(C, Answering(d, r))
<1> DEFINE m == Operand(d, <<r>>)
<1>1. /\ m.kind = "operand" /\ m.to = d.agent /\ m.id = d.id
      /\ m.data = [o \in d.offset .. (d.offset + Len(<<r>>) - 1) |-> <<r>>[o - d.offset + 1]]
  BY DEF Operand
<1>2. d.offset \in Nat /\ Len(<<r>>) = 1
  BY DEF Awaits
<1>3. DOMAIN m.data = {d.offset} /\ m.data[d.offset] = r
  <2>1. d.offset .. (d.offset + Len(<<r>>) - 1) = {d.offset} /\ d.offset - d.offset + 1 = 1
    BY <1>2
  <2> DEFINE I == d.offset .. (d.offset + Len(<<r>>) - 1)
  <2>2. m.data = [o \in I |-> <<r>>[o - d.offset + 1]] /\ I = {d.offset}
    BY <1>1, <2>1
  <2> HIDE DEF m, I
  <2>3. DOMAIN m.data = I /\ m.data[d.offset] = <<r>>[d.offset - d.offset + 1]
    BY <2>2
  <2> QED BY <2>1, <2>2, <2>3
<1>4. MessageIn(C, m)
  <2> HIDE DEF m
  <2> QED BY <1>1, <1>2, <1>3 DEF MessageIn, OperandIn, Awaits, Right
<1> QED BY <1>4, Sequences DEF Answering

(* The answer of two words to a retrieval.                                 *)
LEMMA PairIn ==
    ASSUME NEW C, NEW d, NEW r, NEW s, Awaits(C, d, r), C.meaning[d.id][d.offset + 1] = s,
           StoredIn(C, r), StoredIn(C, s)
    PROVE  AllIn(C, <<Operand(d, <<r, s>>)>>)
<1> DEFINE m == Operand(d, <<r, s>>)
<1>1. /\ m.kind = "operand" /\ m.to = d.agent /\ m.id = d.id
      /\ m.data = [o \in d.offset .. (d.offset + Len(<<r, s>>) - 1) |-> <<r, s>>[o - d.offset + 1]]
  BY DEF Operand
<1>2. d.offset \in Nat /\ Len(<<r, s>>) = 2
  BY DEF Awaits
<1>3. /\ DOMAIN m.data = {d.offset, d.offset + 1}
      /\ m.data[d.offset] = r /\ m.data[d.offset + 1] = s
  <2>1. /\ d.offset .. (d.offset + Len(<<r, s>>) - 1) = {d.offset, d.offset + 1}
        /\ d.offset - d.offset + 1 = 1 /\ (d.offset + 1) - d.offset + 1 = 2
    BY <1>2
  <2> DEFINE I == d.offset .. (d.offset + Len(<<r, s>>) - 1)
  <2>2. m.data = [o \in I |-> <<r, s>>[o - d.offset + 1]] /\ I = {d.offset, d.offset + 1}
    BY <1>1, <2>1
  <2> HIDE DEF m, I
  <2>3. /\ DOMAIN m.data = I /\ m.data[d.offset] = <<r, s>>[d.offset - d.offset + 1]
        /\ m.data[d.offset + 1] = <<r, s>>[(d.offset + 1) - d.offset + 1]
    BY <2>2
  <2> QED BY <2>1, <2>2, <2>3
<1>4. MessageIn(C, m)
  <2> HIDE DEF m
  <2> QED BY <1>1, <1>2, <1>3 DEF MessageIn, OperandIn, Awaits, Right
<1> QED BY <1>4, Sequences

(* A message that is sent in some cases only.                              *)
LEMMA OnlyIn ==
    ASSUME NEW C, NEW cond \in BOOLEAN, NEW m, cond => MessageIn(C, m)
    PROVE  AllIn(C, Only(cond, m))
  BY Sequences DEF Only

(* An operation for an identifier that has been handed out.                *)
LEMMA OperationIn ==
    ASSUME NEW C, NEW a, NEW code, NEW id, NEW dest, NEW arg, NEW data,
           Issued(C, id), C.rank[dest.id] < C.rank[id], Right(C, id, data),
           LET op == [Operator(code, id, dest, arg) EXCEPT !.data = data]
           IN  Task(C, op, a)
    PROVE  LET op == [Operator(code, id, dest, arg) EXCEPT !.data = data]
           IN  MessageIn(C, Operation(a, op))
<1> DEFINE op == [Operator(code, id, dest, arg) EXCEPT !.data = data]
           m == Operation(a, op)
<1>1. op = [code |-> code, id |-> id, dest |-> dest, arg |-> arg, data |-> data]
  BY DEF Operator
<1>2. m.kind = "operation" /\ m.to = a /\ m.op = op
  BY DEF Operation
<1>3. op.id = id /\ op.data = data /\ op.dest = dest /\ Task(C, op, a)
  BY <1>1
<1>4. OperatorIn(C, op, a)
  <2>1. op = [code |-> op.code, id |-> op.id, dest |-> op.dest, arg |-> op.arg, data |-> op.data]
    BY <1>1
  <2> HIDE DEF op
  <2> QED BY <1>3, <2>1 DEF OperatorIn
<1> HIDE DEF op, m
<1>5. MessageIn(C, m)
  BY <1>2, <1>4 DEF MessageIn
<1> QED BY <1>5 DEF m, op

(* The same for an operator without filled slots.                          *)
LEMMA BareIn ==
    ASSUME NEW C, NEW a, NEW code, NEW id, NEW dest, NEW arg, Issued(C, id),
           C.rank[dest.id] < C.rank[id], Task(C, Operator(code, id, dest, arg), a)
    PROVE  MessageIn(C, Operation(a, Operator(code, id, dest, arg)))
<1> DEFINE op == Operator(code, id, dest, arg)
           m == Operation(a, op)
<1>1. op = [code |-> code, id |-> id, dest |-> dest, arg |-> arg, data |-> <<>>]
  BY DEF Operator
<1>2. m.kind = "operation" /\ m.to = a /\ m.op = op
  BY DEF Operation
<1>3. op.id = id /\ op.data = <<>> /\ op.dest = dest /\ Right(C, id, <<>>)
  BY <1>1 DEF Right
<1>4. op = [code |-> op.code, id |-> op.id, dest |-> op.dest, arg |-> op.arg, data |-> op.data]
  BY <1>1
<1>5. Task(C, op, a)
  OBVIOUS
<1> HIDE DEF op
<1>6. OperatorIn(C, op, a)
  BY <1>3, <1>4, <1>5 DEF OperatorIn
<1> HIDE DEF m
<1>7. MessageIn(C, m)
  BY <1>2, <1>6 DEF MessageIn
<1> QED BY <1>7 DEF m, op

-----------------------------------------------------------------------------
(* Identifiers.                                                            *)
(* A sequence number below the limit is not changed by the modulus.        *)
LEMMA Modulo ==
    ASSUME NEW a \in Nat, NEW L \in Nat \ {0}
    PROVE  a < L => a % L = a
  OBVIOUS

(* One that passes the limit starts again.                                 *)
LEMMA ModuloWraps ==
    ASSUME NEW a \in Nat, NEW n \in Nat, NEW L \in Nat \ {0}, a < L, n < L, a + n >= L
    PROVE  (a + n) % L = a + n - L
  OBVIOUS

(* A handler whose numbers do not wrap takes the next ones, all of them    *)
(* new.                                                                    *)
LEMMA Numbers ==
    ASSUME NEW a \in Agent, seq_num \in [Agent -> 0 .. IdLimit - 1],
           NEW n \in 1 .. 5, UseIds(a, n), Rising
    PROVE  /\ seq_num' = [seq_num EXCEPT ![a] = @ + n] /\ seq_num[a] + n < IdLimit
           /\ \A k \in 0 .. (n - 1) : NewId(a, k) = [agent |-> a, seq |-> seq_num[a] + k]
<1> DEFINE s == seq_num[a]   L == IdLimit
<1>1. s \in Nat /\ s < L /\ L \in Nat \ {0} /\ n \in Nat /\ n < L
  BY DataflowAssumption, IteAssumption
<1>2. seq_num' = [seq_num EXCEPT ![a] = (s + n) % L]
  BY DEF UseIds
<1>3. s =< (s + n) % L
  BY <1>2 DEF Rising
<1> HIDE DEF s, L
<1>4. s + n < L
  <2>1. CASE s + n >= L
    <3>1. (s + n) % L = s + n - L
      BY <1>1, <2>1, ModuloWraps
    <3> QED BY <1>1, <1>3, <2>1, <3>1
  <2>2. CASE ~(s + n >= L)
    BY <1>1, <2>2
  <2> QED BY <2>1, <2>2
<1>5. (s + n) % L = s + n
  BY <1>1, <1>4, Modulo
<1>6. ASSUME NEW k \in 0 .. (n - 1) PROVE (s + k) % L = s + k
  <2>1. k \in Nat /\ s + k \in Nat /\ s + k < L
    BY <1>1, <1>4
  <2> QED BY <1>1, <2>1, Modulo
<1> QED BY <1>2, <1>4, <1>5, <1>6 DEF s, L, NewId

(* Whatever the slots of the new operators are to receive, there is a world*)
(* that says so.                                                           *)
LEMMA Handing ==
    ASSUME NEW C \in Worlds, C.seq = seq_num, C.nodes = unique_table,
           NEW a \in Agent, NEW n \in 1 .. 5, UseIds(a, n), Rising,
           UNCHANGED unique_table,
           NEW M \in [0 .. (n - 1) -> [Nat -> Ref]], NEW r \in Nat
    PROVE  \E D : /\ Later(C, D) /\ D.seq = seq_num' /\ D.nodes = unique_table'
                  /\ \A k \in 0 .. (n - 1) : /\ NewId(a, k) \in Id /\ Issued(D, NewId(a, k))
                                             /\ D.meaning[NewId(a, k)] = M[k]
                                             /\ D.rank[NewId(a, k)] = r + 1 + k
<1> DEFINE s == seq_num[a]
           New(id) == id.agent = a /\ s =< id.seq /\ id.seq < s + n
           meaning == [id \in Id |-> IF New(id) THEN M[id.seq - s] ELSE C.meaning[id]]
           rank == [id \in Id |-> IF New(id) THEN r + 1 + (id.seq - s) ELSE C.rank[id]]
           seq == [C.seq EXCEPT ![a] = @ + n]
           D == [meaning |-> meaning, rank |-> rank, seq |-> seq, nodes |-> C.nodes]
<1>1. /\ seq_num \in [Agent -> 0 .. IdLimit - 1] /\ C.meaning \in [Id -> [Nat -> Ref]]
      /\ C.rank \in [Id -> Nat]
  BY DEF Worlds
<1>2. /\ seq_num' = seq /\ s + n < IdLimit
      /\ \A k \in 0 .. (n - 1) : NewId(a, k) = [agent |-> a, seq |-> s + k]
  BY <1>1, Numbers
<1>3. s \in Nat /\ n \in Nat /\ IdLimit \in Nat
  BY <1>1, DataflowAssumption
<1>4. D \in Worlds
  <2>1. meaning \in [Id -> [Nat -> Ref]]
    <3> SUFFICES ASSUME NEW id \in Id, New(id) PROVE M[id.seq - s] \in [Nat -> Ref]
      BY <1>1
    <3>1. id.seq \in Nat
      BY DEF Id
    <3>2. id.seq - s \in 0 .. (n - 1)
      BY <1>3, <3>1
    <3> QED BY <3>2
  <2>2. seq \in [Agent -> 0 .. IdLimit - 1]
    <3>1. C.seq \in [Agent -> 0 .. IdLimit - 1] /\ C.seq[a] = s
      BY <1>1
    <3>2. s + n \in 0 .. IdLimit - 1
      BY <1>2, <1>3
    <3> QED BY <3>1, <3>2
  <2>3. C.nodes \in [Worker -> SUBSET Ref]
    BY DEF Worlds
  <2>4. rank \in [Id -> Nat]
    <3> SUFFICES ASSUME NEW id \in Id, New(id) PROVE r + 1 + (id.seq - s) \in Nat
      BY <1>1
    <3>1. id.seq \in Nat
      BY DEF Id
    <3> QED BY <1>3, <3>1
  <2> HIDE DEF meaning, seq, rank
  <2> QED BY <2>1, <2>2, <2>3, <2>4 DEF Worlds
<1>5. Later(C, D)
  <2>1. \A b \in Agent : C.seq[b] =< seq[b]
    BY <1>1, <1>3
  <2>2. ASSUME NEW id \in Id, Issued(C, id) PROVE meaning[id] = C.meaning[id] /\ rank[id] = C.rank[id]
    <3>1. id.agent \in Agent /\ id.seq \in Nat
      BY DEF Id
    <3>2. id.seq < seq_num[id.agent]
      BY <2>2 DEF Issued
    <3>3. ~New(id)
      BY <1>3, <3>1, <3>2
    <3> QED BY <3>3
  <2> HIDE DEF meaning, seq, rank
  <2> QED BY <1>4, <2>1, <2>2 DEF Later
<1>6. ASSUME NEW k \in 0 .. (n - 1)
      PROVE  /\ NewId(a, k) \in Id /\ Issued(D, NewId(a, k)) /\ D.meaning[NewId(a, k)] = M[k]
             /\ D.rank[NewId(a, k)] = r + 1 + k
  <2> DEFINE id == [agent |-> a, seq |-> s + k]
  <2>1. NewId(a, k) = id /\ id.agent = a /\ id.seq = s + k /\ k \in Nat /\ k < n
    BY <1>2, <1>3
  <2>2. id \in Id
    BY <1>3, <2>1 DEF Id
  <2> HIDE DEF id
  <2>3. New(id) /\ id.seq - s = k
    BY <1>3, <2>1
  <2>4. meaning[id] = M[k] /\ rank[id] = r + 1 + k
    BY <2>2, <2>3
  <2>5. seq[a] = s + n
    BY <1>1
  <2>6. id.seq < seq[id.agent]
    BY <1>3, <2>1, <2>5
  <2> HIDE DEF meaning, seq, rank
  <2> QED BY <2>1, <2>2, <2>4, <2>6 DEF Issued
<1>7. D.seq = seq_num' /\ D.nodes = unique_table'
  <2> HIDE DEF seq
  <2> QED BY <1>2
<1> HIDE DEF D
<1> QED BY <1>5, <1>6, <1>7

-----------------------------------------------------------------------------
(* What is handed out on the way to a destination ranks above it.          *)
LEMMA RanksAbove ==
    ASSUME NEW C \in Worlds, NEW D, Later(C, D), NEW d, NEW r, Awaits(C, d, r)
    PROVE  C.rank[d.id] \in Nat /\ D.rank[d.id] = C.rank[d.id]
<1>1. Issued(C, d.id) /\ d.id \in Id
  BY DEF Awaits, Issued
<1> QED BY <1>1, LaterKeeps DEF Worlds

(* What an action leaves alone stays right.                                *)
LEMMA WaitersKeep ==
    ASSUME NEW C, NEW D, Later(C, D), NEW k, NEW ls, WaitersIn(C, k, ls)
    PROVE  WaitersIn(D, k, ls)
  BY LaterKeeps DEF WaitersIn

LEMMA TablesKeep ==
    ASSUME NEW C, NEW D, Later(C, D), TablesIn(C), UNCHANGED tableVars
    PROVE  TablesIn(D)'
<1>1. UNCHANGED <<unique_table, ite_table, deferred_ite_table>>
  BY DEF tableVars
<1> QED BY <1>1, LaterKeeps, WaitersKeep DEF TablesIn

LEMMA ClientsKeep ==
    ASSUME NEW C, NEW D, Later(C, D), ClientsIn(C), UNCHANGED <<known, wait, asked>>
    PROVE  ClientsIn(D)'
  BY LaterKeeps DEF ClientsIn

(* A world is later than itself.                                           *)
LEMMA LaterSame == ASSUME NEW C \in Worlds PROVE Later(C, C)
<1>1. \A a \in Agent : C.seq[a] =< C.seq[a]
  <2>1. ASSUME NEW a \in Agent PROVE C.seq[a] \in Nat
    BY DataflowAssumption DEF Worlds
  <2> QED BY <2>1
<1> QED BY <1>1 DEF Later

(* A worker's handler that touches no table but sends what is right.       *)
LEMMA HandlerKeeps ==
    ASSUME NEW C, DistIn(C), NEW D, Later(C, D), D.seq = seq_num', D.nodes = unique_table',
           NEW w \in Worker, NEW code \in Opcodes, NEW f \in Firings(w, code),
           NEW msgs, AllIn(D, msgs), Emit(w, f, msgs),
           UNCHANGED <<tableVars, clientVars>>
    PROVE  DistIn(D)'
<1>1. RuntimeIn(D)'
  BY FireKeeps DEF DistIn
<1>2. TablesIn(D)'
  BY TablesKeep DEF DistIn
<1>3. ClientsIn(D)'
  BY ClientsKeep DEF DistIn, Emit, clientVars
<1> QED BY <1>1, <1>2, <1>3 DEF DistIn, Later

-----------------------------------------------------------------------------
(* The handlers that take no identifiers.                                  *)

(* The steps of the runtime keep the invariant.                            *)
LEMMA QueueStep ==
    ASSUME DistInv, NEW w \in Worker,
           Queue(w) \/ send_op(w) \/ Finish(w), UNCHANGED <<tableVars, clientVars>>
    PROVE  DistInv'
<1>1. PICK C : DistIn(C)
  BY DEF DistInv
<1>2. RuntimeIn(C)'
  BY <1>1, QueueKeeps, SendKeeps, FinishKeeps DEF DistIn
<1>3. TablesIn(C)'
  BY <1>1, LaterSame, TablesKeep DEF DistIn
<1>4. UNCHANGED <<seq_num, wait, unique_table>>
  BY DEF Queue, send_op, Finish, tableVars
<1>5. ClientsIn(C)'
  BY <1>1, <1>4, LaterSame, ClientsKeep DEF DistIn, clientVars
<1>6. DistIn(C)'
  BY <1>1, <1>2, <1>3, <1>4, <1>5 DEF DistIn
<1> QED BY <1>6 DEF DistInv

(* A lookup that finds its triple in the cache.                            *)
LEMMA HitStep ==
    ASSUME DistInv, NEW w \in Worker, IteHit(w)
    PROVE  DistInv'
<1>1. PICK C : DistIn(C)
  BY DEF DistInv
<1>2. PICK f \in Firings(w, "ITE_LOOKUP") :
        /\ \E r \in ref_ite_lookup(w, Key(f.op.arg)) :
              Emit(w, f, Answering(f.op.dest, Signed(r, f.op.arg.neg)))
        /\ UNCHANGED <<seq_num, tableVars, clientVars>>
  BY DEF IteHit
<1> DEFINE op == f.op
           k == Key(op.arg)
<1>3. PICK r \in ref_ite_lookup(w, k) : Emit(w, f, Answering(op.dest, Signed(r, op.arg.neg)))
  BY <1>2
<1>4. "ITE_LOOKUP" \in Opcodes
  BY DEF Opcodes
<1>5. op.code = "ITE_LOOKUP" /\ Task(C, op, w)
  BY <1>1, <1>4, FiringIn DEF DistIn, OperatorIn
<1>6. /\ op.arg.neg \in BOOLEAN
      /\ Awaits(C, op.dest, Signed(Ite(op.arg.i, op.arg.t, op.arg.e), op.arg.neg))
  BY <1>5 DEF Task
<1>7. r = Ite(op.arg.i, op.arg.t, op.arg.e) /\ StoredIn(C, r)
  <2>1. k \in DOMAIN ite_table[w] /\ r = ite_table[w][k]
    BY <1>3 DEF ref_ite_lookup
  <2>2. r = Ite(k[1], k[2], k[3]) /\ StoredIn(C, r)
    BY <1>1, <2>1 DEF DistIn, TablesIn
  <2> QED BY <2>2 DEF Key
<1>8. AllIn(C, Answering(op.dest, Signed(r, op.arg.neg)))
  BY <1>6, <1>7, AnswerIn, StoredFacts
<1>9. DistIn(C)'
  <2> HIDE DEF op
  <2>1. Later(C, C) /\ C.seq = seq_num' /\ C.nodes = unique_table'
    BY <1>1, <1>2, LaterSame DEF DistIn, tableVars
  <2> QED BY <1>1, <1>2, <1>3, <1>4, <1>8, <2>1, HandlerKeeps
<1> QED BY <1>9 DEF DistInv

(* A retrieval: the node is there, so both branches are sent.              *)
LEMMA RetrieveStep ==
    ASSUME DistInv, NEW w \in Worker, DoRetrieveLookup(w)
    PROVE  DistInv'
<1>1. PICK C : DistIn(C)
  BY DEF DistInv
<1>2. PICK f \in Firings(w, "RETRIEVE_LOOKUP") :
        /\ Emit(w, f, <<Operand(f.op.dest, IF REF_ABSVAL(f.op.arg.ref) \in unique_table[w]
                                           THEN Children(f.op.arg.ref)
                                           ELSE <<REF_INVALID, REF_INVALID>>)>>)
        /\ UNCHANGED <<seq_num, tableVars, clientVars>>
  BY DEF DoRetrieveLookup
<1> DEFINE op == f.op
           r == op.arg.ref
<1>4. "RETRIEVE_LOOKUP" \in Opcodes
  BY DEF Opcodes
<1>5. op.code = "RETRIEVE_LOOKUP" /\ Task(C, op, w)
  BY <1>1, <1>4, FiringIn DEF DistIn, OperatorIn
<1>6. /\ StoredIn(C, r) /\ REF_IS_FUNCT(r) /\ w = HomeRef(r)
      /\ Awaits(C, op.dest, Children(r)[1])
      /\ C.meaning[op.dest.id][op.dest.offset + 1] = Children(r)[2]
  BY <1>5 DEF Task
<1> HIDE DEF r
<1>7. r \in Ref /\ REF_ABSVAL(r) \in unique_table[w]
  BY <1>1, <1>6 DEF StoredIn, DistIn
<1>8. StoredIn(C, Children(r)[1]) /\ StoredIn(C, Children(r)[2])
  BY <1>1, <1>6, <1>7, ChildrenIn DEF DistIn, TablesIn
<1>9. Children(r) = <<Children(r)[1], Children(r)[2]>>
  BY DEF Children
<1> DEFINE ms == <<Operand(op.dest, Children(r))>>
<1>10. AllIn(C, ms) /\ Emit(w, f, ms)
  <2>1. AllIn(C, ms)
    <3> DEFINE hi == Children(r)[1]   lo == Children(r)[2]
    <3>1. Children(r) = <<hi, lo>> /\ StoredIn(C, hi) /\ StoredIn(C, lo)
          /\ Awaits(C, op.dest, hi) /\ C.meaning[op.dest.id][op.dest.offset + 1] = lo
      BY <1>6, <1>8, <1>9
    <3> HIDE DEF hi, lo, op
    <3> QED BY <3>1, PairIn
  <2>2. Emit(w, f, ms)
    BY <1>2, <1>7 DEF r
  <2> QED BY <2>1, <2>2
<1>11. DistIn(C)'
  <2> HIDE DEF op, ms
  <2>1. Later(C, C) /\ C.seq = seq_num' /\ C.nodes = unique_table'
    BY <1>1, <1>2, LaterSame DEF DistIn, tableVars
  <2> QED BY <1>1, <1>2, <1>4, <1>10, <2>1, HandlerKeeps
<1> QED BY <1>11 DEF DistInv

(* The node of a function is found or created, and its reference sent.     *)
LEMMA CanonizeLookupStep ==
    ASSUME DistInv, NEW w \in Worker, DoCanonizeLookup(w)
    PROVE  DistInv'
<1>1. PICK C : DistIn(C)
  BY DEF DistInv
<1>2. PICK f \in Firings(w, "CANONIZE_LOOKUP") :
        /\ ref_canonize_lookup(w, f.op.arg.node)
        /\ Emit(w, f, Answering(f.op.dest, Signed(f.op.arg.node, f.op.arg.neg)))
        /\ UNCHANGED <<seq_num, ite_table, deferred_ite_table, clientVars>>
  BY DEF DoCanonizeLookup
<1> DEFINE op == f.op
           n == op.arg.node
           neg == op.arg.neg
<1>3. "CANONIZE_LOOKUP" \in Opcodes
  BY DEF Opcodes
<1>4. op.code = "CANONIZE_LOOKUP" /\ Task(C, op, w)
  BY <1>1, <1>3, FiringIn DEF DistIn, OperatorIn
<1>5. /\ NodeIn(C, n) /\ neg \in BOOLEAN /\ w = HomeNode(n)
      /\ Awaits(C, op.dest, Signed(n, neg))
  BY <1>4 DEF Task
<1> HIDE DEF n, neg
<1>6. C \in Worlds /\ unique_table \in [Worker -> SUBSET Ref] /\ C.nodes = unique_table
  BY <1>1 DEF DistIn, Worlds
<1>7. /\ unique_table' = [unique_table EXCEPT ![w] = @ \cup {n}]
      /\ unique_table' \in [Worker -> SUBSET Ref] /\ n \in unique_table'[w]
      /\ \A u \in Worker : unique_table[u] \subseteq unique_table'[u]
  BY <1>2, <1>5, <1>6 DEF ref_canonize_lookup, NodeIn, n
<1> PICK D : D = [meaning |-> C.meaning, rank |-> C.rank, seq |-> C.seq, nodes |-> unique_table']
  OBVIOUS
<1>D. D.meaning = C.meaning /\ D.rank = C.rank /\ D.seq = C.seq /\ D.nodes = unique_table'
  OBVIOUS
<1>8. Later(C, D)
  <2>1. C \in Worlds /\ D \in Worlds
    BY <1>6, <1>7 DEF Worlds
  <2> QED BY <1>6, <1>7, <1>D, <2>1, LaterSame DEF Later
<1>9. AllIn(D, Answering(op.dest, Signed(n, neg)))
  <2>1. NodeIn(D, n) /\ Awaits(D, op.dest, Signed(n, neg))
    <3> HIDE DEF op
    <3> QED BY <1>5, <1>8, LaterKeeps
  <2>2. D.nodes[HomeNode(n)] = unique_table'[w] /\ HomeNode(n) \in Worker
    BY <1>5
  <2> HIDE DEF op
  <2>3. StoredIn(D, Signed(n, neg))
    BY <1>5, <1>7, <2>1, <2>2, OwnedIn
  <2> QED BY <2>1, <2>3, AnswerIn
<1>10. RuntimeIn(D)'
  <2> DEFINE ms == Answering(op.dest, Signed(n, neg))
  <2>1. Emit(w, f, ms) /\ AllIn(D, ms)
    BY <1>2, <1>9 DEF n, neg
  <2> HIDE DEF ms, op
  <2> QED BY <1>1, <1>3, <1>8, <2>1, FireKeeps DEF DistIn
<1>11. TablesIn(D)'
  <2>1. UNCHANGED <<ite_table, deferred_ite_table>> /\ TablesIn(C)
    BY <1>1, <1>2 DEF DistIn
  <2>2. NodeIn(D, n)
    <3> QED BY <1>5, <1>8, LaterKeeps
  <2>3. \A u \in Worker : \A x \in unique_table'[u] : NodeIn(D, x)
    <3> QED BY <1>6, <1>7, <1>8, <2>1, <2>2, LaterKeeps DEF TablesIn
  <2>4. /\ DOMAIN ite_table = Worker /\ DOMAIN deferred_ite_table = Worker
        /\ \A u \in Worker : \A k \in DOMAIN ite_table[u] :
               /\ k \in Triples /\ ite_table[u][k] = Ite(k[1], k[2], k[3])
               /\ StoredIn(D, ite_table[u][k])
        /\ \A u \in Worker : \A k \in DOMAIN deferred_ite_table[u] :
               k \in Triples /\ WaitersIn(D, k, deferred_ite_table[u][k])
    BY <1>8, <2>1, LaterKeeps, WaitersKeep DEF TablesIn
  <2> QED BY <2>1, <2>3, <2>4 DEF TablesIn
<1>12. ClientsIn(D)'
  <2> QED BY <1>1, <1>2, <1>8, ClientsKeep DEF DistIn, clientVars, Emit
<1>13. D \in Worlds /\ D.seq = seq_num' /\ D.nodes = unique_table'
  BY <1>1, <1>2, <1>8, <1>D DEF DistIn, Later
<1>14. DistIn(D)'
  BY <1>10, <1>11, <1>12, <1>13 DEF DistIn
<1> QED BY <1>14 DEF DistInv

(* A request joins those that wait for its triple.                         *)
LEMMA JoinStep ==
    ASSUME DistInv, NEW w \in Worker, IteJoin(w)
    PROVE  DistInv'
<1>1. PICK C : DistIn(C)
  BY DEF DistInv
<1>2. PICK f \in Firings(w, "ITE_LOOKUP") :
        /\ Key(f.op.arg) \in DOMAIN deferred_ite_table[w]
        /\ deferred_ite_table' = [deferred_ite_table EXCEPT ![w][Key(f.op.arg)] =
                                     <<[dest |-> f.op.dest, neg |-> f.op.arg.neg]>> \o @]
        /\ Emit(w, f, <<>>)
        /\ UNCHANGED <<seq_num, unique_table, ite_table, clientVars>>
  BY DEF IteJoin
<1> DEFINE op == f.op
           k == Key(op.arg)
           x == [dest |-> op.dest, neg |-> op.arg.neg]
<1>3. "ITE_LOOKUP" \in Opcodes
  BY DEF Opcodes
<1>4. op.code = "ITE_LOOKUP" /\ Task(C, op, w)
  BY <1>1, <1>3, FiringIn DEF DistIn, OperatorIn
<1>5. /\ op.arg.neg \in BOOLEAN
      /\ Awaits(C, op.dest, Signed(Ite(op.arg.i, op.arg.t, op.arg.e), op.arg.neg))
  BY <1>4 DEF Task
<1>6. x.neg \in BOOLEAN /\ Awaits(C, x.dest, Signed(Ite(k[1], k[2], k[3]), x.neg))
  BY <1>5 DEF Key
<1> HIDE DEF x, k
<1>7. k \in DOMAIN deferred_ite_table[w] /\ WaitersIn(C, k, deferred_ite_table[w][k])
  BY <1>1, <1>2 DEF DistIn, TablesIn, k
<1>8. WaitersIn(C, k, <<x>> \o deferred_ite_table[w][k])
  <2> DEFINE ls == deferred_ite_table[w][k]
  <2>1. PICK S : /\ ls \in Seq(S)
                 /\ \A y \in S : /\ y.neg \in BOOLEAN
                                 /\ Awaits(C, y.dest, Signed(Ite(k[1], k[2], k[3]), y.neg))
    BY <1>7 DEF WaitersIn
  <2> DEFINE T == S \cup {x}
  <2>2. <<x>> \in Seq(T) /\ ls \in Seq(T)
    BY <2>1
  <2>3. <<x>> \o ls \in Seq(T)
    BY <2>2
  <2>4. \A y \in T : /\ y.neg \in BOOLEAN
                     /\ Awaits(C, y.dest, Signed(Ite(k[1], k[2], k[3]), y.neg))
    BY <1>6, <2>1
  <2> HIDE DEF T, ls
  <2>5. WaitersIn(C, k, <<x>> \o ls)
    BY <2>3, <2>4 DEF WaitersIn
  <2> QED BY <2>5 DEF ls
<1>9. RuntimeIn(C)'
  <2>1. AllIn(C, <<>>) /\ Later(C, C)
    BY <1>1, LaterSame, Sequences DEF DistIn
  <2> QED BY <1>1, <1>2, <1>3, <2>1, FireKeeps DEF DistIn
<1>10. TablesIn(C)'
  <2> DEFINE new == <<x>> \o deferred_ite_table[w][k]
  <2>1. deferred_ite_table' = [deferred_ite_table EXCEPT ![w][k] = new]
    BY <1>2 DEF x, k
  <2> HIDE DEF new
  <2>2. WaitersIn(C, k, new) /\ TablesIn(C) /\ UNCHANGED <<unique_table, ite_table>>
    BY <1>1, <1>2, <1>8 DEF new, DistIn
  <2> QED BY <1>7, <2>1, <2>2 DEF TablesIn
<1>11. ClientsIn(C)'
  BY <1>1, <1>2, LaterSame, ClientsKeep DEF DistIn, clientVars, Emit
<1>12. DistIn(C)'
  BY <1>1, <1>2, <1>9, <1>10, <1>11 DEF DistIn
<1> QED BY <1>12 DEF DistInv

(* The result of a triple is remembered and sent to all that wait.         *)
LEMMA StoreStep ==
    ASSUME DistInv, NEW w \in Worker, DoIteStore(w)
    PROVE  DistInv'
<1>1. PICK C : DistIn(C)
  BY DEF DistInv
<1>2. PICK f \in Firings(w, "ITE_STORE") :
        LET k == Key(f.op.arg)  r == f.op.data[3]  waiting == Waiting(w, k) IN
        /\ ref_ite_store(w, k, r)
        /\ RemoveDeferredIte(w, k)
        /\ Emit(w, f, Answering(f.op.dest, Signed(r, f.op.arg.neg))
                      \o [n \in 1 .. Len(waiting) |->
                             Operand(waiting[n].dest, <<Signed(r, waiting[n].neg)>>)])
        /\ UNCHANGED <<seq_num, unique_table, clientVars>>
  BY DEF DoIteStore
<1> DEFINE op == f.op
           k == Key(op.arg)
           r == op.data[3]
           neg == op.arg.neg
           waiting == Waiting(w, k)
           more == [n \in 1 .. Len(waiting) |->
                        Operand(waiting[n].dest, <<Signed(r, waiting[n].neg)>>)]
<1>3. "ITE_STORE" \in Opcodes /\ 3 \in IteSlots("ITE_STORE")
  BY DEF Opcodes, IteSlots
<1>4. /\ op.code = "ITE_STORE" /\ Task(C, op, w)
      /\ r = C.meaning[op.id][3] /\ StoredIn(C, r)
  <2>1. RuntimeIn(C)
    BY <1>1 DEF DistIn
  <2>2. /\ f.op.code = "ITE_STORE" /\ OperatorIn(C, f.op, w)
        /\ \A o \in IteSlots("ITE_STORE") : f.op.data[o] = C.meaning[f.op.id][o]
                                              /\ StoredIn(C, f.op.data[o])
    BY <1>3, <2>1, FiringIn
  <2> QED BY <1>3, <2>2 DEF OperatorIn
<1>5. /\ k \in Triples /\ neg \in BOOLEAN /\ r = Ite(k[1], k[2], k[3])
      /\ Awaits(C, op.dest, Signed(r, neg))
  BY <1>4 DEF Task, Key, Triples
<1>6. TablesIn(C) /\ Later(C, C) /\ RuntimeIn(C)
  BY <1>1, LaterSame DEF DistIn
<1>7. WaitersIn(C, k, waiting)
  <2>1. WaitersIn(C, k, <<>>)
    <3> DEFINE S == {}
    <3>1. /\ <<>> \in Seq(S)
          /\ \A x \in S : x.neg \in BOOLEAN
                          /\ Awaits(C, x.dest, Signed(Ite(k[1], k[2], k[3]), x.neg))
      OBVIOUS
    <3> HIDE DEF S, k
    <3> QED BY <3>1 DEF WaitersIn
  <2> HIDE DEF k
  <2> QED BY <1>6, <2>1 DEF Waiting, TablesIn
<1>8. AllIn(C, more)
  <2>1. PICK S : /\ waiting \in Seq(S)
                 /\ \A x \in S : /\ x.neg \in BOOLEAN
                                 /\ Awaits(C, x.dest, Signed(Ite(k[1], k[2], k[3]), x.neg))
    BY <1>7 DEF WaitersIn
  <2> HIDE DEF waiting, r, k
  <2> DEFINE T == {Operand(x.dest, <<Signed(r, x.neg)>>) : x \in S}
  <2>2. more \in Seq(T)
    <3>1. Len(waiting) \in Nat /\ \A n \in 1 .. Len(waiting) : waiting[n] \in S
      BY <2>1
    <3> DEFINE I == 1 .. Len(waiting)
    <3>2. \A n \in I : Operand(waiting[n].dest, <<Signed(r, waiting[n].neg)>>) \in T
      BY <3>1
    <3> HIDE DEF T
    <3>3. more \in [I -> T]
      BY <3>2
    <3> QED BY <3>1, <3>3, SeqDef
  <2>3. \A m \in T : MessageIn(C, m)
    <3> SUFFICES ASSUME NEW x \in S PROVE MessageIn(C, Operand(x.dest, <<Signed(r, x.neg)>>))
      OBVIOUS
    <3>1. x.neg \in BOOLEAN /\ Awaits(C, x.dest, Signed(r, x.neg)) /\ StoredIn(C, r)
      BY <1>4, <1>5, <2>1
    <3>2. StoredIn(C, Signed(r, x.neg))
      BY <3>1, StoredFacts
    <3> QED BY <3>1, <3>2, AnswerIn
  <2> HIDE DEF T, more
  <2> QED BY <2>2, <2>3 DEF AllIn
<1>9. RuntimeIn(C)'
  <2> DEFINE ms == Answering(op.dest, Signed(r, neg)) \o more
  <2>1. Emit(w, f, ms)
    BY <1>2
  <2>2. AllIn(C, Answering(op.dest, Signed(r, neg)))
    <3> HIDE DEF op, r, neg
    <3> QED BY <1>4, <1>5, StoredFacts, AnswerIn
  <2> HIDE DEF more
  <2>3. AllIn(C, ms)
    BY <1>8, <2>2, Sequences
  <2> HIDE DEF ms
  <2> QED BY <1>3, <1>6, <2>1, <2>3, FireKeeps
<1>10. TablesIn(C)'
  <2>1. /\ ite_table' = [ite_table EXCEPT ![w] = keyvalue_insert(@, k, r)]
        /\ deferred_ite_table' = [deferred_ite_table EXCEPT ![w] = Restrict(@, DOMAIN @ \ {k})]
        /\ UNCHANGED unique_table
    BY <1>2 DEF ref_ite_store, RemoveDeferredIte
  <2>2. StoredIn(C, r)
    BY <1>4
  <2> HIDE DEF k, r
  <2>3. /\ DOMAIN ite_table' = Worker
        /\ \A u \in Worker : \A x \in DOMAIN ite_table'[u] :
              /\ x \in Triples /\ ite_table'[u][x] = Ite(x[1], x[2], x[3])
              /\ StoredIn(C, ite_table'[u][x])
    BY <1>5, <1>6, <2>1, <2>2 DEF TablesIn, keyvalue_insert
  <2>4. /\ DOMAIN deferred_ite_table' = Worker
        /\ \A u \in Worker : \A x \in DOMAIN deferred_ite_table'[u] :
              x \in Triples /\ WaitersIn(C, x, deferred_ite_table'[u][x])
    BY <1>6, <2>1 DEF TablesIn, Restrict
  <2> QED BY <1>6, <2>1, <2>3, <2>4 DEF TablesIn
<1>11. ClientsIn(C)'
  BY <1>1, <1>2, LaterSame, ClientsKeep DEF DistIn, clientVars, Emit
<1>12. DistIn(C)'
  BY <1>1, <1>2, <1>9, <1>10, <1>11 DEF DistIn
<1> QED BY <1>12 DEF DistInv

-----------------------------------------------------------------------------
(* The handlers that hand out work.                                        *)

(* Nobody waits in a new entry of the deferred table.                      *)
LEMMA EmptyWaiters == ASSUME NEW C, NEW k PROVE WaitersIn(C, k, <<>>)
<1> DEFINE S == {}
<1>1. /\ <<>> \in Seq(S)
      /\ \A x \in S : x.neg \in BOOLEAN /\ Awaits(C, x.dest, Signed(Ite(k[1], k[2], k[3]), x.neg))
  OBVIOUS
<1> HIDE DEF S
<1> QED BY <1>1 DEF WaitersIn

(* The rank of a member in a set of numbers.                               *)
LEMMA Ranks ==
    ASSUME NEW m \in Nat, NEW S \in SUBSET (1 .. m)
    PROVE  /\ Cardinality(S) \in 0 .. m
           /\ \A b \in S : Cardinality({j \in S : j =< b}) \in 1 .. Cardinality(S)
<1> DEFINE I == 1 .. m
<1>1. IsFiniteSet(I) /\ Cardinality(I) = m
  <2>1. 1 \in Int /\ m \in Int
    OBVIOUS
  <2>2. IsFiniteSet(1 .. m)
    BY <2>1, FS_Interval
  <2>3. Cardinality(1 .. m) = IF 1 > m THEN 0 ELSE m - 1 + 1
    BY <2>1, FS_Interval
  <2> QED BY <2>2, <2>3
<1>2. S \in SUBSET I
  OBVIOUS
<1> HIDE DEF I
<1>3. \A T \in SUBSET I : /\ IsFiniteSet(T) /\ Cardinality(T) \in Nat
                           /\ Cardinality(T) =< m
  BY <1>1, FS_Subset, FS_CardinalityType
<1>4. ASSUME NEW b \in S PROVE Cardinality({j \in S : j =< b}) \in 1 .. Cardinality(S)
  <2> DEFINE T == {j \in S : j =< b}
  <2>1. T \in SUBSET S /\ T \in SUBSET I /\ T # {}
    <3>1. b \in T
      BY <1>2 DEF I
    <3> QED BY <1>2, <3>1
  <2> HIDE DEF T
  <2>2. IsFiniteSet(S) /\ Cardinality(T) \in Nat /\ Cardinality(S) \in Nat /\ IsFiniteSet(T)
    BY <1>2, <1>3, <2>1
  <2>3. Cardinality(T) =< Cardinality(S)
    BY <2>1, <2>2, FS_Subset
  <2>4. Cardinality(T) # 0
    BY <2>1, <2>2, FS_EmptySet
  <2>5. Cardinality(T) \in 1 .. Cardinality(S)
    BY <2>2, <2>3, <2>4
  <2> QED BY <2>5 DEF T
<1> QED BY <1>2, <1>3, <1>4

(* What ref_ite_local returns, or hands on to the worker of its triple.    *)
LEMMA LocalIn ==
    ASSUME NEW C, NEW i, NEW t, NEW e, StoredIn(C, i), StoredIn(C, t), StoredIn(C, e)
    PROVE  LET a == ref_ite_local(i, t, e)
           IN  /\ a \in Args /\ Ite(i, t, e) \in Ref
               /\ StoredIn(C, a.i) /\ StoredIn(C, a.t) /\ StoredIn(C, a.e)
               /\ a.done => /\ Signed(a.t, a.neg) = Ite(i, t, e)
                            /\ StoredIn(C, Signed(a.t, a.neg))
               /\ ~a.done => /\ Signed(Ite(a.i, a.t, a.e), a.neg) = Ite(i, t, e)
                             /\ a.i # REF_ONE /\ a.i # REF_ZERO
<1> DEFINE S == {r \in Ref : StoredIn(C, r)}
           a == ref_ite_local(i, t, e)
<1>1. i \in Ref /\ t \in Ref /\ e \in Ref
  BY DEF StoredIn
<1>2. /\ S \in SUBSET Ref /\ REF_ONE \in S /\ REF_ZERO \in S /\ i \in S /\ t \in S /\ e \in S
      /\ \A r \in S : REF_NEGATE(r) \in S
  BY <1>1, StoredFacts DEF StoredIn
<1>3. /\ a.i \in S /\ a.t \in S /\ a.e \in S
      /\ ~a.done => a.i # REF_ONE /\ a.i # REF_ZERO
  <2> HIDE DEF S
  <2> QED BY <1>2, LocalFrom
<1>4. a \in Args /\ Signed(IF a.done THEN a.t ELSE Ite(a.i, a.t, a.e), a.neg) = Ite(i, t, e)
  BY <1>1, LocalSound
<1>5. Ite(i, t, e) \in Ref
  BY <1>1 DEF Ite, Ref
<1> HIDE DEF a
<1>6. a.neg \in BOOLEAN
  BY <1>4 DEF Args
<1>7. StoredIn(C, Signed(a.t, a.neg))
  BY <1>3, <1>6, StoredFacts
<1> QED BY <1>3, <1>4, <1>5, <1>7 DEF a

(* A lookup for what ref_ite_local leaves is right.                        *)
LEMMA LookupIn ==
    ASSUME NEW C, NEW i, NEW t, NEW e, StoredIn(C, i), StoredIn(C, t), StoredIn(C, e),
           ~ref_ite_local(i, t, e).done,
           NEW id, Issued(C, id), NEW dest, Awaits(C, dest, Ite(i, t, e)),
           C.rank[dest.id] < C.rank[id]
    PROVE  MessageIn(C, build_ite_lookup(id, dest, ref_ite_local(i, t, e),
                                         ref_ite_local(i, t, e).neg))
<1> DEFINE a == ref_ite_local(i, t, e)
           arg == [i |-> a.i, t |-> a.t, e |-> a.e, neg |-> a.neg]
           op == Operator("ITE_LOOKUP", id, dest, arg)
<1>1. /\ a \in Args /\ StoredIn(C, a.i) /\ StoredIn(C, a.t) /\ StoredIn(C, a.e)
      /\ Signed(Ite(a.i, a.t, a.e), a.neg) = Ite(i, t, e)
      /\ a.i # REF_ONE /\ a.i # REF_ZERO
  BY LocalIn
<1> HIDE DEF a
<1>2. a.neg \in BOOLEAN
  BY <1>1 DEF Args
<1>3. /\ op.code = "ITE_LOOKUP" /\ op.dest = dest /\ op.arg = arg
  BY DEF Operator
<1>4. Task(C, op, HomeTriple(a.i, a.t, a.e))
  <2> HIDE DEF op
  <2> QED BY <1>1, <1>2, <1>3 DEF Task
<1>5. MessageIn(C, Operation(HomeTriple(a.i, a.t, a.e), op))
  <2> HIDE DEF arg
  <2> QED BY <1>4, BareIn
<1> QED BY <1>5 DEF build_ite_lookup, a

-----------------------------------------------------------------------------
(* A result is canonized: known at once, or its node asked for.            *)
LEMMA CanonizeStep ==
    ASSUME DistInv, Rising, NEW w \in Worker, DoCanonize(w)
    PROVE  DistInv'
<1>1. PICK C : DistIn(C)
  BY DEF DistInv
<1>2. PICK f \in Firings(w, "CANONIZE") :
        LET op == f.op
            v  == op.arg.var
            hi == op.data[1]
            lo == op.data[2]
            r  == ref_canonize_local(v, hi, lo)
        IN
        /\ IF REF_INVALID \in {hi, lo} \/ ~LevelsFall(v, hi, lo)
           THEN Emit(w, f, Answering(op.dest, REF_INVALID)) /\ UNCHANGED seq_num
           ELSE IF r.done
           THEN Emit(w, f, Answering(op.dest, r.ref)) /\ UNCHANGED seq_num
           ELSE /\ Emit(w, f, <<build_canonize_lookup(NewId(w, 0), op.dest, r.node, r.neg)>>)
                /\ UseIds(w, 1)
        /\ UNCHANGED <<tableVars, clientVars>>
  BY DEF DoCanonize
<1> DEFINE op == f.op
           v  == op.arg.var
           hi == op.data[1]
           lo == op.data[2]
           r  == ref_canonize_local(v, hi, lo)
<1>3. "CANONIZE" \in Opcodes /\ 1 \in IteSlots("CANONIZE") /\ 2 \in IteSlots("CANONIZE")
  BY DEF Opcodes, IteSlots
<1>4. /\ Task(C, op, w) /\ op.code = "CANONIZE"
      /\ hi = C.meaning[op.id][1] /\ StoredIn(C, hi)
      /\ lo = C.meaning[op.id][2] /\ StoredIn(C, lo)
  <2>1. RuntimeIn(C)
    BY <1>1 DEF DistIn
  <2>2. /\ f.op.code = "CANONIZE" /\ OperatorIn(C, f.op, w)
        /\ \A o \in IteSlots("CANONIZE") : f.op.data[o] = C.meaning[f.op.id][o]
                                             /\ StoredIn(C, f.op.data[o])
    BY <1>3, <2>1, FiringIn
  <2> QED BY <1>3, <2>2 DEF OperatorIn
<1>5. v \in Var /\ Below(v, hi) /\ Below(v, lo) /\ Awaits(C, op.dest, Node(v, hi, lo))
  BY <1>4 DEF Task
<1> DEFINE dest == op.dest
<1>6. Awaits(C, dest, Node(v, hi, lo))
  BY <1>5
<1>7. /\ UNCHANGED <<tableVars, clientVars>>
      /\ IF REF_INVALID \in {hi, lo} \/ ~LevelsFall(v, hi, lo)
         THEN Emit(w, f, Answering(dest, REF_INVALID)) /\ UNCHANGED seq_num
         ELSE IF r.done
         THEN Emit(w, f, Answering(dest, r.ref)) /\ UNCHANGED seq_num
         ELSE /\ Emit(w, f, <<build_canonize_lookup(NewId(w, 0), dest, r.node, r.neg)>>)
              /\ UseIds(w, 1)
  BY <1>2
<1> HIDE DEF op, v, hi, lo, dest
<1>8. hi \in Ref /\ lo \in Ref /\ LevelsFall(v, hi, lo) /\ REF_INVALID \notin {hi, lo}
  <2>1. hi \in Ref /\ lo \in Ref
    BY <1>5 DEF Below
  <2> QED BY <1>5, <2>1, BelowLevel, IteAssumption DEF LevelsFall
<1>9. Later(C, C) /\ RuntimeIn(C) /\ C \in Worlds /\ C.seq = seq_num /\ C.nodes = unique_table
  BY <1>1, LaterSame DEF DistIn
<1>10. CASE r.done
  <2>1. r.ref = Node(v, hi, lo) /\ r.ref \in {hi, REF_VAR(v), REF_NEGATE(REF_VAR(v))}
    BY <1>5, <1>8, <1>10, CanonizeSound, CanonizeFrom
  <2>2. StoredIn(C, r.ref)
    BY <1>4, <1>5, <2>1, StoredFacts
  <2> DEFINE ms == Answering(dest, r.ref)
  <2>3. AllIn(C, ms) /\ Emit(w, f, ms) /\ UNCHANGED seq_num
    BY <1>6, <1>7, <1>8, <1>10, <2>1, <2>2, AnswerIn
  <2> HIDE DEF ms, r
  <2>4. DistIn(C)'
    BY <1>1, <1>3, <1>7, <1>9, <2>3, HandlerKeeps DEF tableVars
  <2> QED BY <2>4 DEF DistInv
<1>11. CASE ~r.done
  <2>1. /\ Signed(r.node, r.neg) = Node(v, hi, lo) /\ ~REF_GET_NEG(r.node)
        /\ r.neg \in BOOLEAN /\ r.node \in Ref
        /\ Children(r.node) = <<Signed(hi, r.neg), Signed(lo, r.neg)>>
    BY <1>5, <1>8, <1>11, CanonizeSound, CanonizeFrom
  <2> HIDE DEF r
  <2>2. NodeIn(C, r.node)
    BY <1>4, <2>1, StoredFacts DEF NodeIn
  <2>3. UseIds(w, 1) /\ w \in Agent /\ UNCHANGED unique_table
    BY <1>7, <1>8, <1>11 DEF Agent, tableVars
  <2> DEFINE M == [k \in 0 .. 0 |-> [o \in Nat |-> REF_ONE]]
  <2>4. M \in [0 .. (1 - 1) -> [Nat -> Ref]]
    BY DEF REF_ONE, Ref
  <2>5. PICK D : /\ Later(C, D) /\ D.seq = seq_num' /\ D.nodes = unique_table'
                 /\ \A k \in 0 .. (1 - 1) : /\ Issued(D, NewId(w, k))
                                            /\ D.rank[NewId(w, k)] = C.rank[dest.id] + 1 + k
    <3>1. C.rank[dest.id] \in Nat
      BY <1>6, <1>9, RanksAbove
    <3> HIDE DEF M
    <3> QED BY <1>9, <2>3, <2>4, <3>1, Handing
  <2>6. Issued(D, NewId(w, 0)) /\ NodeIn(D, r.node) /\ Awaits(D, dest, Node(v, hi, lo))
    BY <1>6, <2>2, <2>5, LaterKeeps
  <2>R. D.rank[dest.id] < D.rank[NewId(w, 0)]
    <3>1. C.rank[dest.id] \in Nat /\ D.rank[dest.id] = C.rank[dest.id]
      BY <1>6, <1>9, <2>5, RanksAbove
    <3>2. D.rank[NewId(w, 0)] = C.rank[dest.id] + 1 + 0
      BY <2>5
    <3> QED BY <3>1, <3>2
  <2> DEFINE new == Operator("CANONIZE_LOOKUP", NewId(w, 0), dest, [node |-> r.node, neg |-> r.neg])
             ms == <<build_canonize_lookup(NewId(w, 0), dest, r.node, r.neg)>>
  <2>7. Task(D, new, HomeNode(r.node))
    <3>1. /\ new.code = "CANONIZE_LOOKUP" /\ new.dest = dest
          /\ new.arg.node = r.node /\ new.arg.neg = r.neg
      BY DEF Operator
    <3> HIDE DEF new
    <3> QED BY <2>1, <2>6, <3>1 DEF Task
  <2>8. AllIn(D, ms)
    BY <2>6, <2>7, <2>R, BareIn, Sequences DEF build_canonize_lookup
  <2>9. Emit(w, f, ms)
    BY <1>7, <1>8, <1>11
  <2> HIDE DEF ms
  <2>10. DistIn(D)'
    BY <1>1, <1>3, <1>7, <2>5, <2>8, <2>9, HandlerKeeps
  <2> QED BY <2>10 DEF DistInv
<1> QED BY <1>10, <1>11

(* The two branches of a triple, and the operator that puts them together. *)
LEMMA RecurseStep ==
    ASSUME DistInv, Rising, NEW w \in Worker, DoIteRecurse(w)
    PROVE  DistInv'
<1>1. PICK C : DistIn(C)
  BY DEF DistInv
<1>2. PICK f \in Firings(w, "ITE_RECURSE") :
      \E branch \in {<<Branch(f.op.data, 1), Branch(f.op.data, 2)>>} :
        /\ LET op == f.op
               open == {b \in 1 .. 2 : ~branch[b].done}
               canonize == [Operator("CANONIZE", NewId(w, 0), op.dest, op.arg) EXCEPT !.data =
                               [b \in (1 .. 2) \ open |-> Signed(branch[b].t, branch[b].neg)]]
               Lookup(b) == build_ite_lookup(NewId(w, Cardinality({j \in open : j <= b})),
                                             Destination(w, NewId(w, 0), b),
                                             branch[b], branch[b].neg)
           IN
           /\ Emit(w, f, Only(1 \in open, Lookup(1)) \o Only(2 \in open, Lookup(2))
                         \o <<Operation(w, canonize)>>)
           /\ UseIds(w, 1 + Cardinality(open))
        /\ UNCHANGED <<tableVars, clientVars>>
  BY DEF DoIteRecurse
<1> DEFINE op == f.op
           d == op.data
           v == op.arg.var
           dest == op.dest
           branch == <<Branch(d, 1), Branch(d, 2)>>
           open == {b \in 1 .. 2 : ~branch[b].done}
           data == [b \in (1 .. 2) \ open |-> Signed(branch[b].t, branch[b].neg)]
           canonize == [Operator("CANONIZE", NewId(w, 0), dest, op.arg) EXCEPT !.data = data]
           Rank(b) == Cardinality({j \in open : j <= b})
           Lookup(b) == build_ite_lookup(NewId(w, Rank(b)), Destination(w, NewId(w, 0), b),
                                         branch[b], branch[b].neg)
           ms == Only(1 \in open, Lookup(1)) \o Only(2 \in open, Lookup(2))
                     \o <<Operation(w, canonize)>>
           X(b) == Ite(d[b], d[b + 2], d[b + 4])
<1>3. /\ Emit(w, f, ms) /\ UseIds(w, 1 + Cardinality(open))
      /\ UNCHANGED <<tableVars, clientVars>>
  BY <1>2
<1>4. "ITE_RECURSE" \in Opcodes /\ IteSlots("ITE_RECURSE") = 1 .. 6
  BY DEF Opcodes, IteSlots
<1>5. /\ Task(C, op, w) /\ op.code = "ITE_RECURSE"
      /\ \A o \in 1 .. 6 : d[o] = C.meaning[op.id][o] /\ StoredIn(C, d[o])
  <2>1. RuntimeIn(C)
    BY <1>1 DEF DistIn
  <2>2. /\ f.op.code = "ITE_RECURSE" /\ OperatorIn(C, f.op, w)
        /\ \A o \in IteSlots("ITE_RECURSE") : f.op.data[o] = C.meaning[f.op.id][o]
                                             /\ StoredIn(C, f.op.data[o])
    BY <1>4, <2>1, FiringIn
  <2> QED BY <1>4, <2>2 DEF OperatorIn
<1>6. /\ v \in Var /\ \A o \in 1 .. 6 : Below(v, d[o])
      /\ Awaits(C, dest, Node(v, X(1), X(2)))
  <2> DEFINE slot == C.meaning[op.id]
  <2>1. /\ v \in Var /\ \A o \in 1 .. 6 : Below(v, slot[o])
        /\ Awaits(C, dest, Node(v, Ite(slot[1], slot[3], slot[5]), Ite(slot[2], slot[4], slot[6])))
    BY <1>5 DEF Task
  <2>2. \A o \in 1 .. 6 : d[o] = slot[o]
    BY <1>5
  <2> HIDE DEF slot, d, v, dest
  <2> QED BY <2>1, <2>2
<1> HIDE DEF d, v, dest
<1>7. ASSUME NEW b \in 1 .. 2
      PROVE  /\ branch[b] = ref_ite_local(d[b], d[b + 2], d[b + 4])
             /\ StoredIn(C, d[b]) /\ StoredIn(C, d[b + 2]) /\ StoredIn(C, d[b + 4])
             /\ Below(v, X(b)) /\ X(b) \in Ref
  <2>1. b \in 1 .. 6 /\ b + 2 \in 1 .. 6 /\ b + 4 \in 1 .. 6
    OBVIOUS
  <2>2. branch[b] = Branch(d, b)
    <3>1. b = 1 \/ b = 2
      OBVIOUS
    <3> QED BY <3>1
  <2>3. Below(v, X(b))
    BY <1>6, <2>1, BelowIte
  <2> QED BY <1>5, <2>1, <2>2, <2>3 DEF Branch, Below
<1> HIDE DEF branch, X
<1>8. Cardinality(open) \in 0 .. 2 /\ \A b \in open : Rank(b) \in 1 .. Cardinality(open)
  <2>1. open \in SUBSET (1 .. 2)
    OBVIOUS
  <2> HIDE DEF open
  <2> QED BY <2>1, Ranks
<1> DEFINE n == 1 + Cardinality(open)
           M == [k \in 0 .. (n - 1) |->
                    IF k = 0 THEN [o \in Nat |-> IF o = 1 THEN X(1) ELSE X(2)]
                    ELSE [o \in Nat |-> REF_ONE]]
<1>9. n \in 1 .. 5 /\ w \in Agent /\ UseIds(w, n) /\ UNCHANGED unique_table
  BY <1>3, <1>8 DEF Agent, tableVars
<1>10. M \in [0 .. (n - 1) -> [Nat -> Ref]]
  <2>1. X(1) \in Ref /\ X(2) \in Ref /\ REF_ONE \in Ref
    BY <1>7 DEF REF_ONE, Ref
  <2> HIDE DEF n
  <2> QED BY <2>1
<1>11. C \in Worlds /\ C.seq = seq_num /\ C.nodes = unique_table
  BY <1>1 DEF DistIn
<1>12. PICK D : /\ Later(C, D) /\ D.seq = seq_num' /\ D.nodes = unique_table'
                /\ \A k \in 0 .. (n - 1) : /\ NewId(w, k) \in Id /\ Issued(D, NewId(w, k))
                                           /\ D.meaning[NewId(w, k)] = M[k]
                                           /\ D.rank[NewId(w, k)] = C.rank[dest.id] + 1 + k
  <2>1. C.rank[dest.id] \in Nat
    BY <1>6, <1>11, LaterSame, RanksAbove DEF X
  <2> HIDE DEF n, M
  <2> QED BY <1>9, <1>10, <1>11, <2>1, Handing
<1>R. /\ D.rank[dest.id] < D.rank[NewId(w, 0)]
      /\ \A b \in open : D.rank[NewId(w, 0)] < D.rank[NewId(w, Rank(b))]
  <2>1. C.rank[dest.id] \in Nat /\ D.rank[dest.id] = C.rank[dest.id]
    BY <1>6, <1>11, <1>12, RanksAbove DEF X
  <2>2. \A b \in open : Rank(b) \in 0 .. (n - 1) /\ Rank(b) \in Nat /\ Rank(b) > 0
    <3> HIDE DEF Rank, open
    <3> QED BY <1>8
  <2>3. 0 \in 0 .. (n - 1)
    BY <1>8
  <2> HIDE DEF n, M, Rank, open
  <2>4. D.rank[NewId(w, 0)] = C.rank[dest.id] + 1 + 0
    BY <1>12, <2>3
  <2>5. ASSUME NEW b \in open PROVE D.rank[NewId(w, Rank(b))] = C.rank[dest.id] + 1 + Rank(b)
    BY <1>12, <2>2
  <2> QED BY <2>1, <2>2, <2>4, <2>5
<1>13. /\ NewId(w, 0) \in Id /\ Issued(D, NewId(w, 0))
       /\ D.meaning[NewId(w, 0)] = [o \in Nat |-> IF o = 1 THEN X(1) ELSE X(2)]
  <2>1. 0 \in 0 .. (n - 1) /\ M[0] = [o \in Nat |-> IF o = 1 THEN X(1) ELSE X(2)]
    BY <1>8
  <2> HIDE DEF n, M
  <2> QED BY <1>12, <2>1
<1>14. \A b \in 1 .. 2 : D.meaning[NewId(w, 0)][b] = X(b)
  BY <1>13
<1>15. ASSUME NEW b \in open PROVE MessageIn(D, Lookup(b))
  <2>1. Rank(b) \in 0 .. (n - 1) /\ b \in 1 .. 2 /\ ~branch[b].done
    BY <1>8
  <2>2. Issued(D, NewId(w, Rank(b)))
    <3> HIDE DEF n, M, Rank
    <3> QED BY <1>12, <2>1
  <2> DEFINE to == Destination(w, NewId(w, 0), b)
  <2>3. Awaits(D, to, X(b))
    <3>1. /\ to = [agent |-> w, id |-> NewId(w, 0), offset |-> b]
          /\ to.agent = w /\ to.id = NewId(w, 0) /\ to.offset = b
      BY DEF Destination
    <3>2. to \in [agent : Agent, id : Id, offset : Nat]
      BY <1>9, <1>13, <2>1, <3>1
    <3> HIDE DEF to
    <3> QED BY <1>13, <1>14, <2>1, <3>1, <3>2, DataflowAssumption DEF Awaits
  <2>4. StoredIn(D, d[b]) /\ StoredIn(D, d[b + 2]) /\ StoredIn(D, d[b + 4])
    BY <1>7, <1>12, <2>1, LaterKeeps
  <2>R. D.rank[to.id] < D.rank[NewId(w, Rank(b))]
    <3>1. to.id = NewId(w, 0)
      BY DEF Destination
    <3> HIDE DEF to, Rank, open
    <3> QED BY <1>R, <3>1
  <2> HIDE DEF to, Rank, open
  <2>5. MessageIn(D, build_ite_lookup(NewId(w, Rank(b)), to, branch[b], branch[b].neg))
    BY <1>7, <2>1, <2>2, <2>3, <2>4, <2>R, LookupIn DEF X
  <2> QED BY <2>5 DEF to
<1>16. Right(D, NewId(w, 0), data)
  <2> SUFFICES ASSUME NEW b \in (1 .. 2) \ open
               PROVE  /\ b \in Nat /\ data[b] = D.meaning[NewId(w, 0)][b] /\ StoredIn(D, data[b])
    BY DEF Right
  <2>1. b \in 1 .. 2 /\ branch[b].done /\ data[b] = Signed(branch[b].t, branch[b].neg)
    OBVIOUS
  <2>2. data[b] = X(b) /\ StoredIn(C, data[b])
    <3> HIDE DEF open, data
    <3> QED BY <1>7, <2>1, LocalIn DEF X
  <2> HIDE DEF data, open
  <2> QED BY <1>12, <1>14, <2>1, <2>2, LaterKeeps
<1>17. MessageIn(D, Operation(w, canonize))
  <2>1. /\ canonize.code = "CANONIZE" /\ canonize.id = NewId(w, 0) /\ canonize.dest = dest
        /\ canonize.arg.var = v
    BY DEF Operator, v
  <2>2. Awaits(D, dest, Node(v, X(1), X(2)))
    BY <1>6, <1>12, LaterKeeps DEF X
  <2>3. Below(v, X(1)) /\ Below(v, X(2))
    BY <1>7
  <2>4. Task(D, canonize, w)
    <3> HIDE DEF canonize
    <3> QED BY <1>6, <1>14, <2>1, <2>2, <2>3 DEF Task
  <2> HIDE DEF data
  <2> QED BY <1>13, <1>16, <1>R, <2>4, OperationIn
<1>18. AllIn(D, ms)
  <2>1. AllIn(D, Only(1 \in open, Lookup(1))) /\ AllIn(D, Only(2 \in open, Lookup(2)))
    <3>1. (1 \in open) \in BOOLEAN /\ (2 \in open) \in BOOLEAN
      OBVIOUS
    <3> HIDE DEF Lookup, open
    <3>2. AllIn(D, Only(1 \in open, Lookup(1)))
      BY <1>15, <3>1, OnlyIn
    <3>3. AllIn(D, Only(2 \in open, Lookup(2)))
      BY <1>15, <3>1, OnlyIn
    <3> QED BY <3>2, <3>3
  <2>2. AllIn(D, <<Operation(w, canonize)>>)
    BY <1>17, Sequences
  <2> HIDE DEF Lookup, open, canonize
  <2> QED BY <2>1, <2>2, Sequences
<1> HIDE DEF ms, n, M
<1>19. DistIn(D)'
  BY <1>1, <1>3, <1>4, <1>12, <1>18, HandlerKeeps
<1> QED BY <1>19 DEF DistInv

(* The slots that a member of a triple fills.                              *)
LEMMA SlotPairs ==
    ASSUME NEW n \in 1 .. 3, NEW o, o = 2 * n - 1 \/ o = 2 * n
    PROVE  /\ o \in 1 .. 6 /\ (o + 1) \div 2 = n
           /\ 2 - (o % 2) = IF o = 2 * n - 1 THEN 1 ELSE 2
<1>1. n = 1 \/ n = 2 \/ n = 3
  OBVIOUS
<1>2. CASE n = 1
  <2>1. o = 1 \/ o = 2
    BY <1>2
  <2> QED BY <1>2, <2>1
<1>3. CASE n = 2
  <2>1. o = 3 \/ o = 4
    BY <1>3
  <2> QED BY <1>3, <2>1
<1>4. CASE n = 3
  <2>1. o = 5 \/ o = 6
    BY <1>4
  <2> QED BY <1>4, <2>1
<1> QED BY <1>1, <1>2, <1>3, <1>4

(* A triple is split: the store, the recursion with the branches that are  *)
(* known, and a retrieval for each of the others.  What their slots are to *)
(* receive is chosen here.                                                 *)
LEMMA SplitStep ==
    ASSUME DistInv, Rising, NEW w \in Worker, IteSplit(w)
    PROVE  DistInv'
<1>1. PICK C : DistIn(C)
  BY DEF DistInv
<1>2. PICK f \in Firings(w, "ITE_LOOKUP") : \E split \in {Split[Key(f.op.arg)]} :
        /\ LET op   == f.op
               k    == Key(op.arg)
               near == UNION {{2 * n - 1, 2 * n} : n \in (1 .. 3) \ split.far}
               store   == Operator("ITE_STORE", NewId(w, 0), op.dest, op.arg)
               recurse == [Operator("ITE_RECURSE", NewId(w, 1),
                                    Destination(w, NewId(w, 0), 3), [var |-> split.var])
                           EXCEPT !.data = [o \in near |->
                                      split.branches[(o + 1) \div 2][2 - (o % 2)]]]
               Retrieve(n) == build_retrieve_lookup(
                                  NewId(w, 1 + Cardinality({j \in split.far : j <= n})),
                                  Destination(w, NewId(w, 1), 2 * n - 1), k[n])
           IN
           /\ deferred_ite_table' = [deferred_ite_table EXCEPT ![w] =
                                         keyvalue_insert(@, k, <<>>)]
           /\ Emit(w, f, Only(1 \in split.far, Retrieve(1)) \o Only(2 \in split.far, Retrieve(2))
                         \o Only(3 \in split.far, Retrieve(3))
                         \o <<Operation(w, store), Operation(w, recurse)>>)
           /\ UseIds(w, 2 + Cardinality(split.far))
        /\ UNCHANGED <<unique_table, ite_table, clientVars>>
  BY DEF IteSplit
<1> DEFINE op   == f.op
           k    == Key(op.arg)
           neg  == op.arg.neg
           dest == op.dest
           split == Split[k]
           v    == split.var
           far  == split.far
           near == UNION {{2 * n - 1, 2 * n} : n \in (1 .. 3) \ far}
           data == [o \in near |-> split.branches[(o + 1) \div 2][2 - (o % 2)]]
           store   == Operator("ITE_STORE", NewId(w, 0), dest, op.arg)
           recurse == [Operator("ITE_RECURSE", NewId(w, 1), Destination(w, NewId(w, 0), 3),
                                [var |-> v]) EXCEPT !.data = data]
           Rank(n) == Cardinality({j \in far : j =< n})
           Retrieve(n) == build_retrieve_lookup(NewId(w, 1 + Rank(n)),
                                                Destination(w, NewId(w, 1), 2 * n - 1), k[n])
           ms == Only(1 \in far, Retrieve(1)) \o Only(2 \in far, Retrieve(2))
                     \o Only(3 \in far, Retrieve(3)) \o <<Operation(w, store), Operation(w, recurse)>>
<1>3. /\ Emit(w, f, ms) /\ UseIds(w, 2 + Cardinality(far))
      /\ deferred_ite_table' = [deferred_ite_table EXCEPT ![w] = keyvalue_insert(@, k, <<>>)]
      /\ UNCHANGED <<unique_table, ite_table, clientVars>>
  BY <1>2
<1>4. "ITE_LOOKUP" \in Opcodes
  BY DEF Opcodes
<1>5. op.code = "ITE_LOOKUP" /\ Task(C, op, w)
  BY <1>1, <1>4, FiringIn DEF DistIn, OperatorIn
<1>6. /\ k = <<op.arg.i, op.arg.t, op.arg.e>>
      /\ \A n \in 1 .. 3 : StoredIn(C, k[n]) /\ k[n] \in Ref
      /\ k[1] # REF_ONE /\ k[1] # REF_ZERO /\ neg \in BOOLEAN /\ k \in Triples
      /\ Awaits(C, dest, Signed(Ite(k[1], k[2], k[3]), neg))
  BY <1>5 DEF Task, Key, StoredIn, Triples
<1> DEFINE H(n) == Hi(k[n], v)
           L(n) == Lo(k[n], v)
<1>7. /\ v \in Var /\ far \subseteq 1 .. 3
      /\ \A n \in 1 .. 3 :
            /\ split.branches[n] = <<H(n), L(n)>>
            /\ Below(v, H(n)) /\ Below(v, L(n))
            /\ n \in far => REF_IS_FUNCT(k[n]) /\ Children(k[n]) = <<H(n), L(n)>>
            /\ n \notin far => {H(n), L(n)} \subseteq {k[n], REF_ONE, REF_ZERO}
  <2>1. k \in Triples /\ k[1] # REF_ONE /\ k[1] # REF_ZERO
    BY <1>6
  <2> HIDE DEF k
  <2>2. LET s == Split[k]
        IN  /\ s.var \in Var /\ s.far \subseteq 1 .. 3
            /\ \A n \in 1 .. 3 :
                 /\ s.branches[n] = <<Hi(k[n], s.var), Lo(k[n], s.var)>>
                 /\ Below(s.var, Hi(k[n], s.var)) /\ Below(s.var, Lo(k[n], s.var))
                 /\ n \in s.far => REF_IS_FUNCT(k[n]) /\ Children(k[n]) = s.branches[n]
                 /\ n \notin s.far => {Hi(k[n], s.var), Lo(k[n], s.var)}
                                          \subseteq {k[n], REF_ONE, REF_ZERO}
    BY <2>1, SplitBranches DEF Triples
  <2> QED BY <2>2
<1> HIDE DEF split
<1>8. Cardinality(far) \in 0 .. 3 /\ \A n \in far : Rank(n) \in 1 .. Cardinality(far)
  <2>1. far \in SUBSET (1 .. 3)
    BY <1>7
  <2> HIDE DEF far
  <2> QED BY <2>1, Ranks
<1> DEFINE R == Ite(k[1], k[2], k[3])
           M1 == [o \in Nat |-> IF o = 1 THEN H(1) ELSE IF o = 2 THEN L(1) ELSE IF o = 3 THEN H(2)
                                ELSE IF o = 4 THEN L(2) ELSE IF o = 5 THEN H(3) ELSE L(3)]
           size == 2 + Cardinality(far)
           M == [j \in 0 .. (size - 1) |->
                    IF j = 0 THEN [o \in Nat |-> R] ELSE IF j = 1 THEN M1
                    ELSE [o \in Nat |-> REF_ONE]]
<1>9. size \in 2 .. 5 /\ size \in 1 .. 5 /\ w \in Agent /\ UseIds(w, size)
  BY <1>3, <1>8 DEF Agent
<1>10. /\ R \in Ref /\ \A n \in 1 .. 3 : H(n) \in Ref /\ L(n) \in Ref
       /\ M \in [0 .. (size - 1) -> [Nat -> Ref]]
  <2>1. R \in Ref /\ REF_ONE \in Ref
    BY <1>6, RefClosed DEF REF_ONE, Ref, Ite
  <2>2. \A n \in 1 .. 3 : H(n) \in Ref /\ L(n) \in Ref
    BY <1>7 DEF Below
  <2>3. H(1) \in Ref /\ H(2) \in Ref /\ H(3) \in Ref /\ L(1) \in Ref /\ L(2) \in Ref /\ L(3) \in Ref
    BY <2>2
  <2> HIDE DEF size, R, H, L
  <2>4. M1 \in [Nat -> Ref]
    BY <2>3
  <2> HIDE DEF M1
  <2> QED BY <2>1, <2>2, <2>4
<1>11. C \in Worlds /\ C.seq = seq_num /\ C.nodes = unique_table /\ RuntimeIn(C) /\ TablesIn(C)
       /\ ClientsIn(C) /\ UNCHANGED unique_table
  BY <1>1, <1>3 DEF DistIn
<1>12. PICK D : /\ Later(C, D) /\ D.seq = seq_num' /\ D.nodes = unique_table'
                /\ \A j \in 0 .. (size - 1) : /\ NewId(w, j) \in Id /\ Issued(D, NewId(w, j))
                                              /\ D.meaning[NewId(w, j)] = M[j]
                                              /\ D.rank[NewId(w, j)] = C.rank[dest.id] + 1 + j
  <2>1. C.rank[dest.id] \in Nat
    BY <1>6, <1>11, LaterSame, RanksAbove
  <2> HIDE DEF size, M
  <2> QED BY <1>9, <1>10, <1>11, <2>1, Handing
<1>R. /\ D.rank[dest.id] < D.rank[NewId(w, 0)] /\ D.rank[NewId(w, 0)] < D.rank[NewId(w, 1)]
      /\ \A n \in far : D.rank[NewId(w, 1)] < D.rank[NewId(w, 1 + Rank(n))]
  <2>1. C.rank[dest.id] \in Nat /\ D.rank[dest.id] = C.rank[dest.id]
    BY <1>6, <1>11, <1>12, RanksAbove
  <2>2. \A n \in far : 1 + Rank(n) \in 0 .. (size - 1) /\ Rank(n) \in Nat /\ Rank(n) > 0
    <3> HIDE DEF Rank, far
    <3> QED BY <1>8
  <2>3. 0 \in 0 .. (size - 1) /\ 1 \in 0 .. (size - 1)
    BY <1>8
  <2> HIDE DEF size, M, Rank, far
  <2>4. D.rank[NewId(w, 0)] = C.rank[dest.id] + 1 + 0 /\ D.rank[NewId(w, 1)] = C.rank[dest.id] + 1 + 1
    BY <1>12, <2>3
  <2>5. ASSUME NEW n \in far
        PROVE  D.rank[NewId(w, 1 + Rank(n))] = C.rank[dest.id] + 1 + (1 + Rank(n))
    BY <1>12, <2>2
  <2> QED BY <2>1, <2>2, <2>4, <2>5
<1>13. /\ NewId(w, 0) \in Id /\ Issued(D, NewId(w, 0)) /\ D.meaning[NewId(w, 0)][3] = R
       /\ NewId(w, 1) \in Id /\ Issued(D, NewId(w, 1)) /\ D.meaning[NewId(w, 1)] = M1
       /\ \A n \in far : Issued(D, NewId(w, 1 + Rank(n)))
  <2>1. /\ 0 \in 0 .. (size - 1) /\ 1 \in 0 .. (size - 1)
        /\ \A n \in far : 1 + Rank(n) \in 0 .. (size - 1)
    BY <1>8, <1>9
  <2> HIDE DEF size, M1, R, far, Rank
  <2>2. M[0] = [o \in Nat |-> R] /\ M[1] = M1
    BY <2>1
  <2> HIDE DEF M
  <2> QED BY <1>12, <2>1, <2>2
<1>14. \A n \in 1 .. 3 : M1[2 * n - 1] = H(n) /\ M1[2 * n] = L(n)
  <2> SUFFICES ASSUME NEW n \in 1 .. 3 PROVE M1[2 * n - 1] = H(n) /\ M1[2 * n] = L(n)
    OBVIOUS
  <2>1. n = 1 \/ n = 2 \/ n = 3
    OBVIOUS
  <2> HIDE DEF H, L
  <2>2. /\ M1[1] = H(1) /\ M1[2] = L(1) /\ M1[3] = H(2)
        /\ M1[4] = L(2) /\ M1[5] = H(3) /\ M1[6] = L(3)
    OBVIOUS
  <2> HIDE DEF M1
  <2>3. CASE n = 1 BY <2>2, <2>3
  <2>4. CASE n = 2 BY <2>2, <2>4
  <2>5. CASE n = 3 BY <2>2, <2>5
  <2> QED BY <2>1, <2>3, <2>4, <2>5
<1> HIDE DEF M1, R, H, L, size, M
<1>15. /\ Awaits(D, dest, Signed(R, neg)) /\ \A n \in 1 .. 3 : StoredIn(D, k[n])
       /\ StoredIn(D, REF_ONE) /\ StoredIn(D, REF_ZERO)
  BY <1>6, <1>12, LaterKeeps, StoredFacts DEF R
<1>16. ASSUME NEW n \in far PROVE MessageIn(D, Retrieve(n))
  <2> DEFINE to == Destination(w, NewId(w, 1), 2 * n - 1)
             arg == [ref |-> k[n]]
             m == Operator("RETRIEVE_LOOKUP", NewId(w, 1 + Rank(n)), to, arg)
  <2>1. /\ n \in 1 .. 3 /\ 2 * n - 1 \in Nat /\ (2 * n - 1) + 1 = 2 * n
        /\ StoredIn(D, k[n]) /\ REF_IS_FUNCT(k[n])
        /\ Children(k[n])[1] = H(n) /\ Children(k[n])[2] = L(n)
    BY <1>7, <1>15
  <2>2. /\ to = [agent |-> w, id |-> NewId(w, 1), offset |-> 2 * n - 1]
        /\ to.agent = w /\ to.id = NewId(w, 1) /\ to.offset = 2 * n - 1
    BY DEF Destination
  <2>3. to \in [agent : Agent, id : Id, offset : Nat]
    BY <1>9, <1>13, <2>1, <2>2
  <2> HIDE DEF to, far
  <2>4. /\ Awaits(D, to, H(n)) /\ D.meaning[to.id][to.offset + 1] = L(n)
    BY <1>13, <1>14, <2>1, <2>2, <2>3, DataflowAssumption DEF Awaits
  <2>5. m.code = "RETRIEVE_LOOKUP" /\ m.dest = to /\ m.arg.ref = k[n]
    BY DEF Operator
  <2> HIDE DEF k, Rank
  <2>6. Task(D, m, HomeRef(k[n]))
    <3> HIDE DEF m
    <3> QED BY <2>1, <2>4, <2>5 DEF Task
  <2>R. D.rank[to.id] < D.rank[NewId(w, 1 + Rank(n))]
    BY <1>R, <2>2
  <2> HIDE DEF arg
  <2>7. MessageIn(D, Operation(HomeRef(k[n]), m))
    BY <1>13, <2>6, <2>R, BareIn
  <2> QED BY <2>7 DEF build_retrieve_lookup, to, arg
<1>17. MessageIn(D, Operation(w, store))
  <2>1. store.code = "ITE_STORE" /\ store.id = NewId(w, 0) /\ store.dest = dest /\ store.arg = op.arg
    BY DEF Operator
  <2>2. /\ op.arg.i \in Ref /\ op.arg.t \in Ref /\ op.arg.e \in Ref /\ op.arg.neg \in BOOLEAN
        /\ R = Ite(op.arg.i, op.arg.t, op.arg.e)
    BY <1>5, <1>6 DEF R, Task, StoredIn
  <2>3. Task(D, store, w)
    <3> HIDE DEF store, op, dest
    <3>1. Awaits(D, dest, Signed(R, op.arg.neg)) /\ D.meaning[store.id][3] = R
      BY <1>13, <1>15, <2>1
    <3> QED BY <2>1, <2>2, <3>1 DEF Task
  <2> HIDE DEF op, dest
  <2> QED BY <1>13, <1>R, <2>3, BareIn
<1>18. Right(D, NewId(w, 1), data)
  <2> SUFFICES ASSUME NEW o \in near
               PROVE  /\ o \in Nat /\ data[o] = D.meaning[NewId(w, 1)][o] /\ StoredIn(D, data[o])
    BY DEF Right
  <2>1. PICK n \in (1 .. 3) \ far : o = 2 * n - 1 \/ o = 2 * n
    OBVIOUS
  <2>2. data[o] = split.branches[(o + 1) \div 2][2 - (o % 2)]
    OBVIOUS
  <2> HIDE DEF data, near, far, k
  <2>3. /\ o \in 1 .. 6 /\ (o + 1) \div 2 = n
        /\ 2 - (o % 2) = IF o = 2 * n - 1 THEN 1 ELSE 2
    BY <2>1, SlotPairs
  <2>4. /\ split.branches[n] = <<H(n), L(n)>> /\ n \in 1 .. 3
        /\ H(n) \in {k[n], REF_ONE, REF_ZERO} /\ L(n) \in {k[n], REF_ONE, REF_ZERO}
    BY <1>7, <2>1
  <2>5. StoredIn(D, H(n)) /\ StoredIn(D, L(n))
    BY <1>15, <2>4
  <2>6. M1[o] = data[o] /\ StoredIn(D, data[o])
    <3>1. CASE o = 2 * n - 1
      <4>1. data[o] = H(n)
        BY <2>2, <2>3, <2>4, <3>1
      <4>2. M1[o] = H(n)
        BY <1>14, <2>4, <3>1
      <4> QED BY <2>5, <4>1, <4>2
    <3>2. CASE o = 2 * n
      <4>1. o # 2 * n - 1
        BY <3>2, <2>4
      <4>2. data[o] = L(n)
        BY <2>2, <2>3, <2>4, <4>1
      <4>3. M1[o] = L(n)
        BY <1>14, <2>4, <3>2
      <4> QED BY <2>5, <4>2, <4>3
    <3> QED BY <2>1, <3>1, <3>2
  <2> QED BY <1>13, <2>3, <2>6
<1>19. MessageIn(D, Operation(w, recurse))
  <2> DEFINE to == Destination(w, NewId(w, 0), 3)
  <2>1. /\ recurse.code = "ITE_RECURSE" /\ recurse.id = NewId(w, 1) /\ recurse.dest = to
        /\ recurse.arg.var = v
    BY DEF Operator
  <2>2. /\ to = [agent |-> w, id |-> NewId(w, 0), offset |-> 3]
        /\ to.agent = w /\ to.id = NewId(w, 0) /\ to.offset = 3
    BY DEF Destination
  <2>3. to \in [agent : Agent, id : Id, offset : Nat]
    BY <1>9, <1>13, <2>2
  <2>4. R = Node(v, Ite(H(1), H(2), H(3)), Ite(L(1), L(2), L(3)))
    <3> HIDE DEF k, v
    <3> QED BY <1>6, <1>7, SplitSound DEF R, H, L
  <2>5. Awaits(D, to, R)
    <3> HIDE DEF to
    <3> QED BY <1>13, <2>2, <2>3, DataflowAssumption DEF Awaits
  <2>6. \A o \in 1 .. 6 : Below(v, M1[o])
    <3> SUFFICES ASSUME NEW o \in 1 .. 6 PROVE Below(v, M1[o])
      OBVIOUS
    <3>1. PICK n \in 1 .. 3 : o = 2 * n - 1 \/ o = 2 * n
      <4>1. \/ o = 2 * 1 - 1 \/ o = 2 * 1 \/ o = 2 * 2 - 1 \/ o = 2 * 2 \/ o = 2 * 3 - 1 \/ o = 2 * 3
        OBVIOUS
      <4>2. 1 \in 1 .. 3 /\ 2 \in 1 .. 3 /\ 3 \in 1 .. 3
        OBVIOUS
      <4> QED BY <4>1, <4>2
    <3> QED BY <1>7, <1>14, <3>1
  <2>7. /\ M1[1] = H(1) /\ M1[2] = L(1) /\ M1[3] = H(2)
        /\ M1[4] = L(2) /\ M1[5] = H(3) /\ M1[6] = L(3)
    BY DEF M1
  <2>8. Task(D, recurse, w)
    <3> HIDE DEF recurse, to, v
    <3>1. Awaits(D, to, Node(v, Ite(M1[1], M1[3], M1[5]), Ite(M1[2], M1[4], M1[6])))
      BY <2>4, <2>5, <2>7
    <3>2. D.meaning[recurse.id] = M1
      BY <1>13, <2>1
    <3> QED BY <1>7, <2>1, <2>6, <3>1, <3>2 DEF Task, v
  <2> DEFINE arg == [var |-> v]
  <2>9. Task(D, [Operator("ITE_RECURSE", NewId(w, 1), to, arg) EXCEPT !.data = data], w)
    BY <2>8
  <2>R. D.rank[to.id] < D.rank[NewId(w, 1)]
    <3> HIDE DEF to
    <3> QED BY <1>R, <2>2
  <2> HIDE DEF data, to, arg
  <2>10. MessageIn(D, Operation(w, [Operator("ITE_RECURSE", NewId(w, 1), to, arg)
                                        EXCEPT !.data = data]))
    BY <1>13, <1>18, <2>9, <2>R, OperationIn
  <2> QED BY <2>10 DEF to, arg
<1>20. AllIn(D, ms)
  <2> HIDE DEF Retrieve, far, store, recurse
  <2>1. (1 \in far) \in BOOLEAN /\ (2 \in far) \in BOOLEAN /\ (3 \in far) \in BOOLEAN
    OBVIOUS
  <2>2. AllIn(D, Only(1 \in far, Retrieve(1)))
    BY <1>16, <2>1, OnlyIn
  <2>3. AllIn(D, Only(2 \in far, Retrieve(2)))
    BY <1>16, <2>1, OnlyIn
  <2>4. AllIn(D, Only(3 \in far, Retrieve(3)))
    BY <1>16, <2>1, OnlyIn
  <2>5. AllIn(D, <<Operation(w, store), Operation(w, recurse)>>)
    <3> DEFINE a == Operation(w, store)   b == Operation(w, recurse)
               S == {a, b}
    <3>1. MessageIn(D, a) /\ MessageIn(D, b)
      BY <1>17, <1>19
    <3> HIDE DEF a, b
    <3>2. <<a, b>> \in Seq(S) /\ \A m \in S : MessageIn(D, m)
      BY <3>1
    <3> HIDE DEF S
    <3>3. AllIn(D, <<a, b>>)
      BY <3>2 DEF AllIn
    <3> QED BY <3>3 DEF a, b
  <2> QED BY <2>2, <2>3, <2>4, <2>5, Sequences
<1> HIDE DEF ms
<1>21. RuntimeIn(D)'
  BY <1>3, <1>4, <1>11, <1>12, <1>20, FireKeeps
<1>22. TablesIn(D)'
  <2>1. /\ k \in Triples /\ WaitersIn(D, k, <<>>)
        /\ deferred_ite_table' = [deferred_ite_table EXCEPT ![w] = keyvalue_insert(@, k, <<>>)]
        /\ UNCHANGED <<unique_table, ite_table>>
    BY <1>3, <1>6, EmptyWaiters
  <2> HIDE DEF k
  <2>2. /\ DOMAIN ite_table = Worker
        /\ \A u \in Worker : \A n \in unique_table[u] : NodeIn(D, n)
        /\ \A u \in Worker : \A x \in DOMAIN ite_table[u] :
              /\ x \in Triples /\ ite_table[u][x] = Ite(x[1], x[2], x[3])
              /\ StoredIn(D, ite_table[u][x])
    BY <1>11, <1>12, LaterKeeps DEF TablesIn
  <2>3. /\ DOMAIN deferred_ite_table = Worker
        /\ \A u \in Worker : \A x \in DOMAIN deferred_ite_table[u] :
              x \in Triples /\ WaitersIn(D, x, deferred_ite_table[u][x])
    BY <1>11, <1>12, WaitersKeep DEF TablesIn
  <2>4. /\ DOMAIN deferred_ite_table' = Worker
        /\ \A u \in Worker : \A x \in DOMAIN deferred_ite_table'[u] :
              x \in Triples /\ WaitersIn(D, x, deferred_ite_table'[u][x])
    BY <2>1, <2>3 DEF keyvalue_insert
  <2> QED BY <2>1, <2>2, <2>4 DEF TablesIn
<1>23. ClientsIn(D)'
  <2>1. UNCHANGED <<known, wait, asked>>
    BY <1>3 DEF clientVars, Emit
  <2> QED BY <1>11, <1>12, <2>1, ClientsKeep
<1>24. D \in Worlds
  BY <1>12 DEF Later
<1>25. DistIn(D)'
  BY <1>12, <1>21, <1>22, <1>23, <1>24 DEF DistIn
<1> QED BY <1>25 DEF DistInv

-----------------------------------------------------------------------------
(* The clients, and the theorems.                                          *)

(* A client settles an operation by itself.                                *)
LEMMA AskLocallyStep ==
    ASSUME DistInv, NEW c \in Client, AskLocally(c)
    PROVE  DistInv'
<1>1. PICK C : DistIn(C)
  BY DEF DistInv
<1>2. PICK k \in Asks :
        /\ Asking(c, k)
        /\ ref_ite_local(k[1], k[2], k[3]).done
        /\ known' = [known EXCEPT ![c] = @ \union Both(Signed(ref_ite_local(k[1], k[2], k[3]).t,
                                                              ref_ite_local(k[1], k[2], k[3]).neg))]
        /\ UNCHANGED <<runtimeVars, tableVars, asked>>
  BY DEF AskLocally
<1> DEFINE a == ref_ite_local(k[1], k[2], k[3])
           r == Signed(a.t, a.neg)
<1>3. StoredIn(C, k[1]) /\ StoredIn(C, k[2]) /\ StoredIn(C, k[3])
  BY <1>1, <1>2 DEF Asking, DistIn, ClientsIn
<1>4. StoredIn(C, r) /\ StoredIn(C, REF_NEGATE(r))
  BY <1>2, <1>3, LocalIn, StoredFacts
<1>5. known' = [known EXCEPT ![c] = @ \union Both(r)]
  BY <1>2
<1> HIDE DEF r
<1>6. Later(C, C) /\ UNCHANGED <<seq_num, unique_table, wait, asked>>
  BY <1>1, <1>2, LaterSame DEF DistIn, runtimeVars, tableVars
<1>7. RuntimeIn(C)' /\ TablesIn(C)'
  BY <1>1, <1>2, <1>6, RuntimeKeeps, TablesKeep DEF DistIn
<1>8. ClientsIn(C)'
  BY <1>1, <1>4, <1>5, <1>6 DEF DistIn, ClientsIn, Both
<1>9. DistIn(C)'
  BY <1>1, <1>6, <1>7, <1>8 DEF DistIn
<1> QED BY <1>9 DEF DistInv

(* A client asks the worker of the triple; its destination is to receive   *)
(* the ITE it asks for.                                                    *)
LEMMA AskStep ==
    ASSUME DistInv, Rising, NEW c \in Client, Ask(c)
    PROVE  DistInv'
<1>1. PICK C : DistIn(C)
  BY DEF DistInv
<1>2. PICK k \in Asks :
        LET r == ref_ite_local(k[1], k[2], k[3])
            m == build_ite_lookup(NewId(c, 1), Destination(c, NewId(c, 0), 0), r, r.neg)
        IN  /\ Asking(c, k)
            /\ ~r.done
            /\ FireAndWait(c, m.to, m.op)
            /\ asked' = [asked EXCEPT ![c] = k]
            /\ UNCHANGED <<tableVars, known>>
  BY DEF Ask
<1> DEFINE r == ref_ite_local(k[1], k[2], k[3])
           to == Destination(c, NewId(c, 0), 0)
           m == build_ite_lookup(NewId(c, 1), to, r, r.neg)
           R == Ite(k[1], k[2], k[3])
<1>3. StoredIn(C, k[1]) /\ StoredIn(C, k[2]) /\ StoredIn(C, k[3]) /\ ~r.done /\ k # None
  BY <1>1, <1>2, IteAssumption DEF Asking, DistIn, ClientsIn
<1>4. m = Operation(m.to, m.op) /\ m.op.dest = to
  BY DEF build_ite_lookup, Operation, Operator
<1>5. /\ wait' = [wait EXCEPT ![c] = to] /\ asked' = [asked EXCEPT ![c] = k]
      /\ net' = net (+) SetToBag({m}) /\ UseIds(c, 2)
      /\ UNCHANGED <<operator_table, deferred_operand_table, agenda, unique_table>>
      /\ UNCHANGED <<tableVars, known>>
  BY <1>2, <1>4 DEF FireAndWait, tableVars
<1>6. c \in Agent /\ 2 \in 1 .. 5 /\ UseIds(c, 2) /\ UNCHANGED unique_table
  BY <1>5 DEF Agent
<1>7. R \in Ref
  BY <1>3, LocalIn
<1> DEFINE M == [j \in 0 .. (2 - 1) |-> [o \in Nat |-> R]]
<1>8. M \in [0 .. (2 - 1) -> [Nat -> Ref]]
  <2> HIDE DEF R
  <2> QED BY <1>7
<1>9. /\ C \in Worlds /\ C.seq = seq_num /\ C.nodes = unique_table
      /\ RuntimeIn(C) /\ TablesIn(C) /\ ClientsIn(C)
  BY <1>1 DEF DistIn
<1>10. PICK D : /\ Later(C, D) /\ D.seq = seq_num' /\ D.nodes = unique_table'
                /\ \A j \in 0 .. (2 - 1) : /\ NewId(c, j) \in Id /\ Issued(D, NewId(c, j))
                                           /\ D.meaning[NewId(c, j)] = M[j]
                                           /\ D.rank[NewId(c, j)] = 0 + 1 + j
  <2>1. 0 \in Nat
    OBVIOUS
  <2> HIDE DEF M
  <2> QED BY <1>6, <1>8, <1>9, <2>1, Handing
<1>11. /\ NewId(c, 0) \in Id /\ Issued(D, NewId(c, 0)) /\ Issued(D, NewId(c, 1))
       /\ D.meaning[NewId(c, 0)][0] = R
       /\ D.rank[NewId(c, 0)] < D.rank[NewId(c, 1)]
  <2>1. 0 \in 0 .. (2 - 1) /\ 1 \in 0 .. (2 - 1) /\ M[0][0] = R
    OBVIOUS
  <2> HIDE DEF M, R
  <2> QED BY <1>10, <2>1
<1>12. /\ to = [agent |-> c, id |-> NewId(c, 0), offset |-> 0]
       /\ to.agent = c /\ to.id = NewId(c, 0) /\ to.offset = 0
  BY DEF Destination
<1>13. to # None
  <2>1. seq_num \in [Agent -> 0 .. IdLimit - 1]
    BY <1>9 DEF Worlds
  <2>2. 0 \in 0 .. (2 - 1)
    OBVIOUS
  <2>3. NewId(c, 0) = [agent |-> c, seq |-> seq_num[c] + 0]
    BY <1>6, <2>1, <2>2, Numbers
  <2>4. seq_num[c] + 0 \in 0 .. IdLimit - 1
    BY <1>6, <2>1, DataflowAssumption
  <2>5. to \in [agent : Client, id : [agent : Client, seq : 0 .. IdLimit - 1], offset : {0}]
    BY <1>12, <2>3, <2>4
  <2> HIDE DEF to
  <2> QED BY <2>5, IteAssumption
<1>14. Awaits(D, to, R)
  <2>1. to \in [agent : Agent, id : Id, offset : Nat]
    BY <1>6, <1>11, <1>12
  <2> HIDE DEF to, R
  <2> QED BY <1>11, <1>12, <2>1 DEF Awaits
<1>15. MessageIn(D, m)
  <2>1. StoredIn(D, k[1]) /\ StoredIn(D, k[2]) /\ StoredIn(D, k[3])
    BY <1>3, <1>10, LaterKeeps
  <2> HIDE DEF to
  <2> QED BY <1>3, <1>11, <1>12, <1>14, <2>1, LookupIn
<1> HIDE DEF m, to
<1>16. RuntimeIn(D)'
  <2>1. DOMAIN net' = DOMAIN net \cup {m}
    BY <1>5, BagDomains
  <2>2. \A x \in DOMAIN net' : MessageIn(D, x)
    BY <1>9, <1>10, <1>15, <2>1, MessageKeeps DEF RuntimeIn
  <2>3. /\ DOMAIN agenda = Worker /\ DOMAIN operator_table = Worker
        /\ DOMAIN deferred_operand_table = Worker
        /\ \A w \in Worker : AllIn(D, agenda[w])
        /\ \A w \in Worker : \A id \in DOMAIN operator_table[w] :
               operator_table[w][id].id = id /\ OperatorIn(D, operator_table[w][id], w)
        /\ \A w \in Worker : \A id \in DOMAIN deferred_operand_table[w] :
               ListIn(D, id, deferred_operand_table[w][id])
    BY <1>9, <1>10, MessageKeeps, SequenceKeeps DEF RuntimeIn
  <2> QED BY <1>5, <2>2, <2>3 DEF RuntimeIn
<1>17. TablesIn(D)'
  BY <1>5, <1>9, <1>10, TablesKeep
<1>18. ClientsIn(D)'
  <2>1. \A x \in Client : \A s \in known[x] : StoredIn(D, s)
    BY <1>9, <1>10, LaterKeeps DEF ClientsIn
  <2>2. \A x \in Client : wait[x] # None =>
           /\ asked[x] \in Asks /\ wait[x].agent = x /\ wait[x].offset = 0
           /\ Awaits(D, wait[x], Ite(asked[x][1], asked[x][2], asked[x][3]))
    BY <1>9, <1>10, LaterKeeps DEF ClientsIn
  <2>3. /\ DOMAIN known = Client /\ DOMAIN wait = Client /\ DOMAIN asked = Client
        /\ \A x \in Client : wait[x] = None <=> asked[x] = None
    BY <1>9 DEF ClientsIn
  <2>4. k \in Asks /\ to.agent = c /\ to.offset = 0 /\ Awaits(D, to, Ite(k[1], k[2], k[3]))
    BY <1>12, <1>14
  <2> QED BY <1>3, <1>5, <1>13, <2>1, <2>2, <2>3, <2>4 DEF ClientsIn
<1>19. D \in Worlds
  BY <1>10 DEF Later
<1>20. DistIn(D)'
  BY <1>10, <1>16, <1>17, <1>18, <1>19 DEF DistIn
<1> QED BY <1>20 DEF DistInv

(* A client takes its answer.                                              *)
LEMMA AnswerStep ==
    ASSUME DistInv, NEW c \in Client, Answer(c)
    PROVE  DistInv'
<1>1. PICK C : DistIn(C)
  BY DEF DistInv
<1>2. PICK m \in BagToSet(net) :
        /\ TakeAnswer(c, m)
        /\ known' = [known EXCEPT ![c] = @ \union IF m.data[0] = REF_INVALID THEN {REF_INVALID}
                                                       ELSE Both(m.data[0])]
        /\ asked' = [asked EXCEPT ![c] = None]
        /\ UNCHANGED <<tableVars, asks>>
  BY DEF Answer
<1>3. /\ m \in DOMAIN net /\ m.to = c /\ m.kind = "operand"
      /\ wait' = [wait EXCEPT ![c] = None] /\ net' = net (-) SetToBag({m})
      /\ UNCHANGED <<operator_table, deferred_operand_table, agenda, seq_num>>
      /\ UNCHANGED <<unique_table, ite_table, deferred_ite_table>>
  BY <1>2 DEF TakeAnswer, BagToSet, tableVars
<1>4. /\ C \in Worlds /\ C.seq = seq_num /\ C.nodes = unique_table /\ Later(C, C)
      /\ RuntimeIn(C) /\ TablesIn(C) /\ ClientsIn(C)
  BY <1>1, LaterSame DEF DistIn
<1> DEFINE r == m.data[0]
<1>5. StoredIn(C, r)
  <2>1. OperandIn(C, m)
    BY <1>3, <1>4 DEF RuntimeIn, MessageIn
  <2> QED BY <1>3, <2>1 DEF OperandIn, Right
<1>6. r # REF_INVALID /\ StoredIn(C, REF_NEGATE(r))
  BY <1>5, IteAssumption, StoredFacts DEF StoredIn
<1>7. known' = [known EXCEPT ![c] = @ \union Both(r)]
  BY <1>2, <1>6
<1> HIDE DEF r
<1>8. RuntimeIn(C)'
  <2>1. DOMAIN net' \subseteq DOMAIN net
    BY <1>3, BagDomains
  <2> QED BY <1>3, <1>4, <2>1 DEF RuntimeIn
<1>9. TablesIn(C)'
  BY <1>2, <1>4, TablesKeep
<1>10. ClientsIn(C)'
  BY <1>2, <1>3, <1>4, <1>5, <1>6, <1>7 DEF ClientsIn, Both
<1>11. DistIn(C)'
  BY <1>3, <1>4, <1>8, <1>9, <1>10 DEF DistIn
<1> QED BY <1>11 DEF DistInv

-----------------------------------------------------------------------------
(* At first nothing is promised.                                           *)
LEMMA InitRight == Init => DistInv
<1> SUFFICES ASSUME Init PROVE DistInv
  OBVIOUS
<1>1. /\ net = EmptyBag
      /\ operator_table = [w \in Worker |-> <<>>] /\ deferred_operand_table = [w \in Worker |-> <<>>]
      /\ agenda = [w \in Worker |-> <<>>] /\ seq_num = [a \in Agent |-> 0]
      /\ wait = [c \in Client |-> None] /\ asked = [c \in Client |-> None]
      /\ unique_table = [w \in Worker |-> {}] /\ ite_table = [w \in Worker |-> <<>>]
      /\ deferred_ite_table = [w \in Worker |-> <<>>] /\ known = [c \in Client |-> Known0]
  BY DEF Init, DataflowInit
<1> DEFINE meaning == [id \in Id |-> [o \in Nat |-> REF_ONE]]
           rank == [id \in Id |-> 0]
           C == [meaning |-> meaning, rank |-> rank, seq |-> seq_num, nodes |-> unique_table]
<1>2. C \in Worlds
  <2>1. REF_ONE \in Ref
    BY DEF REF_ONE, Ref
  <2>2. meaning \in [Id -> [Nat -> Ref]]
    BY <2>1
  <2>3. seq_num \in [Agent -> 0 .. IdLimit - 1] /\ unique_table \in [Worker -> SUBSET Ref]
    BY <1>1, DataflowAssumption
  <2>4. rank \in [Id -> Nat]
    OBVIOUS
  <2> HIDE DEF meaning, rank
  <2> QED BY <2>2, <2>3, <2>4 DEF Worlds
<1>3. C.seq = seq_num /\ C.nodes = unique_table
  OBVIOUS
<1> HIDE DEF C
<1>4. RuntimeIn(C)
  <2>1. DOMAIN net = {}
    BY <1>1 DEF EmptyBag, SetToBag
  <2>2. AllIn(C, <<>>)
    BY Sequences
  <2>3. \A w \in Worker : DOMAIN operator_table[w] = {} /\ DOMAIN deferred_operand_table[w] = {}
    BY <1>1
  <2> QED BY <1>1, <2>1, <2>2, <2>3 DEF RuntimeIn
<1>5. TablesIn(C)
  <2>1. \A w \in Worker : /\ DOMAIN ite_table[w] = {} /\ DOMAIN deferred_ite_table[w] = {}
                          /\ unique_table[w] = {}
    BY <1>1
  <2> QED BY <1>1, <2>1 DEF TablesIn
<1>6. ClientsIn(C)
  <2>1. \A r \in Known0 : StoredIn(C, r)
    BY StoredFacts DEF Known0, Both
  <2> QED BY <1>1, <2>1 DEF ClientsIn
<1>7. DistIn(C)
  BY <1>2, <1>3, <1>4, <1>5, <1>6 DEF DistIn
<1> QED BY <1>7 DEF DistInv

(* A step of nothing.                                                      *)
LEMMA StutterStep ==
    ASSUME DistInv, UNCHANGED vars
    PROVE  DistInv'
<1>1. PICK C : DistIn(C)
  BY DEF DistInv
<1>2. /\ UNCHANGED runtimeVars /\ UNCHANGED tableVars /\ UNCHANGED <<known, wait, asked>>
      /\ UNCHANGED <<seq_num, unique_table>>
  BY DEF vars, runtimeVars, tableVars, clientVars
<1>3. Later(C, C)
  BY <1>1, LaterSame DEF DistIn
<1>4. RuntimeIn(C)' /\ TablesIn(C)' /\ ClientsIn(C)'
  BY <1>1, <1>2, <1>3, RuntimeKeeps, TablesKeep, ClientsKeep DEF DistIn
<1>5. DistIn(C)'
  BY <1>1, <1>2, <1>4 DEF DistIn
<1> QED BY <1>5 DEF DistInv

(* No agent hands out 2^48 identifiers in the life of the system.  The     *)
(* code assumes it: identifiers are compared for equality only.            *)
NeverWraps == [][Rising]_vars

(* Every step keeps the invariant.                                         *)
LEMMA StepRight == DistInv /\ [Next]_vars /\ [Rising]_vars => DistInv'
<1> SUFFICES ASSUME DistInv, [Next]_vars, [Rising]_vars PROVE DistInv'
  OBVIOUS
<1>1. CASE UNCHANGED vars
  BY <1>1, StutterStep
<1>2. ASSUME Rising, NEW w \in Worker, WorkerStep(w) PROVE DistInv'
  BY <1>2, QueueStep, HitStep, JoinStep, SplitStep, RetrieveStep, RecurseStep, CanonizeStep,
     CanonizeLookupStep, StoreStep DEF WorkerStep
<1>3. ASSUME Rising, NEW c \in Client, Ask(c) \/ AskLocally(c) \/ Answer(c) PROVE DistInv'
  BY <1>3, AskStep, AskLocallyStep, AnswerStep
<1> QED BY <1>1, <1>2, <1>3 DEF Next

(* Whatever the interleaving, there is always a world that fits: every     *)
(* slot of every operator, wherever it is, and every client that waits can *)
(* be given one function which everything on its way there agrees with.    *)
THEOREM AlwaysRight == Spec /\ NeverWraps => []DistInv
<1>1. Init => DistInv
  BY InitRight
<1>2. DistInv /\ [Next]_vars /\ [Rising]_vars => DistInv'
  BY StepRight
<1> QED BY <1>1, <1>2, PTL DEF Spec, NeverWraps

(* The members of sequences and lists that are right.                      *)
LEMMA Members ==
    ASSUME NEW C
    PROVE  /\ \A s : AllIn(C, s) => \A n \in DOMAIN s : MessageIn(C, s[n]) \/ s[n].kind = "retire"
           /\ \A id, ls : ListIn(C, id, ls) => \A n \in DOMAIN ls : OperandIn(C, ls[n])
<1>1. \A S, s : s \in Seq(S) => \A n \in DOMAIN s : s[n] \in S
  OBVIOUS
<1> QED BY <1>1 DEF AllIn, ListIn

(* Every operator that has not fired is right.                             *)
LEMMA PlacedRight ==
    ASSUME NEW C, RuntimeIn(C), NEW p \in Places
    PROVE  \E op, a : OperatorAt(p) = op /\ OperatorIn(C, op, a)
<1>1. ASSUME NEW m \in Operations(BagToSet(net)), p = <<"net", m>>
      PROVE  OperatorAt(p) = m.op /\ OperatorIn(C, m.op, m.to)
  <2>1. MessageIn(C, m) /\ m.kind = "operation"
    BY <1>1 DEF RuntimeIn, Operations, BagToSet
  <2> QED BY <1>1, <2>1 DEF OperatorAt, MessageIn
<1>2. ASSUME NEW w \in Worker, NEW n \in DOMAIN agenda[w], agenda[w][n].kind = "operation",
             p = <<"agenda", w, n>>
      PROVE  \E a : OperatorAt(p) = agenda[w][n].op /\ OperatorIn(C, agenda[w][n].op, a)
  <2>1. AllIn(C, agenda[w])
    BY DEF RuntimeIn
  <2>2. MessageIn(C, agenda[w][n]) \/ agenda[w][n].kind = "retire"
    BY <2>1, Members
  <2>3. OperatorIn(C, agenda[w][n].op, agenda[w][n].to)
    BY <1>2, <2>2 DEF MessageIn
  <2> QED BY <1>2, <2>3 DEF OperatorAt
<1>3. ASSUME NEW w \in Worker, NEW id \in DOMAIN operator_table[w], p = <<"table", w, id>>
      PROVE  /\ OperatorAt(p) = operator_table[w][id]
             /\ OperatorIn(C, operator_table[w][id], w)
  BY <1>3 DEF OperatorAt, RuntimeIn
<1>4. CASE \E m \in Operations(BagToSet(net)) : p = <<"net", m>>
  BY <1>1, <1>4
<1>5. CASE \E w \in Worker : \E n \in DOMAIN agenda[w] :
               agenda[w][n].kind = "operation" /\ p = <<"agenda", w, n>>
  BY <1>2, <1>5
<1>6. CASE \E w \in Worker : \E id \in DOMAIN operator_table[w] : p = <<"table", w, id>>
  BY <1>3, <1>6
<1> QED BY <1>4, <1>5, <1>6 DEF Places

(* All references that the properties speak of are stored.                 *)
LEMMA MentionedStored ==
    ASSUME NEW C, DistIn(C)
    PROVE  \A r \in Mentioned : StoredIn(C, r)
<1>1. RuntimeIn(C) /\ TablesIn(C) /\ ClientsIn(C)
  BY DEF DistIn
<1>2. \A c \in Client : \A r \in known[c] : StoredIn(C, r)
  BY <1>1 DEF ClientsIn
<1>3. \A id, data : Right(C, id, data) => \A r \in DataOf(data) : StoredIn(C, r)
  BY DEF Right, DataOf
<1>4. ASSUME NEW p \in Places PROVE \A r \in DataOf(OperatorAt(p).data) : StoredIn(C, r)
  <2>1. \E op, a : OperatorAt(p) = op /\ OperatorIn(C, op, a)
    BY <1>1, PlacedRight
  <2> QED BY <1>3, <2>1 DEF OperatorIn
<1>5. ASSUME NEW p \in OperandPlaces PROVE \A r \in DataOf(OperandAt(p).data) : StoredIn(C, r)
  <2>1. OperandIn(C, OperandAt(p))
    <3>1. ASSUME NEW m \in BagToSet(net), m.kind = "operand", p = <<"net", m>>
          PROVE  OperandIn(C, OperandAt(p))
      BY <1>1, <3>1 DEF RuntimeIn, BagToSet, OperandAt, MessageIn
    <3>2. ASSUME NEW w \in Worker, NEW n \in DOMAIN agenda[w], agenda[w][n].kind = "operand",
                 p = <<"agenda", w, n>>
          PROVE  OperandIn(C, OperandAt(p))
      <4>1. AllIn(C, agenda[w])
        BY <1>1 DEF RuntimeIn
      <4>2. MessageIn(C, agenda[w][n]) \/ agenda[w][n].kind = "retire"
        BY <4>1, Members
      <4> QED BY <3>2, <4>2 DEF OperandAt, MessageIn
    <3>3. ASSUME NEW w \in Worker, NEW id \in DOMAIN deferred_operand_table[w],
                 NEW n \in DOMAIN Deferred(w, id), p = <<"deferred", w, id, n>>
          PROVE  OperandIn(C, OperandAt(p))
      <4>1. ListIn(C, id, Deferred(w, id))
        BY <1>1 DEF RuntimeIn, Deferred
      <4> QED BY <3>3, <4>1, Members DEF OperandAt
    <3>4. CASE \E m \in BagToSet(net) : m.kind = "operand" /\ p = <<"net", m>>
      BY <3>1, <3>4
    <3>5. CASE \E w \in Worker : \E n \in DOMAIN agenda[w] :
                   agenda[w][n].kind = "operand" /\ p = <<"agenda", w, n>>
      BY <3>2, <3>5
    <3>6. CASE \E w \in Worker : \E id \in DOMAIN deferred_operand_table[w] :
                   \E n \in DOMAIN Deferred(w, id) : p = <<"deferred", w, id, n>>
      BY <3>3, <3>6
    <3> QED BY <3>4, <3>5, <3>6 DEF OperandPlaces
  <2> QED BY <1>3, <2>1 DEF OperandIn
<1>6. \A w \in Worker : \A r \in DataOf(ite_table[w]) : StoredIn(C, r)
  BY <1>1 DEF TablesIn, DataOf
<1>7. ASSUME NEW r \in Mentioned PROVE StoredIn(C, r)
  <2>1. CASE \E c \in Client : r \in known[c]
    BY <1>2, <2>1
  <2>2. CASE \E p \in Places : r \in DataOf(OperatorAt(p).data)
    BY <1>4, <2>2
  <2>3. CASE \E p \in OperandPlaces : r \in DataOf(OperandAt(p).data)
    BY <1>5, <2>3
  <2>4. CASE \E w \in Worker : r \in DataOf(ite_table[w])
    BY <1>6, <2>4
  <2> QED BY <2>1, <2>2, <2>3, <2>4 DEF Mentioned
<1> QED BY <1>7

(* The invariant gives the properties that the run checks.                 *)
LEMMA InvNodesStored == DistInv => NodesStored
  BY MentionedStored DEF DistInv, DistIn, NodesStored, StoredIn, HomeRef

LEMMA InvCacheRight == DistInv => CacheRight
  BY DEF DistInv, DistIn, TablesIn, CacheRight

LEMMA InvTypeOK == DistInv => TypeOK
<1> SUFFICES ASSUME NEW C, DistIn(C) PROVE TypeOK
  BY DEF DistInv
<1>1. Mentioned \subseteq Ref
  BY MentionedStored DEF StoredIn
<1>2. REF_INVALID \notin Mentioned
  BY <1>1, IteAssumption
<1>3. unique_table \in [Worker -> SUBSET Ref] /\ seq_num \in [Agent -> 0 .. IdLimit - 1]
  BY DEF DistIn, Worlds
<1>4. \A c \in Client : wait[c] = None <=> asked[c] = None
  BY DEF DistIn, ClientsIn
<1> QED BY <1>1, <1>2, <1>3, <1>4 DEF TypeOK

(* The ITE cache of a worker never holds a wrong result, for any workers,  *)
(* clients, variables, hash functions and order of the messages.           *)
THEOREM AlwaysCacheRight == Spec /\ NeverWraps => []CacheRight
  BY AlwaysRight, InvCacheRight, PTL
(* The node of every function that a client, an operator, an operand or a  *)
(* cache refers to is at the worker its hash selects.                      *)
THEOREM AlwaysStored == Spec /\ NeverWraps => []NodesStored
  BY AlwaysRight, InvNodesStored, PTL
(* References stay references; the one for a failure never appears; a      *)
(* client waits exactly while it has asked.                                *)
THEOREM AlwaysTyped == Spec /\ NeverWraps => []TypeOK
  BY AlwaysRight, InvTypeOK, PTL
=============================================================================
