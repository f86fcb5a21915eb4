------------------------- MODULE DistITEProperties --------------------------
(***************************************************************************)
(* What distributed ITE must keep while operators, operands and requests   *)
(* of several clients overtake one another.                                *)
(***************************************************************************)
EXTENDS DistITE

-----------------------------------------------------------------------------
(***************************************************************************)
(* The operators that have not fired: on their way, or queued and not      *)
(* full, each with the place that holds it.                                *)
(***************************************************************************)
Operations(ms) == {m \in ms : m.kind = "operation"}

Places ==
    {<<"net", m>> : m \in Operations(BagToSet(net))}
    \union (UNION {{<<"agenda", w, n>> : n \in
                       {k \in DOMAIN agenda[w] : agenda[w][k].kind = "operation"}}
                   : w \in Worker})
    \union (UNION {{<<"table", w, id>> : id \in
                       {i \in DOMAIN operator_table[w] :
                           ~op_check_full(operator_table[w][i])}}
                   : w \in Worker})

OperatorAt(p) == CASE p[1] = "net"    -> p[2].op
                   [] p[1] = "agenda" -> agenda[p[2]][p[3]].op
                   [] p[1] = "table"  -> operator_table[p[2]][p[3]]
AgentAt(p) == CASE p[1] = "net"    -> p[2].to
                [] p[1] = "agenda" -> agenda[p[2]][p[3]].to
                [] p[1] = "table"  -> p[2]

(***************************************************************************)
(* The slots that wait for a value: the empty ones of those operators and  *)
(* the destination of a client that waits.  What feeds a slot: an operand, *)
(* an operator that will answer there, an entry of a deferred list.        *)
(***************************************************************************)
Empty(p) == {Destination(AgentAt(p), OperatorAt(p).id, o) :
                o \in Slots(OperatorAt(p).code) \ DOMAIN OperatorAt(p).data}
EmptySlots == (UNION {Empty(p) : p \in Places})
              \union {wait[c] : c \in {a \in Client : wait[a] # None}}

OperandSlots(m) == {Destination(m.to, m.id, o) : o \in DOMAIN m.data}
AnswerSlots(op) == IF op.code = "RETRIEVE_LOOKUP"
                   THEN {op.dest, [op.dest EXCEPT !.offset = @ + 1]}
                   ELSE {op.dest}

OperandPlaces ==
    {<<"net", m>> : m \in {x \in BagToSet(net) : x.kind = "operand"}}
    \union (UNION {{<<"agenda", w, n>> : n \in
                       {k \in DOMAIN agenda[w] : agenda[w][k].kind = "operand"}}
                   : w \in Worker})
    \union (UNION {UNION {{<<"deferred", w, id, n>> : n \in DOMAIN Deferred(w, id)}
                          : id \in DOMAIN deferred_operand_table[w]}
                   : w \in Worker})

OperandAt(p) == CASE p[1] = "net"      -> p[2]
                  [] p[1] = "agenda"   -> agenda[p[2]][p[3]]
                  [] p[1] = "deferred" -> Deferred(p[2], p[3])[p[4]]

JoinPlaces ==
    UNION {UNION {{<<"join", w, k, n>> : n \in DOMAIN Waiting(w, k)}
                  : k \in DOMAIN deferred_ite_table[w]}
           : w \in Worker}

Feeds ==
    LET operands == OperandPlaces
        operators == Places
    IN  [p \in operands \union operators \union JoinPlaces |->
            CASE p \in operands  -> OperandSlots(OperandAt(p))
              [] p \in operators -> AnswerSlots(OperatorAt(p))
              [] OTHER           -> {Waiting(p[2], p[3])[p[4]].dest}]

(***************************************************************************)
(* Every empty slot is fed from exactly one place, and everything on its   *)
(* way feeds an empty slot.  So no operand is lost, none fills a slot that *)
(* is filled (the error of op_insert_word), none comes for an operator     *)
(* that has fired, and a client's first operand is its answer, although    *)
(* fire_and_wait_defer does not compare identifiers.                       *)
(***************************************************************************)
OneSource == /\ \A m \in BagToSet(net) : net[m] = 1
             /\ \A d \in EmptySlots :
                    Cardinality({p \in DOMAIN Feeds : d \in Feeds[p]}) = 1
             /\ \A p \in DOMAIN Feeds : Feeds[p] \subseteq EmptySlots

(***************************************************************************)
(* No two operators that have not fired share an identifier, so that       *)
(* receive_operation never drops one for a collision.                      *)
(***************************************************************************)
IdsDiffer == \A p, q \in Places : OperatorAt(p).id = OperatorAt(q).id => p = q

(***************************************************************************)
(* A triple is computed once at a time: it has an entry in the deferred    *)
(* table of its worker exactly while one store operator for it has not     *)
(* fired, and no entry once it is in the cache.                            *)
(***************************************************************************)
StorePlaces(w, k) == {p \in Places : /\ AgentAt(p) = w
                                     /\ OperatorAt(p).code = "ITE_STORE"
                                     /\ Key(OperatorAt(p).arg) = k}

ComputedOnce == \A w \in Worker :
    /\ DOMAIN ite_table[w] \intersect DOMAIN deferred_ite_table[w] = {}
    /\ \A k \in DOMAIN deferred_ite_table[w] : Cardinality(StorePlaces(w, k)) = 1
    /\ \A p \in Places : OperatorAt(p).code = "ITE_STORE" /\ AgentAt(p) = w =>
           Key(OperatorAt(p).arg) \in DOMAIN deferred_ite_table[w]

(***************************************************************************)
(* The node of every function that a client, an operator, an operand or a  *)
(* cache refers to is at the worker its hash selects: no retrieval fails.  *)
(***************************************************************************)
DataOf(f) == {f[o] : o \in DOMAIN f}
Mentioned == (UNION {known[c] : c \in Client})
             \union (UNION {DataOf(OperatorAt(p).data) : p \in Places})
             \union (UNION {DataOf(OperandAt(p).data) : p \in OperandPlaces})
             \union (UNION {DataOf(ite_table[w]) : w \in Worker})

NodesStored == \A r \in Mentioned :
    REF_IS_FUNCT(r) => REF_ABSVAL(r) \in unique_table[HomeNode(REF_ABSVAL(r))]

(***************************************************************************)
(* A worker's cache never holds a wrong result, though its entries come    *)
(* from triples that were rearranged and complemented on the way.          *)
(***************************************************************************)
CacheRight == \A w \in Worker : \A k \in DOMAIN ite_table[w] :
    ite_table[w][k] = Ite(k[1], k[2], k[3])

(***************************************************************************)
(* When no client waits and no worker is within a handler, nothing is left *)
(* behind: no message, no operator, no deferred operand, no pending triple.*)
(***************************************************************************)
NothingLeft ==
    /\ \A c \in Client : wait[c] = None
    /\ \A w \in Worker : agenda[w] = <<>>
    =>
    /\ net = EmptyBag
    /\ \A w \in Worker : /\ operator_table[w] = <<>>
                         /\ deferred_operand_table[w] = <<>>
                         /\ deferred_ite_table[w] = <<>>

(***************************************************************************)
(* The references the program handles are functions, never the one that    *)
(* stands for a failure, and a client waits exactly while it has asked.    *)
(***************************************************************************)
TypeOK == /\ REF_INVALID \notin Mentioned /\ Mentioned \subseteq Ref
          /\ \A w \in Worker : unique_table[w] \subseteq Ref
          /\ \A c \in Client : wait[c] = None <=> asked[c] = None
          /\ \A a \in Agent : seq_num[a] \in 0 .. IdLimit - 1

-----------------------------------------------------------------------------
(***************************************************************************)
(* Distributed ITE implements the service: whatever the interleaving, a    *)
(* client gets the ITE of what it asked for, and it gets it eventually.    *)
(***************************************************************************)
Service == INSTANCE IteService WITH
    Complement <- REF_NEGATE,
    Meaning    <- LAMBDA k : Ite(k[1], k[2], k[3])

ImplementsService == Service!Spec
=============================================================================
