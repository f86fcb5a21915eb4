------------------------------ MODULE Dataflow ------------------------------
(***************************************************************************)
(* The dataflow runtime of src/agent.c.  An operator is a message with     *)
(* empty slots; operands, sent to a destination (agent, operator, offset), *)
(* fill them, and a full operator fires.  Operators and operands travel    *)
(* through any router and overtake one another, so an operand may be there *)
(* before its operator: it is then deferred.                               *)
(*                                                                         *)
(* A worker is a single thread.  A handler sends its messages one after    *)
(* the other, and what it sends to its own worker is received at once, in  *)
(* a nested call, before the next is sent.  agenda is the sequence of the  *)
(* messages that the handlers under way have still to send; a worker reads *)
(* its connections when it is empty.                                       *)
(*                                                                         *)
(* What an operator does when it fires belongs to the modules that extend  *)
(* this one: they define an action per handler from Firings and Emit.      *)
(***************************************************************************)
EXTENDS Naturals, Sequences, Bags, Functions, TLC

CONSTANTS Worker, Client,
          Slots(_),     \* opcode -> the offsets that operands must fill
          SelfRoute,    \* the workers started with the option to deliver to themselves
          IdLimit,      \* 2^48 in the code: sequence numbers wrap there
          None

ASSUME DataflowAssumption == /\ Worker \intersect Client = {}
                             /\ SelfRoute \subseteq Worker
                             /\ IdLimit \in Nat \ {0}

Agent == Worker \union Client

VARIABLES net,                     \* bag of the messages the routers hold
          operator_table,          \* worker -> operator id -> operator
          deferred_operand_table,  \* worker -> operator id -> operands
          agenda,                  \* worker -> what its handlers have still to send
          seq_num,                 \* agent -> next sequence number
          wait                     \* client -> destination it waits at, or None

runtimeVars == <<net, operator_table, deferred_operand_table, agenda, seq_num, wait>>

DataflowInit == /\ net = EmptyBag
                /\ operator_table = [w \in Worker |-> <<>>]
                /\ deferred_operand_table = [w \in Worker |-> <<>>]
                /\ agenda = [w \in Worker |-> <<>>]
                /\ seq_num = [a \in Agent |-> 0]
                /\ wait = [c \in Client |-> None]

-----------------------------------------------------------------------------
(***************************************************************************)
(* Identifiers, destinations and messages.  NewId(a, k) is what the k-th   *)
(* call of new_operator_id in one handler returns, from zero.              *)
(***************************************************************************)
\* (mutant) the sequence number without the agent
BareId(a, k) == [agent |-> None, seq |-> (seq_num[a] + k) % IdLimit]

NewId(a, k) == [agent |-> a, seq |-> (seq_num[a] + k) % IdLimit]

UseIds(a, n) == seq_num' = [seq_num EXCEPT ![a] = (@ + n) % IdLimit]

Destination(a, id, offset) == [agent |-> a, id |-> id, offset |-> offset]

Operator(code, id, dest, arg) ==
    [code |-> code, id |-> id, dest |-> dest, arg |-> arg, data |-> <<>>]

Operation(agent, op) == [kind |-> "operation", to |-> agent, op |-> op]

(* An operand of one or more words for a destination and the slots after it. *)
Operand(dest, words) ==
    [kind |-> "operand", to |-> dest.agent, id |-> dest.id,
     data |-> [o \in dest.offset .. (dest.offset + Len(words) - 1) |->
                  words[o - dest.offset + 1]]]

(* The end of a firing by receive_operand, after the nested calls. *)
Retire(w, id) == [kind |-> "retire", to |-> w, id |-> id]

-----------------------------------------------------------------------------
(* A table with an entry more, or another entry for that key.              *)
keyvalue_insert(table, key, val) ==
    [k \in DOMAIN table \union {key} |-> IF k = key THEN val ELSE table[k]]

(***************************************************************************)
(* Receiving.  Arrival(w): what worker w may receive next.  Accepted is    *)
(* the operator as receive_operation or receive_operand leaves it.  There  *)
(* is none for a message that is not Matched: the operand is deferred, or  *)
(* the identifier collides.                                                *)
(***************************************************************************)
SelfRouted(w, m) == w \in SelfRoute /\ m.to = w

Arrival(w) == IF agenda[w] = <<>> THEN {m \in BagToSet(net) : m.to = w}
              ELSE {m \in {Head(agenda[w])} : SelfRouted(w, m)}

Fill(data, new) == [o \in DOMAIN new \union DOMAIN data |->
                        IF o \in DOMAIN new THEN new[o] ELSE data[o]]

op_insert_operand(op, oper) == [op EXCEPT !.data = Fill(@, oper.data)]

(* The operands of a list, of which the last fills a slot that several have. *)
InsertAll(op, ls) ==
    LET Fills(n, o) == n \in DOMAIN ls /\ o \in DOMAIN ls[n].data
        data == [o \in UNION {DOMAIN ls[n].data : n \in DOMAIN ls} |->
                    LET last == CHOOSE n \in DOMAIN ls :
                                    Fills(n, o) /\ \A k \in DOMAIN ls : Fills(k, o) => k =< n
                    IN  ls[last].data[o]]
    IN  [op EXCEPT !.data = Fill(@, data)]

op_check_full(op) == DOMAIN op.data = Slots(op.code)

Deferred(w, id) == IF id \in DOMAIN deferred_operand_table[w]
                   THEN deferred_operand_table[w][id] ELSE <<>>

Matched(w, m) ==
    \/ m.kind = "operation" /\ m.op.id \notin DOMAIN operator_table[w]
    \/ m.kind = "operand" /\ m.id \in DOMAIN operator_table[w]

Accepted(w, m) == IF m.kind = "operation"
                  THEN InsertAll(m.op, Deferred(w, m.op.id))
                  ELSE op_insert_operand(operator_table[w][m.id], m)

(* The messages that make an operator with this opcode fire, and which one. *)
Firings(w, code) ==
    {f \in {[msg |-> m, op |-> Accepted(w, m)] : m \in {x \in Arrival(w) : Matched(w, x)}} :
        op_check_full(f.op) /\ f.op.code = code}

(* Taking m off the network, unless it comes from a nested call. *)
Took(w, m) == IF agenda[w] # <<>> THEN net ELSE net (-) SetToBag({m})

\* (mutant) the later operand replaces the earlier ones
DeferOnlyLast(w, m) ==
    deferred_operand_table' =
        [deferred_operand_table EXCEPT ![w] = keyvalue_insert(@, m.id, <<m>>)]

(* Further deferred operands come second in the list. *)
add_deferred_operand(w, m) ==
    LET ls == Deferred(w, m.id)
        new == IF ls = <<>> THEN <<m>> ELSE <<Head(ls), m>> \o Tail(ls)
    IN  deferred_operand_table' =
            [deferred_operand_table EXCEPT ![w] = keyvalue_insert(@, m.id, new)]

\* (mutant) the list stays in the table
KeepDeferred(w, id) == UNCHANGED deferred_operand_table

ForgetDeferred(w, id) ==
    deferred_operand_table' = [deferred_operand_table EXCEPT ![w] =
                                   Restrict(@, DOMAIN @ \ {id})]

(***************************************************************************)
(* A message that fires nothing: the operator is put into the table, or    *)
(* its operand is inserted there or deferred; an operation whose           *)
(* identifier is in the table already is dropped with an error message.    *)
(***************************************************************************)
Queue(w) == \E m \in Arrival(w) :
    LET op == Accepted(w, m) IN
    /\ m.kind \in {"operation", "operand"}
    /\ Matched(w, m) => ~op_check_full(op)
    /\ IF Matched(w, m)
       THEN operator_table' = [operator_table EXCEPT ![w] = keyvalue_insert(@, op.id, op)]
       ELSE UNCHANGED operator_table
    /\ CASE m.kind = "operand" /\ ~Matched(w, m) -> add_deferred_operand(w, m)
         [] m.kind = "operation" /\ Matched(w, m) -> ForgetDeferred(w, op.id)
         [] OTHER -> UNCHANGED deferred_operand_table
    /\ net' = Took(w, m)
    /\ agenda' = [agenda EXCEPT ![w] = IF @ = <<>> THEN @ ELSE Tail(@)]
    /\ UNCHANGED <<seq_num, wait>>

(***************************************************************************)
(* What a firing does around a handler that sends msgs in this order.  An  *)
(* operator that an operand completed stays in the table until the handler *)
(* has returned.                                                           *)
(***************************************************************************)
Emit(w, f, msgs) ==
    LET m == f.msg
        rest == IF agenda[w] = <<>> THEN <<>> ELSE Tail(agenda[w])
        retire == IF m.kind = "operand" THEN <<Retire(w, m.id)>> ELSE <<>>
    IN  /\ net' = Took(w, m)
        /\ agenda' = [agenda EXCEPT ![w] = msgs \o retire \o rest]
        /\ IF m.kind = "operand"
           THEN /\ operator_table' = [operator_table EXCEPT ![w][m.id] = f.op]
                /\ UNCHANGED deferred_operand_table
           ELSE /\ UNCHANGED operator_table
                /\ ForgetDeferred(w, f.op.id)
        /\ UNCHANGED wait

(* A worker started with the option to deliver to itself receives what it   *)
(* sends to itself (Arrival); everything else goes to a router.             *)
send_op(w) == /\ agenda[w] # <<>>
              /\ LET m == Head(agenda[w]) IN
                 /\ m.kind # "retire" /\ ~SelfRouted(w, m)
                 /\ net' = net (+) SetToBag({m})
              /\ agenda' = [agenda EXCEPT ![w] = Tail(@)]
              /\ UNCHANGED <<operator_table, deferred_operand_table, seq_num, wait>>

(* receive_operand removes an operator that has fired. *)
Finish(w) == /\ agenda[w] # <<>>
             /\ LET m == Head(agenda[w]) IN
                /\ m.kind = "retire"
                /\ operator_table' = [operator_table EXCEPT ![w] =
                                          Restrict(@, DOMAIN @ \ {m.id})]
             /\ agenda' = [agenda EXCEPT ![w] = Tail(@)]
             /\ UNCHANGED <<net, deferred_operand_table, seq_num, wait>>

-----------------------------------------------------------------------------
(***************************************************************************)
(* A client: fire_and_wait_defer sends an operation and takes the first    *)
(* operand that arrives for its answer, whatever its destination.          *)
(***************************************************************************)
FireAndWait(c, agent, op) ==
    /\ wait[c] = None
    /\ wait' = [wait EXCEPT ![c] = op.dest]
    /\ net' = net (+) SetToBag({Operation(agent, op)})
    /\ UseIds(c, 2)
    /\ UNCHANGED <<operator_table, deferred_operand_table, agenda>>

TakeAnswer(c, m) ==
    /\ wait[c] # None
    /\ m \in BagToSet(net) /\ m.to = c /\ m.kind = "operand"
    /\ wait' = [wait EXCEPT ![c] = None]
    /\ net' = net (-) SetToBag({m})
    /\ UNCHANGED <<operator_table, deferred_operand_table, agenda, seq_num>>
=============================================================================
