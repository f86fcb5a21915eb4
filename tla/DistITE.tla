------------------------------ MODULE DistITE -------------------------------
(***************************************************************************)
(* Distributed ITE (src/bdd.c): the operators that look up, split, recurse,*)
(* canonize and store, over the dataflow runtime.  Every worker owns the   *)
(* nodes and the triples whose hash selects it.  A triple that is being    *)
(* computed has an entry in deferred_ite_table, where later requests for   *)
(* it wait for its result.                                                 *)
(*                                                                         *)
(* Left out: collections and flushes (GCProtocol, GCHeap), statistics, and *)
(* OP_VAR; the clients know the variables and the constants at first.      *)
(***************************************************************************)
EXTENDS Dataflow, BDDRef

CONSTANTS HomeNode(_),          \* worker selected by the hash of a node
          HomeTriple(_, _, _),  \* worker selected by the hash of a triple
          REF_INVALID,          \* answer to an operation that failed
          Asks,                 \* triples the clients ask for
          MaxAsk                \* bound: operations of one client

VARIABLES unique_table,         \* worker -> references of its nodes
          ite_table,            \* worker -> triple -> reference
          deferred_ite_table,   \* worker -> triple -> those waiting for it
          asked,                \* client -> arguments of dist_ite, or None
          known,                \* client -> references it has got
          asks                  \* client -> operations so far (bound)

tableVars  == <<unique_table, ite_table, deferred_ite_table>>
clientVars == <<asked, known, asks>>
vars == <<runtimeVars, tableVars, clientVars>>

(* A client complements a reference it knows by itself (shadow_negate). *)
Both(r) == {r, REF_NEGATE(r)}

Known0 == Both(REF_ONE) \union UNION {Both(REF_VAR(v)) : v \in Var}

Init == /\ DataflowInit
        /\ unique_table = [w \in Worker |-> {}]
        /\ ite_table = [w \in Worker |-> <<>>]
        /\ deferred_ite_table = [w \in Worker |-> <<>>]
        /\ asked = [c \in Client |-> None]
        /\ known = [c \in Client |-> Known0]
        /\ asks = [c \in Client |-> 0]

-----------------------------------------------------------------------------
(***************************************************************************)
(* The operators of bdd.c: build_canonize and its neighbours.  Offsets     *)
(* count from the word after the destination.                              *)
(***************************************************************************)
Opcodes == {"ITE_LOOKUP", "RETRIEVE_LOOKUP", "ITE_RECURSE", "CANONIZE",
            "CANONIZE_LOOKUP", "ITE_STORE"}

IteSlots(code) == CASE code = "ITE_RECURSE" -> 1 .. 6
                    [] code = "ITE_STORE"   -> {3}
                    [] code = "CANONIZE"    -> {1, 2}
                    [] OTHER                -> {}

(* A handler takes at most five identifiers of the 2^48.                   *)
ASSUME IteAssumption ==
    /\ \A code \in Opcodes : Slots(code) = IteSlots(code)
    /\ IdLimit > 5
    /\ \A r \in Ref : r # REF_INVALID
    /\ \A k \in Asks : k # None
    /\ None \notin [agent : Client, id : [agent : Client, seq : 0 .. IdLimit - 1],
                    offset : {0}]

REF_ABSVAL(r) == Signed(r, REF_GET_NEG(r))
HomeRef(r) == HomeNode(REF_ABSVAL(r))

build_ite_lookup(id, dest, a, neg) ==
    Operation(HomeTriple(a.i, a.t, a.e),
              Operator("ITE_LOOKUP", id, dest,
                       [i |-> a.i, t |-> a.t, e |-> a.e, neg |-> neg]))

build_retrieve_lookup(id, dest, r) ==
    Operation(HomeRef(r), Operator("RETRIEVE_LOOKUP", id, dest, [ref |-> r]))

\* (mutant) the hash of the complement
CanonizeElsewhere(id, dest, node, neg) ==
    Operation(HomeNode(REF_NEGATE(node)),
              Operator("CANONIZE_LOOKUP", id, dest, [node |-> node, neg |-> neg]))

build_canonize_lookup(id, dest, node, neg) ==
    Operation(HomeNode(node),
              Operator("CANONIZE_LOOKUP", id, dest, [node |-> node, neg |-> neg]))

Answering(dest, r) == <<Operand(dest, <<r>>)>>

Only(cond, m) == IF cond THEN <<m>> ELSE <<>>

Key(arg) == <<arg.i, arg.t, arg.e>>

-----------------------------------------------------------------------------
(* The tables of the local package that the handlers use. *)
ref_ite_lookup(w, k) == IF k \in DOMAIN ite_table[w] THEN {ite_table[w][k]} ELSE {}

ref_canonize_lookup(w, node) ==
    unique_table' = [unique_table EXCEPT ![w] = @ \union {node}]

ref_ite_store(w, k, r) == ite_table' = [ite_table EXCEPT ![w] = keyvalue_insert(@, k, r)]

-----------------------------------------------------------------------------
(***************************************************************************)
(* do_ite_lookup_op: a hit is answered, a request for a triple that is     *)
(* being computed waits in its list; otherwise the triple is marked, split *)
(* on its topmost variable, and stored when its result is there.  The      *)
(* branches that constants and variables give are filled in, the nodes of  *)
(* functions are retrieved from the workers that own them.                 *)
(***************************************************************************)
IteHit(w) == \E f \in Firings(w, "ITE_LOOKUP") :
    /\ LET op == f.op IN
       \E r \in ref_ite_lookup(w, Key(op.arg)) :
           Emit(w, f, Answering(op.dest, Signed(r, op.arg.neg)))
    /\ UNCHANGED <<seq_num, tableVars, clientVars>>

IteJoin(w) == \E f \in Firings(w, "ITE_LOOKUP") :
    /\ LET op == f.op  k == Key(op.arg) IN
       /\ ref_ite_lookup(w, k) = {}
       /\ k \in DOMAIN deferred_ite_table[w]
       /\ deferred_ite_table' = [deferred_ite_table EXCEPT ![w][k] =
                                     <<[dest |-> op.dest, neg |-> op.arg.neg]>> \o @]
       /\ Emit(w, f, <<>>)
    /\ UNCHANGED <<seq_num, unique_table, ite_table, clientVars>>

IteSplit(w) == \E f \in Firings(w, "ITE_LOOKUP") : \E split \in {Split[Key(f.op.arg)]} :
    /\ LET op   == f.op
           k    == Key(op.arg)
           (* argument n fills the slots 2n-1 and 2n *)
           near == UNION {{2 * n - 1, 2 * n} : n \in (1 .. 3) \ split.far}
           store   == Operator("ITE_STORE", NewId(w, 0), op.dest, op.arg)
           recurse == [Operator("ITE_RECURSE", NewId(w, 1),
                                Destination(w, NewId(w, 0), 3), [var |-> split.var])
                       EXCEPT !.data = [o \in near |->
                                  split.branches[(o + 1) \div 2][2 - (o % 2)]]]
           Retrieve(n) == build_retrieve_lookup(
                              NewId(w, 1 + Cardinality({j \in split.far : j <= n})),
                              Destination(w, NewId(w, 1), 2 * n - 1), k[n])
       IN
       /\ ref_ite_lookup(w, k) = {}
       /\ k \notin DOMAIN deferred_ite_table[w]
       /\ deferred_ite_table' = [deferred_ite_table EXCEPT ![w] =
                                     keyvalue_insert(@, k, <<>>)]
       /\ Emit(w, f, Only(1 \in split.far, Retrieve(1)) \o Only(2 \in split.far, Retrieve(2))
                     \o Only(3 \in split.far, Retrieve(3))
                     \o <<Operation(w, store), Operation(w, recurse)>>)
       /\ UseIds(w, 2 + Cardinality(split.far))
    /\ UNCHANGED <<unique_table, ite_table, clientVars>>

(* do_retrieve_lookup_op: the children of a node, if its owner has it. *)
DoRetrieveLookup(w) == \E f \in Firings(w, "RETRIEVE_LOOKUP") :
    /\ LET op == f.op IN
       Emit(w, f, <<Operand(op.dest, IF REF_ABSVAL(op.arg.ref) \in unique_table[w]
                                     THEN Children(op.arg.ref)
                                     ELSE <<REF_INVALID, REF_INVALID>>)>>)
    /\ UNCHANGED <<seq_num, tableVars, clientVars>>

(***************************************************************************)
(* do_ite_recurse_op: the branches that ref_ite_local settles are filled   *)
(* in, a lookup is sent for each of the others.                            *)
(***************************************************************************)
Branch(d, b) == ref_ite_local(d[b], d[b + 2], d[b + 4])

DoIteRecurse(w) ==
  \E f \in Firings(w, "ITE_RECURSE") :
  \E branch \in {<<Branch(f.op.data, 1), Branch(f.op.data, 2)>>} :
    /\ LET op == f.op
           open == {b \in 1 .. 2 : ~branch[b].done}
           canonize == [Operator("CANONIZE", NewId(w, 0), op.dest, op.arg) EXCEPT !.data =
                           [b \in (1 .. 2) \ open |-> Signed(branch[b].t, branch[b].neg)]]
           Lookup(b) == build_ite_lookup(NewId(w, Cardinality({j \in open : j <= b})),
                                         Destination(w, NewId(w, 0), b),
                                         branch[b], branch[b].neg)
       IN
       /\ Emit(w, f, Only(1 \in open, Lookup(1)) \o Only(2 \in open, Lookup(2))
                     \o <<Operation(w, canonize)>>)
       /\ UseIds(w, 1 + Cardinality(open))
    /\ UNCHANGED <<tableVars, clientVars>>

(* do_canonize_op: the result is known locally, or its node's owner is asked. *)
DoCanonize(w) == \E f \in Firings(w, "CANONIZE") :
    /\ LET op == f.op
           v  == op.arg.var
           hi == op.data[1]
           lo == op.data[2]
           r  == ref_canonize_local(v, hi, lo)
       IN
       IF REF_INVALID \in {hi, lo} \/ ~LevelsFall(v, hi, lo)
       THEN Emit(w, f, Answering(op.dest, REF_INVALID)) /\ UNCHANGED seq_num
       ELSE IF r.done
       THEN Emit(w, f, Answering(op.dest, r.ref)) /\ UNCHANGED seq_num
       ELSE /\ Emit(w, f, <<build_canonize_lookup(NewId(w, 0), op.dest, r.node, r.neg)>>)
            /\ UseIds(w, 1)
    /\ UNCHANGED <<tableVars, clientVars>>

(* do_canonize_lookup_op: find or create the node. *)
DoCanonizeLookup(w) == \E f \in Firings(w, "CANONIZE_LOOKUP") :
    /\ LET op == f.op IN
       /\ ref_canonize_lookup(w, op.arg.node)
       /\ Emit(w, f, Answering(op.dest, Signed(op.arg.node, op.arg.neg)))
    /\ UNCHANGED <<seq_num, ite_table, deferred_ite_table, clientVars>>

(***************************************************************************)
(* Those that wait for a triple, and the table without them.               *)
(***************************************************************************)
\* (mutant) those that wait are not answered
NobodyWaiting(w, k) == <<>>

Waiting(w, k) == IF k \in DOMAIN deferred_ite_table[w]
                 THEN deferred_ite_table[w][k] ELSE <<>>

\* (mutant) the entry stays
KeepDeferredIte(w, k) == UNCHANGED deferred_ite_table

RemoveDeferredIte(w, k) ==
    deferred_ite_table' = [deferred_ite_table EXCEPT ![w] =
                               Restrict(@, DOMAIN @ \ {k})]

(***************************************************************************)
(* do_ite_store_op: remember the result, answer the request that computed  *)
(* it and those that wait in the list, and remove the entry.  The code     *)
(* removes it after the first answer: a lookup nested in that answer finds *)
(* the stored result before it would look for the entry.                   *)
(***************************************************************************)
DoIteStore(w) == \E f \in Firings(w, "ITE_STORE") :
    /\ LET op == f.op
           k  == Key(op.arg)
           r  == op.data[3]
           waiting == Waiting(w, k)
       IN
       /\ ref_ite_store(w, k, r)
       /\ RemoveDeferredIte(w, k)
       /\ Emit(w, f, Answering(op.dest, Signed(r, op.arg.neg))
                     \o [n \in 1 .. Len(waiting) |->
                            Operand(waiting[n].dest, <<Signed(r, waiting[n].neg)>>)])
    /\ UNCHANGED <<seq_num, unique_table, clientVars>>

-----------------------------------------------------------------------------
(***************************************************************************)
(* dist_ite of a client, with references it knows: settled locally, or     *)
(* sent to the worker of the triple and answered by one operand.           *)
(***************************************************************************)
Asking(c, k) == /\ k \in Asks
                /\ \A n \in 1 .. 3 : k[n] \in known[c]
                /\ wait[c] = None
                /\ asks[c] < MaxAsk
                /\ asks' = [asks EXCEPT ![c] = @ + 1]

AskLocally(c) == \E k \in Asks :
    LET r == ref_ite_local(k[1], k[2], k[3]) IN
    /\ Asking(c, k)
    /\ r.done
    /\ known' = [known EXCEPT ![c] = @ \union Both(Signed(r.t, r.neg))]
    /\ UNCHANGED <<runtimeVars, tableVars, asked>>

Ask(c) == \E k \in Asks :
    LET r == ref_ite_local(k[1], k[2], k[3])
        m == build_ite_lookup(NewId(c, 1), Destination(c, NewId(c, 0), 0), r, r.neg)
    IN  /\ Asking(c, k)
        /\ ~r.done
        /\ FireAndWait(c, m.to, m.op)
        /\ asked' = [asked EXCEPT ![c] = k]
        /\ UNCHANGED <<tableVars, known>>

Answer(c) == \E m \in BagToSet(net) :
    /\ TakeAnswer(c, m)
    /\ known' = [known EXCEPT ![c] = @ \union IF m.data[0] = REF_INVALID THEN {REF_INVALID}
                                                   ELSE Both(m.data[0])]
    /\ asked' = [asked EXCEPT ![c] = None]
    /\ UNCHANGED <<tableVars, asks>>

-----------------------------------------------------------------------------
WorkerStep(w) ==
    \/ Queue(w) /\ UNCHANGED <<tableVars, clientVars>>
    \/ send_op(w) /\ UNCHANGED <<tableVars, clientVars>>
    \/ Finish(w) /\ UNCHANGED <<tableVars, clientVars>>
    \/ IteHit(w) \/ IteJoin(w) \/ IteSplit(w)
    \/ DoRetrieveLookup(w) \/ DoIteRecurse(w)
    \/ DoCanonize(w) \/ DoCanonizeLookup(w) \/ DoIteStore(w)

Next == \/ \E w \in Worker : WorkerStep(w)
        \/ \E c \in Client : Ask(c) \/ AskLocally(c) \/ Answer(c)

(***************************************************************************)
(* Fairness.  A worker's loop returns to its connections after every       *)
(* handler, and the network delivers every message: the code sends over    *)
(* TCP to routers that forward everything.  Only one message at a time is  *)
(* taken, and finitely many are sent, so weak fairness per worker is       *)
(* enough for each to be received.  A client that waits reads its          *)
(* connections; nothing makes it ask.                                      *)
(***************************************************************************)
Spec == /\ Init /\ [][Next]_vars
        /\ \A w \in Worker : WF_vars(WorkerStep(w))
        /\ \A c \in Client : WF_vars(Answer(c))
=============================================================================
