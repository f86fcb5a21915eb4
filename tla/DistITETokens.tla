--------------------------- MODULE DistITETokens ---------------------------
(***************************************************************************)
(* Proofs that distributed ITE loses nothing and does nothing twice: every *)
(* slot that waits is filled once, identifiers do not collide, a triple is *)
(* computed once at a time, nothing is left behind, and a client gets what *)
(* it asked for.                                                           *)
(***************************************************************************)
EXTENDS DistITEProofs

-----------------------------------------------------------------------------
(***************************************************************************)
(* What is somewhere exactly once.  Every identifier that is in use, every *)
(* slot that waits and everything that will fill one is a token:           *)
(*   <<"id", i>>     an operator, or a client that waits, has identifier i *)
(*   <<"snk", d>>    slot d waits          <<"src", d>>   this will fill d *)
(*   <<"full", d>>   an operator of the table has fired,                   *)
(*   <<"ret", d>>    and this will remove it                               *)
(*   <<"entry", e>>  a triple is marked as being computed,                 *)
(*   <<"store", e>>  and this will store it                                *)
(***************************************************************************)
Tagged(t, D) == {<<t, d>> : d \in D}

Sinks(a, op) == {Destination(a, op.id, o) : o \in Slots(op.code) \ DOMAIN op.data}

Entry(w, k) == [worker |-> w, triple |-> k]
Stores(a, op) == IF op.code = "ITE_STORE" THEN {Entry(a, Key(op.arg))} ELSE {}

(* The tokens of an operator that has not fired, of a message, and of an   *)
(* operator in a table.                                                    *)
OpTokens(a, op) == Tagged("id", {op.id}) \union Tagged("src", AnswerSlots(op))
                   \union Tagged("snk", Sinks(a, op)) \union Tagged("store", Stores(a, op))

MsgTokens(m) == CASE m.kind = "operation" -> OpTokens(m.to, m.op)
                  [] m.kind = "operand"   -> Tagged("src", OperandSlots(m))
                  [] OTHER                -> Tagged("ret", {Destination(m.to, m.id, 0)})

QueuedTokens(w, op) == IF op_check_full(op)
                       THEN Tagged("id", {op.id}) \union Tagged("full", {Destination(w, op.id, 0)})
                       ELSE OpTokens(w, op)

(* What a family of holders hold together, and that no two share a token.  *)
Held(fn) == UNION {fn[x] : x \in DOMAIN fn}
Apart(fn) == \A x, y \in DOMAIN fn : x # y => fn[x] \intersect fn[y] = {}

(* The holders in each part of the state.                                  *)
NetF(ms)    == [m \in ms |-> MsgTokens(m)]
WaitF(at)   == [c \in Client |-> IF at[c] = None THEN {}
                                 ELSE Tagged("id", {at[c].id}) \union Tagged("snk", {at[c]})]
ListF(s)    == [n \in DOMAIN s |-> MsgTokens(s[n])]
TableF(w, t)  == [id \in DOMAIN t |-> QueuedTokens(w, t[id])]
DeferredF(t)  == [id \in DOMAIN t |-> Held(ListF(t[id]))]
WaiterF(s)  == [n \in DOMAIN s |-> Tagged("src", {s[n].dest})]
JoinF(w, t) == [k \in DOMAIN t |-> Tagged("entry", {Entry(w, k)}) \union Held(WaiterF(t[k]))]

Index == ({"net", "wait"} \X {0}) \union ({"agenda", "table", "deferred", "join"} \X Worker)

Family == [i \in Index |-> CASE i[1] = "net"      -> NetF(DOMAIN net)
                             [] i[1] = "wait"     -> WaitF(wait)
                             [] i[1] = "agenda"   -> ListF(agenda[i[2]])
                             [] i[1] = "table"    -> TableF(i[2], operator_table[i[2]])
                             [] i[1] = "deferred" -> DeferredF(deferred_operand_table[i[2]])
                             [] i[1] = "join"     -> JoinF(i[2], deferred_ite_table[i[2]])]
Part == [i \in Index |-> Held(Family[i])]

(* Every token is held once, and has its counterpart.                      *)
Paired(S) == \A d : /\ <<"src", d>> \in S <=> <<"snk", d>> \in S
                    /\ <<"ret", d>> \in S <=> <<"full", d>> \in S
                    /\ <<"store", d>> \in S <=> <<"entry", d>> \in S

ListsApart(w) ==
    /\ \A id \in DOMAIN deferred_operand_table[w] : Apart(ListF(deferred_operand_table[w][id]))
    /\ \A k \in DOMAIN deferred_ite_table[w] : Apart(WaiterF(deferred_ite_table[w][k]))

Tokens == /\ \A i \in Index : Apart(Family[i])
          /\ \A w \in Worker : ListsApart(w)
          /\ Apart(Part)
          /\ Paired(Held(Part))

(* Messages say something, and are kept where they belong.                 *)
Says(m) == /\ m.kind = "operand" => DOMAIN m.data # {}
           /\ m.kind = "operation" /\ Slots(m.op.code) # {} => m.to \in Worker

KeptAt(w) ==
    /\ \A n \in DOMAIN agenda[w] : /\ Says(agenda[w][n])
                                   /\ agenda[w][n].kind = "retire" => agenda[w][n].to = w
    /\ \A id \in DOMAIN deferred_operand_table[w] :
           /\ deferred_operand_table[w][id] # <<>>
           /\ \A n \in DOMAIN deferred_operand_table[w][id] :
                  LET m == deferred_operand_table[w][id][n]
                  IN  m.to = w /\ m.id = id /\ m.kind = "operand" /\ DOMAIN m.data # {}
    /\ DOMAIN ite_table[w] \intersect DOMAIN deferred_ite_table[w] = {}

Kept == /\ net = [m \in DOMAIN net |-> 1]
        /\ \A m \in DOMAIN net : m.kind # "retire" /\ Says(m)
        /\ \A w \in Worker : KeptAt(w)

LinInv == Tokens /\ Kept

-----------------------------------------------------------------------------
(* A function with an entry more, or another one there.                    *)
LEMMA HeldInsert ==
    ASSUME NEW fn, NEW gn, NEW k, NEW t, Apart(fn), DOMAIN gn = DOMAIN fn \union {k}, gn[k] = t,
           \A x \in DOMAIN fn \ {k} : gn[x] = fn[x] /\ fn[x] \intersect t = {}
    PROVE  /\ Apart(gn)
           /\ Held(gn) = (Held(fn) \ (IF k \in DOMAIN fn THEN fn[k] ELSE {})) \union t
<1>1. Apart(gn)
  BY DEF Apart
<1>2. ASSUME NEW x
      PROVE  x \in Held(gn) <=> x \in (Held(fn) \ (IF k \in DOMAIN fn THEN fn[k] ELSE {})) \union t
  BY DEF Held, Apart
<1> QED BY <1>1, <1>2

(* A function with an entry less.                                          *)
LEMMA HeldRemove ==
    ASSUME NEW fn, NEW gn, NEW k, Apart(fn), DOMAIN gn = DOMAIN fn \ {k},
           \A x \in DOMAIN gn : gn[x] = fn[x]
    PROVE  /\ Apart(gn)
           /\ Held(gn) = Held(fn) \ (IF k \in DOMAIN fn THEN fn[k] ELSE {})
<1>1. Apart(gn)
  BY DEF Apart
<1>2. ASSUME NEW x
      PROVE  x \in Held(gn) <=> x \in Held(fn) \ (IF k \in DOMAIN fn THEN fn[k] ELSE {})
  BY DEF Held, Apart
<1> QED BY <1>1, <1>2

(* One sequence after the other.                                           *)
Joined(fn, gn, hn, m, n) ==
    /\ m \in Nat /\ n \in Nat
    /\ DOMAIN fn = 1 .. m /\ DOMAIN gn = 1 .. n /\ DOMAIN hn = 1 .. (m + n)
    /\ \A i \in 1 .. m : hn[i] = fn[i]
    /\ \A i \in 1 .. n : hn[m + i] = gn[i]

(* What two lists of holders hold together, and when it is apart.          *)
LEMMA HeldCat ==
    ASSUME NEW fn, NEW gn, NEW hn, NEW m, NEW n, Joined(fn, gn, hn, m, n)
    PROVE  /\ Held(hn) = Held(fn) \union Held(gn)
           /\ Apart(hn) <=> Apart(fn) /\ Apart(gn) /\ Held(fn) \intersect Held(gn) = {}
<1>0. /\ m \in Nat /\ n \in Nat
      /\ DOMAIN fn = 1 .. m /\ DOMAIN gn = 1 .. n /\ DOMAIN hn = 1 .. (m + n)
      /\ \A i \in 1 .. m : hn[i] = fn[i]
      /\ \A i \in 1 .. n : hn[m + i] = gn[i]
  BY DEF Joined
<1> USE <1>0
<1>1. \A i \in 1 .. (m + n) : i \in 1 .. m \/ (i - m \in 1 .. n /\ i = m + (i - m))
  OBVIOUS
<1>2. \A i \in 1 .. n : m + i \in 1 .. (m + n) /\ m + i \notin 1 .. m
  OBVIOUS
<1>3. \A i \in 1 .. m : i \in 1 .. (m + n)
  OBVIOUS
<1>4. ASSUME NEW x PROVE x \in Held(hn) <=> x \in Held(fn) \union Held(gn)
  <2>1. ASSUME x \in Held(hn) PROVE x \in Held(fn) \union Held(gn)
    <3>1. PICK i \in 1 .. (m + n) : x \in hn[i]
      BY <2>1 DEF Held
    <3>2. CASE i \in 1 .. m
      BY <3>1, <3>2 DEF Held
    <3>3. CASE i - m \in 1 .. n
      <4> DEFINE j == i - m
      <4>1. j \in 1 .. n /\ i = m + j
        BY <1>1, <3>3
      <4> HIDE DEF j
      <4>2. x \in gn[j]
        BY <3>1, <4>1
      <4> QED BY <4>1, <4>2 DEF Held
    <3> QED BY <1>1, <3>2, <3>3
  <2>2. ASSUME x \in Held(fn) PROVE x \in Held(hn)
    BY <1>3, <2>2 DEF Held
  <2>3. ASSUME x \in Held(gn) PROVE x \in Held(hn)
    <3>1. PICK i \in 1 .. n : x \in gn[i]
      BY <2>3 DEF Held
    <3>2. m + i \in 1 .. (m + n) /\ x \in hn[m + i]
      BY <1>2, <3>1
    <3> QED BY <3>2 DEF Held
  <2> QED BY <2>1, <2>2, <2>3
<1>5. ASSUME Apart(hn) PROVE Apart(fn) /\ Apart(gn) /\ Held(fn) \intersect Held(gn) = {}
  <2>1. Apart(fn)
    BY <1>3, <1>5 DEF Apart
  <2>2. ASSUME NEW i \in 1 .. n, NEW j \in 1 .. n, i # j PROVE gn[i] \intersect gn[j] = {}
    <3>1. m + i \in 1 .. (m + n) /\ m + j \in 1 .. (m + n) /\ m + i # m + j
      BY <1>2, <2>2
    <3>2. hn[m + i] \intersect hn[m + j] = {}
      BY <1>5, <3>1 DEF Apart
    <3> QED BY <3>2
  <2>3. ASSUME NEW i \in 1 .. m, NEW j \in 1 .. n PROVE fn[i] \intersect gn[j] = {}
    <3>1. i \in 1 .. (m + n) /\ m + j \in 1 .. (m + n) /\ i # m + j
      BY <1>2, <1>3
    <3>2. hn[i] \intersect hn[m + j] = {}
      BY <1>5, <3>1 DEF Apart
    <3> QED BY <3>2
  <2> QED BY <2>1, <2>2, <2>3 DEF Apart, Held
<1>6. ASSUME Apart(fn), Apart(gn), Held(fn) \intersect Held(gn) = {} PROVE Apart(hn)
  <2> SUFFICES ASSUME NEW i \in 1 .. (m + n), NEW j \in 1 .. (m + n), i # j
               PROVE  hn[i] \intersect hn[j] = {}
    BY DEF Apart
  <2>1. ASSUME NEW k \in 1 .. (m + n)
        PROVE  \/ k \in 1 .. m /\ hn[k] = fn[k]
               \/ k - m \in 1 .. n /\ hn[k] = gn[k - m]
    BY <1>1
  <2>2. CASE i \in 1 .. m /\ j \in 1 .. m
    BY <1>6, <2>2 DEF Apart
  <2>3. CASE i - m \in 1 .. n /\ hn[i] = gn[i - m] /\ j - m \in 1 .. n /\ hn[j] = gn[j - m]
    <3>1. i - m # j - m
      OBVIOUS
    <3> QED BY <1>6, <2>3, <3>1 DEF Apart
  <2>6. \A k \in 1 .. m : hn[k] \subseteq Held(fn)
    BY DEF Held
  <2>7. \A k \in 1 .. n : gn[k] \subseteq Held(gn)
    BY DEF Held
  <2>4. CASE i \in 1 .. m /\ j - m \in 1 .. n /\ hn[j] = gn[j - m]
    BY <1>6, <2>4, <2>6, <2>7
  <2>5. CASE j \in 1 .. m /\ i - m \in 1 .. n /\ hn[i] = gn[i - m]
    BY <1>6, <2>5, <2>6, <2>7
  <2> QED BY <2>1, <2>2, <2>3, <2>4, <2>5
<1> QED BY <1>4, <1>5, <1>6

(* Tokens that change hands: each part drops some of its own, and what is  *)
(* added is nowhere else.                                                  *)
LEMMA Exchange ==
    ASSUME NEW P, NEW Q, NEW R, NEW N, Apart(P),
           DOMAIN Q = DOMAIN P, DOMAIN N = DOMAIN P, DOMAIN R = DOMAIN P,
           \A i \in DOMAIN P : R[i] \subseteq P[i] /\ Q[i] = (P[i] \ R[i]) \union N[i],
           Apart(N), Held(N) \intersect (Held(P) \ Held(R)) = {}
    PROVE  Apart(Q) /\ Held(Q) = (Held(P) \ Held(R)) \union Held(N)
<1>1. \A i \in DOMAIN P : P[i] \subseteq Held(P) /\ N[i] \subseteq Held(N) /\ R[i] \subseteq Held(R)
  BY DEF Held
<1>2. ASSUME NEW i \in DOMAIN P, NEW x \in P[i], x \in Held(R) PROVE x \in R[i]
  <2>1. PICK j \in DOMAIN P : x \in R[j]
    BY <1>2 DEF Held
  <2>2. x \in P[j]
    BY <2>1
  <2>3. i = j
    BY <1>2, <2>2 DEF Apart
  <2> QED BY <2>1, <2>3
<1>3. ASSUME NEW i \in DOMAIN P, NEW x \in Q[i]
      PROVE  (x \in P[i] /\ x \in Held(P) \ Held(R)) \/ (x \in N[i] /\ x \in Held(N))
  BY <1>1, <1>2
<1>4. Apart(Q)
  <2> SUFFICES ASSUME NEW i \in DOMAIN P, NEW j \in DOMAIN P, i # j, NEW x, x \in Q[i], x \in Q[j]
               PROVE  FALSE
    BY DEF Apart
  <2>1. ~(x \in P[i] /\ x \in P[j]) /\ ~(x \in N[i] /\ x \in N[j])
    BY DEF Apart
  <2> QED BY <1>3, <2>1
<1>5. ASSUME NEW x, x \in Held(Q) PROVE x \in (Held(P) \ Held(R)) \union Held(N)
  <2>1. PICK i \in DOMAIN P : x \in Q[i]
    BY <1>5 DEF Held
  <2> QED BY <1>3, <2>1
<1>6. ASSUME NEW x, x \in Held(P), x \notin Held(R) PROVE x \in Held(Q)
  <2>1. PICK i \in DOMAIN P : x \in P[i]
    BY <1>6 DEF Held
  <2>2. x \in Q[i]
    BY <1>1, <1>6, <2>1
  <2> QED BY <2>2 DEF Held
<1>7. ASSUME NEW x, x \in Held(N) PROVE x \in Held(Q)
  <2>1. PICK i \in DOMAIN P : x \in N[i]
    BY <1>7 DEF Held
  <2> QED BY <2>1 DEF Held
<1> QED BY <1>4, <1>5, <1>6, <1>7

(* Pairs stay pairs, when only pairs are dropped or added.                 *)
LEMMA PairsStay ==
    ASSUME NEW S, NEW R, NEW N, Paired(S), R \subseteq S, N \intersect (S \ R) = {},
           Paired(R \ N), Paired(N \ R)
    PROVE  Paired((S \ R) \union N)
<1>1. (S \ R) \union N = (S \ (R \ N)) \union (N \ R)
  OBVIOUS
<1>2. \A x : x \in N \ R => x \notin S
  OBVIOUS
<1> DEFINE A == R \ N   B == N \ R
<1>3. A \subseteq S /\ Paired(A) /\ Paired(B)
  OBVIOUS
<1> HIDE DEF A, B
<1>4. Paired((S \ A) \union B)
  BY <1>3 DEF Paired
<1> QED BY <1>1, <1>4 DEF A, B

(* A family with a member of the same tokens for another.                  *)
LEMMA HeldSame ==
    ASSUME NEW fn, NEW gn, gn = fn
    PROVE  Held(gn) = Held(fn) /\ (Apart(gn) <=> Apart(fn))
  OBVIOUS

(* A tag is part of the token.                                             *)
LEMMA Tags ==
    /\ \A s, t, d, D : <<s, d>> \in Tagged(t, D) <=> s = t /\ d \in D
    /\ \A t, D, x : x \in Tagged(t, D) <=> \E d \in D : x = <<t, d>>
  BY DEF Tagged

-----------------------------------------------------------------------------
(* The tokens of operators and messages, kind by kind.                     *)
LEMMA OpHas ==
    ASSUME NEW a, NEW op, NEW t, NEW d
    PROVE  <<t, d>> \in OpTokens(a, op) <=>
               \/ t = "id" /\ d = op.id
               \/ t = "src" /\ d \in AnswerSlots(op)
               \/ t = "snk" /\ d \in Sinks(a, op)
               \/ t = "store" /\ d \in Stores(a, op)
  BY Tags DEF OpTokens

(* The tokens of a message.                                                *)
LEMMA MsgHas ==
    ASSUME NEW m, NEW t, NEW d
    PROVE  <<t, d>> \in MsgTokens(m) <=>
               \/ m.kind = "operation" /\ <<t, d>> \in OpTokens(m.to, m.op)
               \/ m.kind = "operand" /\ t = "src" /\ d \in OperandSlots(m)
               \/ /\ m.kind \notin {"operation", "operand"}
                  /\ t = "ret" /\ d = Destination(m.to, m.id, 0)
  BY Tags DEF MsgTokens

(* The tokens of an operator in a table, fired or not.                     *)
LEMMA QueuedHas ==
    ASSUME NEW w, NEW op, NEW t, NEW d
    PROVE  <<t, d>> \in QueuedTokens(w, op) <=>
               \/ ~op_check_full(op) /\ <<t, d>> \in OpTokens(w, op)
               \/ op_check_full(op) /\ t = "id" /\ d = op.id
               \/ op_check_full(op) /\ t = "full" /\ d = Destination(w, op.id, 0)
  BY Tags DEF QueuedTokens

(* Every token is a pair.                                                  *)
LEMMA Pairs ==
    /\ \A a, op, x : x \in OpTokens(a, op) => \E t, d : x = <<t, d>>
    /\ \A m, x : x \in MsgTokens(m) => \E t, d : x = <<t, d>>
    /\ \A w, op, x : x \in QueuedTokens(w, op) => \E t, d : x = <<t, d>>
<1>1. \A a, op, x : x \in OpTokens(a, op) => \E t, d : x = <<t, d>>
  BY Tags DEF OpTokens
<1>2. \A m, x : x \in MsgTokens(m) => \E t, d : x = <<t, d>>
  BY <1>1, Tags DEF MsgTokens
<1>3. \A w, op, x : x \in QueuedTokens(w, op) => \E t, d : x = <<t, d>>
  BY <1>1, Tags DEF QueuedTokens
<1> QED BY <1>1, <1>2, <1>3

(* The parts of the state, and the holders in them.                        *)
LEMMA IndexCases ==
    /\ <<"net", 0>> \in Index /\ <<"wait", 0>> \in Index
    /\ \A w \in Worker : /\ <<"agenda", w>> \in Index /\ <<"table", w>> \in Index
                         /\ <<"deferred", w>> \in Index /\ <<"join", w>> \in Index
    /\ \A i \in Index : \/ i = <<"net", 0>> \/ i = <<"wait", 0>>
                        \/ \E w \in Worker : \/ i = <<"agenda", w>> \/ i = <<"table", w>>
                                             \/ i = <<"deferred", w>> \/ i = <<"join", w>>
  BY DEF Index

(* The holders of the parts of a state, ...                                *)
LEMMA FamilyIs ==
    /\ DOMAIN Family = Index /\ DOMAIN Part = Index
    /\ \A i \in Index : Part[i] = Held(Family[i])
    /\ Family[<<"net", 0>>] = NetF(DOMAIN net) /\ Family[<<"wait", 0>>] = WaitF(wait)
    /\ \A w \in Worker :
           /\ Family[<<"agenda", w>>] = ListF(agenda[w])
           /\ Family[<<"table", w>>] = TableF(w, operator_table[w])
           /\ Family[<<"deferred", w>>] = DeferredF(deferred_operand_table[w])
           /\ Family[<<"join", w>>] = JoinF(w, deferred_ite_table[w])
<1>1. DOMAIN Family = Index /\ DOMAIN Part = Index /\ \A i \in Index : Part[i] = Held(Family[i])
  BY DEF Family, Part
<1>2. Family[<<"net", 0>>] = NetF(DOMAIN net) /\ Family[<<"wait", 0>>] = WaitF(wait)
  BY IndexCases DEF Family
<1>3. ASSUME NEW w \in Worker
      PROVE  /\ Family[<<"agenda", w>>] = ListF(agenda[w])
             /\ Family[<<"table", w>>] = TableF(w, operator_table[w])
             /\ Family[<<"deferred", w>>] = DeferredF(deferred_operand_table[w])
             /\ Family[<<"join", w>>] = JoinF(w, deferred_ite_table[w])
  BY IndexCases DEF Family
<1> QED BY <1>1, <1>2, <1>3

(* ... and of the state after a step.                                      *)
LEMMA FamilyThen ==
    /\ DOMAIN Family' = Index /\ DOMAIN Part' = Index
    /\ \A i \in Index : Part'[i] = Held(Family'[i])
    /\ Family'[<<"net", 0>>] = NetF(DOMAIN net') /\ Family'[<<"wait", 0>>] = WaitF(wait')
    /\ \A w \in Worker :
           /\ Family'[<<"agenda", w>>] = ListF(agenda'[w])
           /\ Family'[<<"table", w>>] = TableF(w, operator_table'[w])
           /\ Family'[<<"deferred", w>>] = DeferredF(deferred_operand_table'[w])
           /\ Family'[<<"join", w>>] = JoinF(w, deferred_ite_table'[w])
<1>1. DOMAIN Family' = Index /\ DOMAIN Part' = Index /\ \A i \in Index : Part'[i] = Held(Family'[i])
  BY DEF Family, Part
<1>2. Family'[<<"net", 0>>] = NetF(DOMAIN net') /\ Family'[<<"wait", 0>>] = WaitF(wait')
  BY IndexCases DEF Family
<1>3. ASSUME NEW w \in Worker
      PROVE  /\ Family'[<<"agenda", w>>] = ListF(agenda'[w])
             /\ Family'[<<"table", w>>] = TableF(w, operator_table'[w])
             /\ Family'[<<"deferred", w>>] = DeferredF(deferred_operand_table'[w])
             /\ Family'[<<"join", w>>] = JoinF(w, deferred_ite_table'[w])
  BY IndexCases DEF Family
<1> QED BY <1>1, <1>2, <1>3

(* What a holder is, in each part.                                         *)
AtWorker(w, i, a) ==
    \/ /\ i = <<"agenda", w>> /\ a \in DOMAIN agenda[w]
       /\ Family[i][a] = MsgTokens(agenda[w][a])
    \/ /\ i = <<"table", w>> /\ a \in DOMAIN operator_table[w]
       /\ Family[i][a] = QueuedTokens(w, operator_table[w][a])
    \/ /\ i = <<"deferred", w>> /\ a \in DOMAIN deferred_operand_table[w]
       /\ Family[i][a] = Held(ListF(deferred_operand_table[w][a]))
    \/ /\ i = <<"join", w>> /\ a \in DOMAIN deferred_ite_table[w]
       /\ Family[i][a] = Tagged("entry", {Entry(w, a)}) \union Held(WaiterF(deferred_ite_table[w][a]))

(* Where a holder is, and what it holds.                                   *)
LEMMA Holders ==
    ASSUME NEW i \in Index, NEW a \in DOMAIN Family[i]
    PROVE  \/ i = <<"net", 0>> /\ a \in DOMAIN net /\ Family[i][a] = MsgTokens(a)
           \/ /\ i = <<"wait", 0>> /\ a \in Client
              /\ Family[i][a] = IF wait[a] = None THEN {}
                                ELSE Tagged("id", {wait[a].id}) \union Tagged("snk", {wait[a]})
           \/ \E w \in Worker : AtWorker(w, i, a)
<1>1. CASE i = <<"net", 0>>
  BY <1>1, FamilyIs DEF NetF
<1>2. CASE i = <<"wait", 0>>
  BY <1>2, FamilyIs DEF WaitF
<1>3. ASSUME NEW w \in Worker, i = <<"agenda", w>>
      PROVE  a \in DOMAIN agenda[w] /\ Family[i][a] = MsgTokens(agenda[w][a])
  BY <1>3, FamilyIs DEF ListF
<1>4. ASSUME NEW w \in Worker, i = <<"table", w>>
      PROVE  /\ a \in DOMAIN operator_table[w]
             /\ Family[i][a] = QueuedTokens(w, operator_table[w][a])
  BY <1>4, FamilyIs DEF TableF
<1>5. ASSUME NEW w \in Worker, i = <<"deferred", w>>
      PROVE  /\ a \in DOMAIN deferred_operand_table[w]
             /\ Family[i][a] = Held(ListF(deferred_operand_table[w][a]))
  BY <1>5, FamilyIs DEF DeferredF
<1>6. ASSUME NEW w \in Worker, i = <<"join", w>>
      PROVE  /\ a \in DOMAIN deferred_ite_table[w]
             /\ Family[i][a] = Tagged("entry", {Entry(w, a)})
                               \union Held(WaiterF(deferred_ite_table[w][a]))
  BY <1>6, FamilyIs DEF JoinF
<1> QED BY <1>1, <1>2, <1>3, <1>4, <1>5, <1>6, IndexCases DEF AtWorker

(* Members of a list of operands or of those that wait.                    *)
LEMMA InLists ==
    /\ \A s, x : x \in Held(ListF(s)) <=> \E n \in DOMAIN s : x \in MsgTokens(s[n])
    /\ \A s, x : x \in Held(WaiterF(s)) <=> \E n \in DOMAIN s : x \in Tagged("src", {s[n].dest})
  BY DEF Held, ListF, WaiterF

(* A token is held by one holder.                                          *)
LEMMA OneHolder ==
    ASSUME Tokens, NEW i \in Index, NEW j \in Index, NEW a \in DOMAIN Family[i],
           NEW b \in DOMAIN Family[j], NEW x, x \in Family[i][a], x \in Family[j][b]
    PROVE  i = j /\ a = b
<1>1. x \in Part[i] /\ x \in Part[j]
  BY FamilyIs DEF Held
<1>2. i = j
  BY <1>1, FamilyIs DEF Tokens, Apart
<1> QED BY <1>2 DEF Tokens, Apart

(* A token is held if some holder has it.                                  *)
LEMMA Holding ==
    \A x : x \in Held(Part) <=> \E i \in Index : \E a \in DOMAIN Family[i] : x \in Family[i][a]
<1>1. \A x : x \in Held(Part) <=> \E i \in Index : x \in Part[i]
  BY FamilyIs DEF Held
<1>2. \A i \in Index : \A x : x \in Part[i] <=> \E a \in DOMAIN Family[i] : x \in Family[i][a]
  BY FamilyIs DEF Held
<1> QED BY <1>1, <1>2

-----------------------------------------------------------------------------
(* What a list of operands, or of those that wait, holds.                  *)
LEMMA ListHas ==
    ASSUME NEW s, NEW t, NEW d
    PROVE  /\ <<t, d>> \in Held(ListF(s)) <=> \E n \in DOMAIN s : <<t, d>> \in MsgTokens(s[n])
           /\ <<t, d>> \in Held(WaiterF(s)) <=> t = "src" /\ \E n \in DOMAIN s : d = s[n].dest
<1>1. <<t, d>> \in Held(ListF(s)) <=> \E n \in DOMAIN s : <<t, d>> \in MsgTokens(s[n])
  BY InLists
<1>2. <<t, d>> \in Held(WaiterF(s)) <=> \E n \in DOMAIN s : <<t, d>> \in Tagged("src", {s[n].dest})
  BY InLists
<1>3. \A n \in DOMAIN s : <<t, d>> \in Tagged("src", {s[n].dest}) <=> t = "src" /\ d = s[n].dest
  BY Tags
<1> QED BY <1>1, <1>2, <1>3

-----------------------------------------------------------------------------
(* Where a token can be.  A slot that waits is with the identifier it      *)
(* belongs to.                                                             *)
LEMMA SinkHome ==
    ASSUME Kept, NEW i \in Index, NEW a \in DOMAIN Family[i], NEW d,
           <<"snk", d>> \in Family[i][a]
    PROVE  <<"id", d.id>> \in Family[i][a]
<1>0. \A s : <<"snk", d>> \notin Held(WaiterF(s))
  BY ListHas
<1>1. ASSUME NEW b, NEW op, <<"snk", d>> \in OpTokens(b, op)
      PROVE  <<"id", d.id>> \in OpTokens(b, op)
  BY <1>1, OpHas DEF Sinks, Destination
<1>2. ASSUME NEW m, <<"snk", d>> \in MsgTokens(m) PROVE <<"id", d.id>> \in MsgTokens(m)
  BY <1>1, <1>2, MsgHas
<1>3. CASE i = <<"net", 0>> /\ Family[i][a] = MsgTokens(a)
  BY <1>2, <1>3
<1>4. CASE i = <<"wait", 0>> /\ Family[i][a] = IF wait[a] = None THEN {}
                    ELSE Tagged("id", {wait[a].id}) \union Tagged("snk", {wait[a]})
  BY <1>4, Tags
<1>5. ASSUME NEW w \in Worker, Family[i][a] = MsgTokens(agenda[w][a])
      PROVE  <<"id", d.id>> \in Family[i][a]
  BY <1>2, <1>5
<1>6. ASSUME NEW w \in Worker, Family[i][a] = QueuedTokens(w, operator_table[w][a])
      PROVE  <<"id", d.id>> \in Family[i][a]
  BY <1>1, <1>6, QueuedHas
<1>7. ASSUME NEW w \in Worker, a \in DOMAIN deferred_operand_table[w],
             Family[i][a] = Held(ListF(deferred_operand_table[w][a]))
      PROVE  FALSE
  <2>1. PICK n \in DOMAIN deferred_operand_table[w][a] :
            <<"snk", d>> \in MsgTokens(deferred_operand_table[w][a][n])
    BY <1>7, InLists
  <2>2. deferred_operand_table[w][a][n].kind = "operand"
    BY <1>7 DEF Kept, KeptAt
  <2> QED BY <2>1, <2>2, MsgHas
<1>8. ASSUME NEW w \in Worker,
             Family[i][a] = Tagged("entry", {Entry(w, a)})
                            \union Held(WaiterF(deferred_ite_table[w][a]))
      PROVE  FALSE
  <2>1. <<"snk", d>> \notin Tagged("entry", {Entry(w, a)})
    BY Tags
  <2> QED BY <1>0, <1>8, <2>1
<1>9. ASSUME NEW w \in Worker, AtWorker(w, i, a)
      PROVE  <<"id", d.id>> \in Family[i][a]
  BY <1>9, <1>5, <1>6, <1>7, <1>8 DEF AtWorker
<1> QED BY <1>3, <1>4, <1>9, Holders

(* Only the slot of a client is no worker's.                               *)
LEMMA SinkAgent ==
    ASSUME Kept, NEW i \in Index, NEW a \in DOMAIN Family[i], NEW d,
           <<"snk", d>> \in Family[i][a]
    PROVE  \/ d.agent \in Worker
           \/ i = <<"wait", 0>> /\ a \in Client /\ wait[a] = d /\ d # None
<1>0. \A s : <<"snk", d>> \notin Held(WaiterF(s))
  BY ListHas
<1>1. ASSUME NEW b, NEW op, <<"snk", d>> \in OpTokens(b, op)
      PROVE  d.agent = b /\ Slots(op.code) # {}
  BY <1>1, OpHas DEF Sinks, Destination
<1>2. ASSUME NEW m, Says(m), <<"snk", d>> \in MsgTokens(m) PROVE d.agent \in Worker
  BY <1>1, <1>2, MsgHas DEF Says
<1>3. CASE i = <<"net", 0>> /\ a \in DOMAIN net /\ Family[i][a] = MsgTokens(a)
  BY <1>2, <1>3 DEF Kept
<1>4. CASE /\ i = <<"wait", 0>> /\ a \in Client
           /\ Family[i][a] = IF wait[a] = None THEN {}
                    ELSE Tagged("id", {wait[a].id}) \union Tagged("snk", {wait[a]})
  BY <1>4, Tags
<1>5. ASSUME NEW w \in Worker, a \in DOMAIN agenda[w], Family[i][a] = MsgTokens(agenda[w][a])
      PROVE  d.agent \in Worker
  BY <1>2, <1>5 DEF Kept, KeptAt
<1>6. ASSUME NEW w \in Worker, Family[i][a] = QueuedTokens(w, operator_table[w][a])
      PROVE  d.agent \in Worker
  BY <1>1, <1>6, QueuedHas
<1>7. ASSUME NEW w \in Worker, a \in DOMAIN deferred_operand_table[w],
             Family[i][a] = Held(ListF(deferred_operand_table[w][a]))
      PROVE  FALSE
  <2>1. PICK n \in DOMAIN deferred_operand_table[w][a] :
            <<"snk", d>> \in MsgTokens(deferred_operand_table[w][a][n])
    BY <1>7, InLists
  <2>2. deferred_operand_table[w][a][n].kind = "operand"
    BY <1>7 DEF Kept, KeptAt
  <2> QED BY <2>1, <2>2, MsgHas
<1>8. ASSUME NEW w \in Worker,
             Family[i][a] = Tagged("entry", {Entry(w, a)})
                            \union Held(WaiterF(deferred_ite_table[w][a]))
      PROVE  FALSE
  <2>1. <<"snk", d>> \notin Tagged("entry", {Entry(w, a)})
    BY Tags
  <2> QED BY <1>0, <1>8, <2>1
<1>9. ASSUME NEW w \in Worker, AtWorker(w, i, a)
      PROVE  d.agent \in Worker
  BY <1>9, <1>5, <1>6, <1>7, <1>8 DEF AtWorker
<1> QED BY <1>3, <1>4, <1>9, Holders

(* An operator that has fired is in a table, and a triple that is being    *)
(* computed has its entry at its worker.                                   *)
LEMMA FullHome ==
    ASSUME Kept, NEW i \in Index, NEW a \in DOMAIN Family[i], NEW d,
           <<"full", d>> \in Family[i][a]
    PROVE  \E w \in Worker : /\ i = <<"table", w>> /\ a \in DOMAIN operator_table[w]
                             /\ op_check_full(operator_table[w][a])
                             /\ d = Destination(w, operator_table[w][a].id, 0)
<1>1. \A b, op : <<"full", d>> \notin OpTokens(b, op)
  BY OpHas
<1>2. \A m : <<"full", d>> \notin MsgTokens(m)
  BY <1>1, MsgHas
<1>6. ASSUME NEW w \in Worker, i = <<"table", w>>, a \in DOMAIN operator_table[w],
             Family[i][a] = QueuedTokens(w, operator_table[w][a])
      PROVE  /\ op_check_full(operator_table[w][a])
             /\ d = Destination(w, operator_table[w][a].id, 0)
  BY <1>1, <1>6, QueuedHas
<1>7. \A s : <<"full", d>> \notin Held(ListF(s)) /\ <<"full", d>> \notin Held(WaiterF(s))
  BY <1>2, ListHas
<1>8. \A D : <<"full", d>> \notin Tagged("id", D) /\ <<"full", d>> \notin Tagged("snk", D)
             /\ <<"full", d>> \notin Tagged("entry", D)
  BY Tags
<1>9. ASSUME NEW w \in Worker, AtWorker(w, i, a)
      PROVE  /\ i = <<"table", w>> /\ a \in DOMAIN operator_table[w]
             /\ op_check_full(operator_table[w][a])
             /\ d = Destination(w, operator_table[w][a].id, 0)
  BY <1>9, <1>2, <1>6, <1>7, <1>8 DEF AtWorker
<1>10. ~(i = <<"net", 0>> /\ Family[i][a] = MsgTokens(a))
  BY <1>2
<1>11. Family[i][a] # IF wait[a] = None THEN {}
                      ELSE Tagged("id", {wait[a].id}) \union Tagged("snk", {wait[a]})
  BY <1>8
<1> QED BY <1>9, <1>10, <1>11, Holders

(* The mark of a triple is at its worker's table.                          *)
LEMMA EntryHome ==
    ASSUME NEW i \in Index, NEW a \in DOMAIN Family[i], NEW d,
           <<"entry", d>> \in Family[i][a]
    PROVE  \E w \in Worker : /\ i = <<"join", w>> /\ a \in DOMAIN deferred_ite_table[w]
                             /\ d = Entry(w, a)
<1>1. \A b, op : <<"entry", d>> \notin OpTokens(b, op)
  BY OpHas
<1>2. \A m : <<"entry", d>> \notin MsgTokens(m)
  BY <1>1, MsgHas
<1>3. \A w, op : <<"entry", d>> \notin QueuedTokens(w, op)
  BY <1>1, QueuedHas
<1>7. \A s : <<"entry", d>> \notin Held(ListF(s)) /\ <<"entry", d>> \notin Held(WaiterF(s))
  BY <1>2, ListHas
<1>8. \A D : <<"entry", d>> \notin Tagged("id", D) /\ <<"entry", d>> \notin Tagged("snk", D)
             /\ (<<"entry", d>> \in Tagged("entry", D) => d \in D)
  BY Tags
<1>9. ASSUME NEW w \in Worker, AtWorker(w, i, a)
      PROVE  /\ i = <<"join", w>> /\ a \in DOMAIN deferred_ite_table[w]
             /\ d = Entry(w, a)
  BY <1>9, <1>2, <1>3, <1>7, <1>8 DEF AtWorker
<1>10. ~(i = <<"net", 0>> /\ Family[i][a] = MsgTokens(a))
  BY <1>2
<1>11. Family[i][a] # IF wait[a] = None THEN {}
                      ELSE Tagged("id", {wait[a].id}) \union Tagged("snk", {wait[a]})
  BY <1>8
<1> QED BY <1>9, <1>10, <1>11, Holders

-----------------------------------------------------------------------------
(* What the operators, operands and requests of a world that fits can      *)
(* speak of: only identifiers that have been handed out.                   *)
Dated(C, t, d) == /\ t = "id" => Issued(C, d)
                  /\ t \in {"src", "snk"} => Issued(C, d.id)

(* The tokens of an operator, ...                                          *)
LEMMA OperatorDated ==
    ASSUME NEW C, NEW op, NEW a, OperatorIn(C, op, a), NEW t, NEW d,
           <<t, d>> \in OpTokens(a, op)
    PROVE  Dated(C, t, d)
<1>1. Issued(C, op.id) /\ Issued(C, op.dest.id)
  BY TaskIssued DEF OperatorIn, Awaits
<1>2. PICK r : Awaits(C, op.dest, r)
  BY TaskIssued DEF OperatorIn
<1>3. \A x \in AnswerSlots(op) : x.id = op.dest.id
  BY <1>2 DEF AnswerSlots, Awaits
<1>4. \A x \in Sinks(a, op) : x.id = op.id
  BY DEF Sinks, Destination
<1> QED BY <1>1, <1>3, <1>4, OpHas DEF Dated

(* ... of a message, ...                                                   *)
LEMMA MessageDated ==
    ASSUME NEW C, NEW m, MessageIn(C, m) \/ m.kind = "retire", NEW t, NEW d,
           <<t, d>> \in MsgTokens(m)
    PROVE  Dated(C, t, d)
<1>1. CASE m.kind = "operation"
  <2>1. OperatorIn(C, m.op, m.to) /\ <<t, d>> \in OpTokens(m.to, m.op)
    BY <1>1, MsgHas DEF MessageIn
  <2> QED BY <2>1, OperatorDated
<1>2. CASE m.kind = "operand"
  <2>1. t = "src" /\ d \in OperandSlots(m) /\ Issued(C, m.id)
    BY <1>2, MsgHas DEF MessageIn, OperandIn
  <2>2. d.id = m.id
    BY <2>1 DEF OperandSlots, Destination
  <2> QED BY <2>1, <2>2 DEF Dated
<1>3. CASE m.kind \notin {"operation", "operand"}
  BY <1>3, MsgHas DEF Dated
<1> QED BY <1>1, <1>2, <1>3

(* ... and all that are held name identifiers that have been handed out.   *)
LEMMA HeldDated ==
    ASSUME NEW C, RuntimeIn(C), TablesIn(C), ClientsIn(C), NEW t, NEW d,
           <<t, d>> \in Held(Part)
    PROVE  Dated(C, t, d)
<1>0. PICK i \in Index : \E a \in DOMAIN Family[i] : <<t, d>> \in Family[i][a]
  BY Holding
<1>1. PICK a \in DOMAIN Family[i] : <<t, d>> \in Family[i][a]
  BY <1>0
<1>2. ASSUME NEW m, MessageIn(C, m) \/ m.kind = "retire", <<t, d>> \in MsgTokens(m)
      PROVE  Dated(C, t, d)
  BY <1>2, MessageDated
<1>3. CASE i = <<"net", 0>> /\ a \in DOMAIN net /\ Family[i][a] = MsgTokens(a)
  <2>1. MessageIn(C, a)
    BY <1>3 DEF RuntimeIn
  <2>2. <<t, d>> \in MsgTokens(a)
    BY <1>1, <1>3
  <2> QED BY <1>2, <2>1, <2>2
<1>4. CASE /\ a \in Client
           /\ Family[i][a] = IF wait[a] = None THEN {}
                             ELSE Tagged("id", {wait[a].id}) \union Tagged("snk", {wait[a]})
  <2>1. wait[a] # None /\ (<<t, d>> \in Tagged("id", {wait[a].id}) \/ <<t, d>> \in Tagged("snk", {wait[a]}))
    BY <1>1, <1>4
  <2>2. Issued(C, wait[a].id)
    BY <1>4, <2>1 DEF ClientsIn, Awaits
  <2> QED BY <2>1, <2>2, Tags DEF Dated
<1>5. ASSUME NEW w \in Worker, a \in DOMAIN agenda[w], Family[i][a] = MsgTokens(agenda[w][a])
      PROVE  Dated(C, t, d)
  <2>1. AllIn(C, agenda[w])
    BY DEF RuntimeIn
  <2>2. MessageIn(C, agenda[w][a]) \/ agenda[w][a].kind = "retire"
    BY <1>5, <2>1, Members
  <2> DEFINE m == agenda[w][a]
  <2>3. (MessageIn(C, m) \/ m.kind = "retire") /\ <<t, d>> \in MsgTokens(m)
    BY <1>1, <1>5, <2>2
  <2> HIDE DEF m
  <2> QED BY <1>2, <2>3
<1>6. ASSUME NEW w \in Worker, a \in DOMAIN operator_table[w],
             Family[i][a] = QueuedTokens(w, operator_table[w][a])
      PROVE  Dated(C, t, d)
  <2> DEFINE op == operator_table[w][a]
  <2>1. OperatorIn(C, op, w) /\ <<t, d>> \in QueuedTokens(w, op)
    BY <1>1, <1>6 DEF RuntimeIn
  <2> HIDE DEF op
  <2>2. CASE <<t, d>> \in OpTokens(w, op)
    BY <2>1, <2>2, OperatorDated
  <2>3. CASE t \in {"id", "full"} /\ (t = "id" => d = op.id)
    BY <2>1, <2>3 DEF OperatorIn, Dated
  <2> QED BY <2>1, <2>2, <2>3, QueuedHas
<1>7. ASSUME NEW w \in Worker, a \in DOMAIN deferred_operand_table[w],
             Family[i][a] = Held(ListF(deferred_operand_table[w][a]))
      PROVE  Dated(C, t, d)
  <2>1. PICK S : /\ deferred_operand_table[w][a] \in Seq(S)
                 /\ \A m \in S : m.kind = "operand" /\ m.id = a /\ OperandIn(C, m)
    BY <1>7 DEF RuntimeIn, ListIn
  <2> DEFINE s == deferred_operand_table[w][a]
  <2>2. <<t, d>> \in Held(ListF(s))
    BY <1>1, <1>7
  <2>3. PICK n \in DOMAIN s : <<t, d>> \in MsgTokens(s[n])
    <3> HIDE DEF s
    <3> QED BY <2>2, ListHas
  <2>4. s[n] \in S
    BY <2>1
  <2>5. MessageIn(C, s[n])
    BY <2>1, <2>4 DEF MessageIn
  <2> HIDE DEF s
  <2> QED BY <1>2, <2>3, <2>5
<1>8. ASSUME NEW w \in Worker, a \in DOMAIN deferred_ite_table[w],
             Family[i][a] = Tagged("entry", {Entry(w, a)})
                            \union Held(WaiterF(deferred_ite_table[w][a]))
      PROVE  Dated(C, t, d)
  <2>1. PICK S : /\ deferred_ite_table[w][a] \in Seq(S)
                 /\ \A x \in S : Awaits(C, x.dest, Signed(Ite(a[1], a[2], a[3]), x.neg))
    BY <1>8 DEF TablesIn, WaitersIn
  <2> DEFINE s == deferred_ite_table[w][a]
  <2>2. CASE <<t, d>> \in Tagged("entry", {Entry(w, a)})
    BY <2>2, Tags DEF Dated
  <2>3. CASE <<t, d>> \in Held(WaiterF(s))
    <3>1. t = "src" /\ \E n \in DOMAIN s : d = s[n].dest
      <4> HIDE DEF s
      <4> QED BY <2>3, ListHas
    <3>2. PICK n \in DOMAIN s : d = s[n].dest
      BY <3>1
    <3>3. s[n] \in S
      BY <2>1
    <3>4. Issued(C, d.id)
      <4> HIDE DEF s
      <4> QED BY <2>1, <3>2, <3>3 DEF Awaits
    <3> QED BY <3>1, <3>4 DEF Dated
  <2> QED BY <1>1, <1>8, <2>2, <2>3
<1>9. ASSUME NEW w \in Worker, AtWorker(w, i, a) PROVE Dated(C, t, d)
  BY <1>5, <1>6, <1>7, <1>8, <1>9 DEF AtWorker
<1> QED BY <1>3, <1>4, <1>9, Holders

-----------------------------------------------------------------------------
(* Sequences of messages, one after the other.                             *)
IsList(s) == \E S : s \in Seq(S)

(* One list of messages after the other.                                   *)
LEMMA ListCat ==
    ASSUME NEW s, NEW t, IsList(s), IsList(t)
    PROVE  /\ IsList(s \o t)
           /\ Held(ListF(s \o t)) = Held(ListF(s)) \union Held(ListF(t))
           /\ Apart(ListF(s \o t)) <=> /\ Apart(ListF(s)) /\ Apart(ListF(t))
                                       /\ Held(ListF(s)) \intersect Held(ListF(t)) = {}
<1>1. PICK S : s \in Seq(S)
  BY DEF IsList
<1>2. PICK T : t \in Seq(T)
  BY DEF IsList
<1>3. s \in Seq(S \union T) /\ t \in Seq(S \union T)
  BY <1>1, <1>2
<1>4. s \o t \in Seq(S \union T)
  BY <1>3
<1>5. /\ Len(s) \in Nat /\ Len(t) \in Nat /\ DOMAIN s = 1 .. Len(s) /\ DOMAIN t = 1 .. Len(t)
      /\ DOMAIN (s \o t) = 1 .. (Len(s) + Len(t))
      /\ \A i \in 1 .. Len(s) : (s \o t)[i] = s[i]
      /\ \A i \in 1 .. Len(t) : (s \o t)[Len(s) + i] = t[i]
  BY <1>3, <1>4
<1> DEFINE m == Len(s)   n == Len(t)   u == s \o t
<1>6. /\ DOMAIN ListF(s) = 1 .. m /\ DOMAIN ListF(t) = 1 .. n /\ DOMAIN ListF(u) = 1 .. (m + n)
      /\ \A i \in 1 .. m : i \in 1 .. (m + n)
      /\ \A i \in 1 .. n : m + i \in 1 .. (m + n)
  BY <1>5 DEF ListF
<1>7. /\ \A i \in 1 .. m : u[i] = s[i]
      /\ \A i \in 1 .. n : u[m + i] = t[i]
      /\ m \in Nat /\ n \in Nat
  BY <1>5
<1> HIDE DEF m, n, u
<1>8. /\ \A i \in 1 .. m : ListF(u)[i] = ListF(s)[i]
      /\ \A i \in 1 .. n : ListF(u)[m + i] = ListF(t)[i]
  BY <1>6, <1>7 DEF ListF
<1>9. /\ Held(ListF(u)) = Held(ListF(s)) \union Held(ListF(t))
      /\ Apart(ListF(u)) <=> /\ Apart(ListF(s)) /\ Apart(ListF(t))
                             /\ Held(ListF(s)) \intersect Held(ListF(t)) = {}
  <2> DEFINE fn == ListF(s)   gn == ListF(t)   hn == ListF(u)
  <2>1. /\ m \in Nat /\ n \in Nat /\ DOMAIN fn = 1 .. m /\ DOMAIN gn = 1 .. n
        /\ DOMAIN hn = 1 .. (m + n)
        /\ \A i \in 1 .. m : hn[i] = fn[i]
        /\ \A i \in 1 .. n : hn[m + i] = gn[i]
    BY <1>6, <1>7, <1>8
  <2> HIDE DEF fn, gn, hn
  <2>3. Joined(fn, gn, hn, m, n)
    BY <2>1 DEF Joined
  <2>2. /\ Held(hn) = Held(fn) \union Held(gn)
        /\ Apart(hn) <=> Apart(fn) /\ Apart(gn) /\ Held(fn) \intersect Held(gn) = {}
    BY <2>3, HeldCat
  <2> QED BY <2>2 DEF fn, gn, hn
<1> QED BY <1>4, <1>9 DEF IsList, u

(* The empty list of messages, and a list of one.                          *)
LEMMA ListOne ==
    /\ IsList(<<>>) /\ Held(ListF(<<>>)) = {} /\ Apart(ListF(<<>>))
    /\ \A m : IsList(<<m>>) /\ Held(ListF(<<m>>)) = MsgTokens(m) /\ Apart(ListF(<<m>>))
<1>1. <<>> \in Seq({})
  OBVIOUS
<1>2. DOMAIN ListF(<<>>) = {}
  BY DEF ListF
<1>3. ASSUME NEW m PROVE IsList(<<m>>) /\ Held(ListF(<<m>>)) = MsgTokens(m) /\ Apart(ListF(<<m>>))
  <2>1. <<m>> \in Seq({m})
    OBVIOUS
  <2>2. DOMAIN ListF(<<m>>) = {1} /\ ListF(<<m>>)[1] = MsgTokens(m)
    BY DEF ListF
  <2>3. Held(ListF(<<m>>)) = MsgTokens(m) /\ Apart(ListF(<<m>>))
    <3> DEFINE fn == ListF(<<m>>)
    <3> HIDE DEF fn
    <3>1. DOMAIN fn = {1} /\ fn[1] = MsgTokens(m)
      BY <2>2 DEF fn
    <3>2. Held(fn) = MsgTokens(m) /\ Apart(fn)
      BY <3>1 DEF Held, Apart
    <3> QED BY <3>2 DEF fn
  <2> QED BY <2>1, <2>3 DEF IsList
<1>4. Held(ListF(<<>>)) = {} /\ Apart(ListF(<<>>))
  BY <1>2 DEF Held, Apart
<1> QED BY <1>1, <1>3, <1>4 DEF IsList

(* The rest of a list.                                                     *)
LEMMA ListTail ==
    ASSUME NEW s, IsList(s), s # <<>>, Apart(ListF(s))
    PROVE  /\ IsList(Tail(s)) /\ Apart(ListF(Tail(s))) /\ s[1] = Head(s) /\ 1 \in DOMAIN s
           /\ Held(ListF(Tail(s))) = Held(ListF(s)) \ MsgTokens(Head(s))
           /\ MsgTokens(Head(s)) \subseteq Held(ListF(s))
           /\ \A n \in DOMAIN Tail(s) : n + 1 \in DOMAIN s /\ Tail(s)[n] = s[n + 1]
<1>1. PICK S : s \in Seq(S)
  BY DEF IsList
<1>2. Tail(s) \in Seq(S) /\ s = <<Head(s)>> \o Tail(s) /\ Head(s) = s[1] /\ 1 \in DOMAIN s
  BY <1>1
<1>3. IsList(Tail(s)) /\ IsList(<<Head(s)>>)
  BY <1>2, ListOne DEF IsList
<1>4. /\ Held(ListF(s)) = Held(ListF(<<Head(s)>>)) \union Held(ListF(Tail(s)))
      /\ Apart(ListF(s)) <=> /\ Apart(ListF(<<Head(s)>>)) /\ Apart(ListF(Tail(s)))
                             /\ Held(ListF(<<Head(s)>>)) \intersect Held(ListF(Tail(s))) = {}
  <2> DEFINE h == <<Head(s)>>   t == Tail(s)
  <2>1. s = h \o t /\ IsList(h) /\ IsList(t)
    BY <1>2, <1>3
  <2> HIDE DEF h, t
  <2>2. /\ Held(ListF(h \o t)) = Held(ListF(h)) \union Held(ListF(t))
        /\ Apart(ListF(h \o t)) <=> /\ Apart(ListF(h)) /\ Apart(ListF(t))
                                    /\ Held(ListF(h)) \intersect Held(ListF(t)) = {}
    BY <2>1, ListCat
  <2>3. /\ Held(ListF(s)) = Held(ListF(h)) \union Held(ListF(t))
        /\ Apart(ListF(s)) <=> /\ Apart(ListF(h)) /\ Apart(ListF(t))
                               /\ Held(ListF(h)) \intersect Held(ListF(t)) = {}
    BY <2>1, <2>2
  <2> QED BY <2>3 DEF h, t
<1>5. Held(ListF(<<Head(s)>>)) = MsgTokens(Head(s))
  BY ListOne
<1>6. \A n \in DOMAIN Tail(s) : n + 1 \in DOMAIN s /\ Tail(s)[n] = s[n + 1]
  BY <1>1
<1> QED BY <1>2, <1>3, <1>4, <1>5, <1>6

(* Lists that are right are lists.                                         *)
LEMMA RightLists ==
    ASSUME NEW C, RuntimeIn(C)
    PROVE  /\ \A w \in Worker : IsList(agenda[w])
           /\ \A w \in Worker : \A id \in DOMAIN deferred_operand_table[w] :
                  IsList(deferred_operand_table[w][id])
  BY DEF RuntimeIn, AllIn, ListIn, IsList

(* The messages of a network that holds each once.                         *)
LEMMA NetOnes ==
    ASSUME Kept, NEW x
    PROVE  /\ net (-) SetToBag({x}) = [m \in DOMAIN net \ {x} |-> 1]
           /\ x \notin DOMAIN net => net (+) SetToBag({x}) = [m \in DOMAIN net \union {x} |-> 1]
<1>1. net = [m \in DOMAIN net |-> 1]
  BY DEF Kept
<1>2. DOMAIN SetToBag({x}) = {x} /\ SetToBag({x})[x] = 1
  BY DEF SetToBag
<1>3. \A m \in DOMAIN net : net[m] = 1
  BY <1>1
<1> DEFINE B == SetToBag({x})   M == net (-) B
<1> HIDE DEF B
<1>4. DOMAIN (net (-) B) = DOMAIN net \ {x} /\ \A m \in DOMAIN net \ {x} : (net (-) B)[m] = 1
  BY <1>2, <1>3 DEF (-), B
<1>5. net (-) B = [m \in DOMAIN net \ {x} |-> 1]
  <2>1. net (-) B = [m \in DOMAIN (net (-) B) |-> (net (-) B)[m]]
    BY DEF (-)
  <2> QED BY <1>4, <2>1
<1>6. ASSUME x \notin DOMAIN net PROVE net (+) B = [m \in DOMAIN net \union {x} |-> 1]
  BY <1>2, <1>3, <1>6 DEF (+), B
<1> QED BY <1>5, <1>6 DEF B

-----------------------------------------------------------------------------
(* What arrives is held by the network or is the head of the agenda.       *)
Rest(w) == IF agenda[w] = <<>> THEN <<>> ELSE Tail(agenda[w])

(* What a worker receives is held, by the network or its agenda.           *)
LEMMA Arriving ==
    ASSUME LinInv, NEW C, RuntimeIn(C), NEW w \in Worker, NEW m \in Arrival(w)
    PROVE  /\ Says(m)
           /\ \E i \in {<<"net", 0>>, <<"agenda", w>>} : \E a \in DOMAIN Family[i] :
                  Family[i][a] = MsgTokens(m)
<1>1. CASE agenda[w] = <<>>
  <2>1. m \in DOMAIN net
    BY <1>1 DEF Arrival, BagToSet
  <2>2. DOMAIN Family[<<"net", 0>>] = DOMAIN net /\ Family[<<"net", 0>>][m] = MsgTokens(m)
    BY <2>1, FamilyIs DEF NetF
  <2> QED BY <2>1, <2>2 DEF LinInv, Kept
<1>2. CASE agenda[w] # <<>>
  <2>1. m = Head(agenda[w]) /\ IsList(agenda[w])
    BY <1>2, RightLists DEF Arrival
  <2>2. 1 \in DOMAIN agenda[w] /\ agenda[w][1] = m
    <3>1. PICK S : agenda[w] \in Seq(S)
      BY <2>1 DEF IsList
    <3> QED BY <1>2, <2>1, <3>1
  <2>3. /\ DOMAIN Family[<<"agenda", w>>] = DOMAIN agenda[w]
        /\ Family[<<"agenda", w>>][1] = MsgTokens(m)
    BY <2>2, FamilyIs DEF ListF
  <2> QED BY <2>2, <2>3 DEF LinInv, Kept, KeptAt
<1> QED BY <1>1, <1>2

(* What a worker has received is on the network or its agenda no more.     *)
LEMMA Taken ==
    ASSUME LinInv, NEW C, RuntimeIn(C), NEW w \in Worker, NEW m \in Arrival(w), net' = Took(w, m)
    PROVE  /\ net' = [x \in DOMAIN net' |-> 1] /\ DOMAIN net' \subseteq DOMAIN net
           /\ IsList(Rest(w))
           /\ \A n \in DOMAIN Rest(w) : \E k \in DOMAIN agenda[w] : Rest(w)[n] = agenda[w][k]
           /\ Apart(NetF(DOMAIN net')) /\ Apart(ListF(Rest(w)))
           /\ \E Rn \in SUBSET Part[<<"net", 0>>] : \E Ra \in SUBSET Part[<<"agenda", w>>] :
                 /\ Rn \union Ra = MsgTokens(m)
                 /\ Held(NetF(DOMAIN net')) = Part[<<"net", 0>>] \ Rn
                 /\ Held(ListF(Rest(w))) = Part[<<"agenda", w>>] \ Ra
<1>0. /\ <<"net", 0>> \in Index /\ <<"agenda", w>> \in Index
      /\ Part[<<"net", 0>>] = Held(NetF(DOMAIN net)) /\ Apart(NetF(DOMAIN net))
      /\ Part[<<"agenda", w>>] = Held(ListF(agenda[w])) /\ Apart(ListF(agenda[w]))
  BY IndexCases, FamilyIs DEF LinInv, Tokens
<1>1. CASE agenda[w] = <<>>
  <2>1. m \in DOMAIN net /\ Rest(w) = <<>> /\ net' = net (-) SetToBag({m})
    BY <1>1 DEF Arrival, BagToSet, Rest, Took
  <2>2. net' = [x \in DOMAIN net \ {m} |-> 1]
    BY <2>1, NetOnes DEF LinInv
  <2>3. DOMAIN net' = DOMAIN net \ {m} /\ net' = [x \in DOMAIN net' |-> 1]
    BY <2>2
  <2> DEFINE fn == NetF(DOMAIN net)   gn == NetF(DOMAIN net')
  <2>4. /\ DOMAIN fn = DOMAIN net /\ fn[m] = MsgTokens(m) /\ DOMAIN gn = DOMAIN fn \ {m}
        /\ \A x \in DOMAIN gn : gn[x] = fn[x]
    BY <2>1, <2>3 DEF NetF
  <2>5. Apart(fn) /\ Part[<<"net", 0>>] = Held(fn)
    BY <1>0
  <2> HIDE DEF fn, gn
  <2>6. Apart(gn) /\ Held(gn) = Held(fn) \ fn[m] /\ fn[m] \subseteq Held(fn)
    <3>1. Apart(gn) /\ Held(gn) = Held(fn) \ (IF m \in DOMAIN fn THEN fn[m] ELSE {})
      BY <2>4, <2>5, HeldRemove
    <3>2. fn[m] \subseteq Held(fn)
      BY <2>1, <2>4 DEF Held
    <3> QED BY <2>1, <2>4, <3>1, <3>2
  <2>7. Held(ListF(Rest(w))) = Part[<<"agenda", w>>] /\ Apart(ListF(Rest(w))) /\ IsList(Rest(w))
    BY <1>0, <1>1, <2>1, ListOne
  <2>8. \A n \in DOMAIN Rest(w) : \E k \in DOMAIN agenda[w] : Rest(w)[n] = agenda[w][k]
    BY <2>1
  <2>9. /\ MsgTokens(m) \in SUBSET Part[<<"net", 0>>] /\ {} \in SUBSET Part[<<"agenda", w>>]
        /\ MsgTokens(m) \union {} = MsgTokens(m)
        /\ Held(gn) = Part[<<"net", 0>>] \ MsgTokens(m)
        /\ Held(ListF(Rest(w))) = Part[<<"agenda", w>>] \ {}
    BY <2>4, <2>5, <2>6, <2>7
  <2>10. Apart(NetF(DOMAIN net')) /\ Held(NetF(DOMAIN net')) = Part[<<"net", 0>>] \ MsgTokens(m)
    BY <2>6, <2>9 DEF gn
  <2> QED BY <2>3, <2>7, <2>8, <2>9, <2>10
<1>2. CASE agenda[w] # <<>>
  <2>1. m = Head(agenda[w]) /\ IsList(agenda[w]) /\ Rest(w) = Tail(agenda[w]) /\ net' = net
    BY <1>2, RightLists DEF Arrival, Rest, Took
  <2>2. /\ IsList(Rest(w)) /\ Apart(ListF(Rest(w)))
        /\ Held(ListF(Rest(w))) = Held(ListF(agenda[w])) \ MsgTokens(m)
        /\ MsgTokens(m) \subseteq Held(ListF(agenda[w]))
        /\ \A n \in DOMAIN Rest(w) : \E k \in DOMAIN agenda[w] : Rest(w)[n] = agenda[w][k]
    BY <1>0, <1>2, <2>1, ListTail
  <2>3. /\ {} \in SUBSET Part[<<"net", 0>>] /\ MsgTokens(m) \in SUBSET Part[<<"agenda", w>>]
        /\ {} \union MsgTokens(m) = MsgTokens(m)
        /\ Held(NetF(DOMAIN net')) = Part[<<"net", 0>>] \ {}
        /\ Held(ListF(Rest(w))) = Part[<<"agenda", w>>] \ MsgTokens(m)
    BY <1>0, <2>1, <2>2
  <2>4. net' = [x \in DOMAIN net' |-> 1] /\ DOMAIN net' \subseteq DOMAIN net /\ Apart(NetF(DOMAIN net'))
    BY <1>0, <2>1 DEF LinInv, Kept
  <2> QED BY <2>2, <2>3, <2>4
<1> QED BY <1>1, <1>2

(* Filling slots that wait takes these from the operator, nothing else.    *)
LEMMA FillTokens ==
    ASSUME NEW w, NEW op, NEW new, NEW r, NEW D,
           op = [code |-> op.code, id |-> op.id, dest |-> op.dest, arg |-> op.arg, data |-> op.data],
           \A o \in DOMAIN new : Destination(w, op.id, o) \in Sinks(w, op),
           r = [op EXCEPT !.data = Fill(@, new)],
           D = {Destination(w, op.id, o) : o \in DOMAIN new}
    PROVE  /\ r.id = op.id /\ r.code = op.code /\ D \subseteq Sinks(w, op)
           /\ OpTokens(w, r) = OpTokens(w, op) \ Tagged("snk", D)
<1> DEFINE d == Fill(op.data, new)
<1>1. r = [code |-> op.code, id |-> op.id, dest |-> op.dest, arg |-> op.arg, data |-> d]
  OBVIOUS
<1>2. DOMAIN d = DOMAIN new \union DOMAIN op.data
  BY DEF Fill
<1> HIDE DEF d
<1>3. /\ r.code = op.code /\ r.id = op.id /\ r.dest = op.dest /\ r.arg = op.arg
      /\ DOMAIN r.data = DOMAIN new \union DOMAIN op.data
  BY <1>1, <1>2
<1>4. AnswerSlots(r) = AnswerSlots(op) /\ Stores(w, r) = Stores(w, op)
  BY <1>3 DEF AnswerSlots, Stores
<1>5. \A o, p : Destination(w, op.id, o) = Destination(w, op.id, p) => o = p
  <2>1. \A o : Destination(w, op.id, o).offset = o
    BY DEF Destination
  <2> QED BY <2>1
<1>6. D \subseteq Sinks(w, op)
  OBVIOUS
<1>7. Sinks(w, r) = Sinks(w, op) \ D
  BY <1>3, <1>5 DEF Sinks
<1>8. ASSUME NEW t, NEW x
      PROVE  <<t, x>> \in OpTokens(w, r) <=> <<t, x>> \in OpTokens(w, op) \ Tagged("snk", D)
  <2>1. <<t, x>> \in Tagged("snk", D) <=> t = "snk" /\ x \in D
    BY Tags
  <2> QED BY <1>3, <1>4, <1>7, <2>1, OpHas
<1>9. OpTokens(w, r) = OpTokens(w, op) \ Tagged("snk", D)
  <2>1. \A x : x \in OpTokens(w, r) => \E t, y : x = <<t, y>>
    BY Pairs
  <2>2. \A x : x \in OpTokens(w, op) => \E t, y : x = <<t, y>>
    BY Pairs
  <2>3. \A x : x \in OpTokens(w, r) => x \in OpTokens(w, op) \ Tagged("snk", D)
    BY <1>8, <2>1
  <2>4. \A x : x \in OpTokens(w, op) \ Tagged("snk", D) => x \in OpTokens(w, r)
    BY <1>8, <2>2
  <2> QED BY <2>3, <2>4
<1> QED BY <1>3, <1>6, <1>9

-----------------------------------------------------------------------------
(* What is to fill a slot finds it where the slot's identifier is.         *)
LEMMA SinkAt ==
    ASSUME LinInv, NEW d, <<"src", d>> \in Held(Part), NEW i \in Index,
           NEW a \in DOMAIN Family[i], <<"id", d.id>> \in Family[i][a]
    PROVE  <<"snk", d>> \in Family[i][a]
<1>1. <<"snk", d>> \in Held(Part)
  BY DEF LinInv, Tokens, Paired
<1>2. PICK j \in Index : \E b \in DOMAIN Family[j] : <<"snk", d>> \in Family[j][b]
  BY <1>1, Holding
<1>3. PICK b \in DOMAIN Family[j] : <<"snk", d>> \in Family[j][b]
  BY <1>2
<1>4. <<"id", d.id>> \in Family[j][b]
  BY <1>3, SinkHome DEF LinInv
<1>5. i = j /\ a = b
  BY <1>4, OneHolder DEF LinInv
<1> QED BY <1>3, <1>5

(* An operator of a table has its identifier, full or not.                 *)
LEMMA TableHolds ==
    ASSUME NEW C, RuntimeIn(C), NEW w \in Worker, NEW id \in DOMAIN operator_table[w]
    PROVE  /\ <<"table", w>> \in Index /\ id \in DOMAIN Family[<<"table", w>>]
           /\ Family[<<"table", w>>][id] = QueuedTokens(w, operator_table[w][id])
           /\ <<"id", id>> \in Family[<<"table", w>>][id]
<1>1. /\ <<"table", w>> \in Index /\ DOMAIN Family[<<"table", w>>] = DOMAIN operator_table[w]
      /\ Family[<<"table", w>>][id] = QueuedTokens(w, operator_table[w][id])
  <2>1. /\ <<"table", w>> \in Index
        /\ Family[<<"table", w>>] = TableF(w, operator_table[w])
    BY IndexCases, FamilyIs
  <2> QED BY <2>1 DEF TableF
<1>2. operator_table[w][id].id = id
  BY DEF RuntimeIn
<1>3. <<"id", id>> \in QueuedTokens(w, operator_table[w][id])
  BY <1>2, QueuedHas, OpHas
<1> QED BY <1>1, <1>3

(* receive_operation never finds its identifier in the table.              *)
LEMMA NoCollision ==
    ASSUME LinInv, NEW C, RuntimeIn(C), NEW w \in Worker, NEW m \in Arrival(w),
           m.kind = "operation"
    PROVE  m.op.id \notin DOMAIN operator_table[w]
<1> SUFFICES ASSUME m.op.id \in DOMAIN operator_table[w] PROVE FALSE
  OBVIOUS
<1>1. PICK i \in {<<"net", 0>>, <<"agenda", w>>} :
          \E a \in DOMAIN Family[i] : Family[i][a] = MsgTokens(m)
  BY Arriving
<1>2. PICK a \in DOMAIN Family[i] : Family[i][a] = MsgTokens(m)
  BY <1>1
<1>3. <<"id", m.op.id>> \in Family[i][a]
  BY <1>2, MsgHas, OpHas
<1>4. /\ <<"table", w>> \in Index /\ m.op.id \in DOMAIN Family[<<"table", w>>]
      /\ <<"id", m.op.id>> \in Family[<<"table", w>>][m.op.id]
  BY TableHolds
<1>5. i \in Index /\ i # <<"table", w>>
  <2>1. <<"net", 0>> \in Index /\ <<"agenda", w>> \in Index
    BY IndexCases
  <2>2. <<"net", 0>> # <<"table", w>> /\ <<"agenda", w>> # <<"table", w>>
    OBVIOUS
  <2> QED BY <2>1, <2>2
<1> QED BY <1>3, <1>4, <1>5, OneHolder DEF LinInv

(* What an operand brings to a list of operands.                           *)
LEMMA OperandTokens ==
    ASSUME NEW m, m.kind = "operand"
    PROVE  MsgTokens(m) = Tagged("src", OperandSlots(m))
  BY DEF MsgTokens

(* A deferred list holds what its operator is to get.                      *)
LEMMA DeferredTokens ==
    ASSUME LinInv, NEW w \in Worker, NEW id
    PROVE  LET ls == Deferred(w, id)
           IN  /\ Held(ListF(ls)) =
                      Tagged("src", {Destination(w, id, o) :
                                         o \in UNION {DOMAIN ls[n].data : n \in DOMAIN ls}})
               /\ Held(ListF(ls)) \subseteq Held(Part)
               /\ id \in DOMAIN deferred_operand_table[w] =>
                      Family[<<"deferred", w>>][id] = Held(ListF(ls))
<1> DEFINE ls == Deferred(w, id)
           D == {Destination(w, id, o) : o \in UNION {DOMAIN ls[n].data : n \in DOMAIN ls}}
<1>1. ASSUME NEW n \in DOMAIN ls PROVE ls[n].kind = "operand" /\ ls[n].to = w /\ ls[n].id = id
  <2>1. id \in DOMAIN deferred_operand_table[w] /\ ls = deferred_operand_table[w][id]
    BY DEF Deferred
  <2> HIDE DEF ls
  <2> QED BY <2>1 DEF LinInv, Kept, KeptAt
<1>2. \A n \in DOMAIN ls : MsgTokens(ls[n]) = Tagged("src", OperandSlots(ls[n]))
  BY <1>1, OperandTokens
<1>3. \A n \in DOMAIN ls : OperandSlots(ls[n]) = {Destination(w, id, o) : o \in DOMAIN ls[n].data}
  BY <1>1 DEF OperandSlots
<1>4. \A x : x \in D <=> \E n \in DOMAIN ls : x \in OperandSlots(ls[n])
  BY <1>3
<1> HIDE DEF D
<1>5. ASSUME NEW x PROVE x \in Held(ListF(ls)) <=> x \in Tagged("src", D)
  <2>1. x \in Held(ListF(ls)) <=> \E n \in DOMAIN ls : x \in MsgTokens(ls[n])
    BY InLists
  <2>2. \A n \in DOMAIN ls : x \in MsgTokens(ls[n]) <=> \E d \in OperandSlots(ls[n]) : x = <<"src", d>>
    BY <1>2, Tags
  <2>3. x \in Tagged("src", D) <=> \E d \in D : x = <<"src", d>>
    BY Tags
  <2> QED BY <1>4, <2>1, <2>2, <2>3
<1>6. Held(ListF(ls)) = Tagged("src", D)
  BY <1>5
<1>7. ASSUME id \in DOMAIN deferred_operand_table[w]
      PROVE  /\ Family[<<"deferred", w>>][id] = Held(ListF(ls))
             /\ Held(ListF(ls)) \subseteq Held(Part)
  <2>1. /\ <<"deferred", w>> \in Index
        /\ Family[<<"deferred", w>>] = DeferredF(deferred_operand_table[w])
    BY IndexCases, FamilyIs
  <2>2. /\ id \in DOMAIN Family[<<"deferred", w>>]
        /\ Family[<<"deferred", w>>][id] = Held(ListF(ls))
    BY <1>7, <2>1 DEF DeferredF, Deferred
  <2> HIDE DEF ls
  <2> QED BY <2>1, <2>2, Holding
<1>8. ASSUME id \notin DOMAIN deferred_operand_table[w] PROVE Held(ListF(ls)) = {}
  <2>1. ls = <<>>
    BY <1>8 DEF Deferred
  <2> QED BY <2>1, ListOne
<1> QED BY <1>6, <1>7, <1>8 DEF D

(* An operand completes an operator of the table, an operation makes one   *)
(* of the operands that are there: slots in D are filled.                  *)
Completes(w, m, op, D) ==
    /\ m.kind = "operand" /\ m.id \in DOMAIN operator_table[w] /\ op.id = m.id
    /\ ~op_check_full(operator_table[w][m.id])
    /\ Tagged("snk", D) \subseteq OpTokens(w, operator_table[w][m.id])
    /\ OpTokens(w, op) = OpTokens(w, operator_table[w][m.id]) \ Tagged("snk", D)
    /\ MsgTokens(m) = Tagged("src", D)

Makes(w, m, op, D) ==
    /\ m.kind = "operation" /\ op.id = m.op.id
    /\ op.id \notin DOMAIN operator_table[w]
    /\ Tagged("snk", D) \subseteq MsgTokens(m)
    /\ OpTokens(w, op) = MsgTokens(m) \ Tagged("snk", D)
    /\ Held(ListF(Deferred(w, op.id))) = Tagged("src", D)

(* The tokens of an operator before and after it gets its operands.        *)
LEMMA AcceptedTokens ==
    ASSUME LinInv, NEW C, RuntimeIn(C), NEW w \in Worker, NEW m \in Arrival(w), Matched(w, m)
    PROVE  \E D : \/ Completes(w, m, Accepted(w, m), D)
                  \/ Makes(w, m, Accepted(w, m), D)
<1> DEFINE op == Accepted(w, m)
<1>0. m.to = w /\ Says(m) /\ (MessageIn(C, m) \/ m.kind = "retire")
  BY ArrivalIn, Arriving
<1>1. PICK i \in {<<"net", 0>>, <<"agenda", w>>} :
          \E a \in DOMAIN Family[i] : Family[i][a] = MsgTokens(m)
  BY Arriving
<1>2. PICK a \in DOMAIN Family[i] : Family[i][a] = MsgTokens(m)
  BY <1>1
<1>3. i \in Index
  BY IndexCases
<1>4. CASE m.kind = "operand"
  <2>1. /\ m.id \in DOMAIN operator_table[w]
        /\ op = op_insert_operand(operator_table[w][m.id], m)
    BY <1>4 DEF Accepted, Matched
  <2> DEFINE old == operator_table[w][m.id]
             D == {Destination(w, old.id, o) : o \in DOMAIN m.data}
  <2>2. /\ old.id = m.id
        /\ old = [code |-> old.code, id |-> old.id, dest |-> old.dest, arg |-> old.arg,
                  data |-> old.data]
    BY <2>1 DEF RuntimeIn, OperatorIn
  <2>3. MsgTokens(m) = Tagged("src", D)
    <3>1. OperandSlots(m) = D
      BY <1>0, <2>2 DEF OperandSlots
    <3> QED BY <1>4, <3>1, OperandTokens
  <2>4. /\ <<"table", w>> \in Index /\ m.id \in DOMAIN Family[<<"table", w>>]
        /\ Family[<<"table", w>>][m.id] = QueuedTokens(w, old)
        /\ <<"id", m.id>> \in Family[<<"table", w>>][m.id]
    BY <2>1, TableHolds
  <2> HIDE DEF old
  <2>5. ASSUME NEW o \in DOMAIN m.data
        PROVE  <<"snk", Destination(w, old.id, o)>> \in QueuedTokens(w, old)
    <3> DEFINE d == Destination(w, old.id, o)
    <3>1. d \in D /\ d.id = m.id
      BY <2>2 DEF Destination
    <3> HIDE DEF d, D
    <3>2. <<"src", d>> \in Held(Part)
      <4>1. <<"src", d>> \in MsgTokens(m)
        BY <2>3, <3>1, Tags
      <4> QED BY <1>2, <1>3, <4>1, Holding
    <3>3. <<"snk", d>> \in Family[<<"table", w>>][m.id]
      BY <2>4, <3>1, <3>2, SinkAt
    <3> QED BY <2>4, <3>3 DEF d
  <2>6. ~op_check_full(old)
    <3>1. PICK o \in DOMAIN m.data : TRUE
      BY <1>0, <1>4 DEF Says
    <3>2. <<"snk", Destination(w, old.id, o)>> \in QueuedTokens(w, old)
      BY <2>5
    <3> QED BY <3>2, QueuedHas
  <2>7. ASSUME NEW o \in DOMAIN m.data PROVE Destination(w, old.id, o) \in Sinks(w, old)
    <3>1. <<"snk", Destination(w, old.id, o)>> \in OpTokens(w, old)
      BY <2>5, <2>6, QueuedHas
    <3> QED BY <3>1, OpHas
  <2>8. /\ op = [old EXCEPT !.data = Fill(@, m.data)]
    BY <2>1 DEF op_insert_operand, old
  <2> HIDE DEF op
  <2>9. /\ op.id = old.id /\ D \subseteq Sinks(w, old)
        /\ OpTokens(w, op) = OpTokens(w, old) \ Tagged("snk", D)
    BY <2>2, <2>7, <2>8, FillTokens
  <2> HIDE DEF D
  <2>10. Tagged("snk", D) \subseteq OpTokens(w, old)
    BY <2>9, Tags, OpHas
  <2> QED BY <1>4, <2>1, <2>2, <2>3, <2>6, <2>9, <2>10 DEF old, op, Completes
<1>5. CASE m.kind = "operation"
  <2> DEFINE old == m.op
             ls == Deferred(w, old.id)
             D == {Destination(w, old.id, o) : o \in UNION {DOMAIN ls[n].data : n \in DOMAIN ls}}
  <2>1. old.id \notin DOMAIN operator_table[w] /\ op = InsertAll(old, ls)
    BY <1>5 DEF Accepted, Matched
  <2>2. old = [code |-> old.code, id |-> old.id, dest |-> old.dest, arg |-> old.arg,
               data |-> old.data]
    BY <1>0, <1>5 DEF MessageIn, OperatorIn
  <2>3. MsgTokens(m) = OpTokens(w, old)
    BY <1>0, <1>5 DEF MsgTokens
  <2>4. Held(ListF(ls)) = Tagged("src", D) /\ Held(ListF(ls)) \subseteq Held(Part)
    <3> HIDE DEF old
    <3> QED BY DeferredTokens
  <2>5. <<"id", old.id>> \in Family[i][a]
    BY <1>2, <2>3, OpHas
  <2>6. PICK data : /\ DOMAIN data = UNION {DOMAIN ls[n].data : n \in DOMAIN ls}
                    /\ op = [old EXCEPT !.data = Fill(@, data)]
    BY <2>1 DEF InsertAll
  <2> HIDE DEF ls, old, op
  <2>7. ASSUME NEW o \in DOMAIN data PROVE Destination(w, old.id, o) \in Sinks(w, old)
    <3> DEFINE d == Destination(w, old.id, o)
    <3>1. d \in D /\ d.id = old.id
      BY <2>6 DEF Destination
    <3> HIDE DEF d, D
    <3>2. <<"src", d>> \in Held(Part)
      BY <2>4, <3>1, Tags
    <3>3. <<"snk", d>> \in Family[i][a]
      BY <1>3, <2>5, <3>1, <3>2, SinkAt
    <3> QED BY <1>2, <2>3, <3>3, OpHas DEF d
  <2>8. D = {Destination(w, old.id, o) : o \in DOMAIN data}
    BY <2>6
  <2> HIDE DEF D
  <2>9. /\ op.id = old.id /\ D \subseteq Sinks(w, old)
        /\ OpTokens(w, op) = OpTokens(w, old) \ Tagged("snk", D)
    <3>1. op = [old EXCEPT !.data = Fill(@, data)]
      BY <2>6
    <3> QED BY <2>2, <2>7, <2>8, <3>1, FillTokens
  <2>10. Tagged("snk", D) \subseteq OpTokens(w, old)
    BY <2>9, Tags, OpHas
  <2> QED BY <1>5, <2>1, <2>3, <2>4, <2>9, <2>10 DEF op, old, ls, Makes
<1>6. CASE m.kind \notin {"operation", "operand"}
  BY <1>6 DEF Matched
<1> QED BY <1>4, <1>5, <1>6

-----------------------------------------------------------------------------
(* Tokens that a part of the state drops and gets in a step.               *)
Moves(i, R, N) == /\ Apart(Family'[i]) /\ R \subseteq Part[i]
                  /\ Part'[i] = (Part[i] \ R) \union N

(* Nothing but worker w and the network changes.                           *)
Elsewhere(w) == /\ wait' = wait
                /\ \A v \in Worker \ {w} : /\ agenda'[v] = agenda[v]
                                           /\ operator_table'[v] = operator_table[v]
                                           /\ deferred_operand_table'[v] = deferred_operand_table[v]
                                           /\ deferred_ite_table'[v] = deferred_ite_table[v]

(* What is moved comes in pairs, and what is added is nowhere else.        *)
Fair(R, N) == /\ N \intersect (Held(Part) \ R) = {}
              /\ Paired(R \ N) /\ Paired(N \ R)

(* A fair exchange, part by part, keeps every token held once and paired.  *)
LEMMA TokensMove ==
    ASSUME LinInv, NEW R, NEW N, DOMAIN R = Index, DOMAIN N = Index,
           \A i \in Index : Moves(i, R[i], N[i]), Apart(N), Fair(Held(R), Held(N)),
           \A w \in Worker : ListsApart(w)'
    PROVE  Tokens'
<1>1. /\ DOMAIN Part = Index /\ DOMAIN Part' = Index /\ Apart(Part) /\ Paired(Held(Part))
  BY FamilyIs, FamilyThen DEF LinInv, Tokens
<1>2. /\ \A i \in Index : R[i] \subseteq Part[i] /\ Part'[i] = (Part[i] \ R[i]) \union N[i]
      /\ \A i \in Index : Apart(Family'[i])
  BY DEF Moves
<1>3. /\ Held(N) \intersect (Held(Part) \ Held(R)) = {}
      /\ Paired(Held(R) \ Held(N)) /\ Paired(Held(N) \ Held(R))
  BY DEF Fair
<1>4. Held(R) \subseteq Held(Part)
  BY <1>1, <1>2 DEF Held
<1> DEFINE P == Part   Q == Part'
<1>5. Apart(Q) /\ Held(Q) = (Held(P) \ Held(R)) \union Held(N)
  <2>1. /\ Apart(P) /\ DOMAIN Q = DOMAIN P /\ DOMAIN N = DOMAIN P /\ DOMAIN R = DOMAIN P
        /\ \A i \in DOMAIN P : R[i] \subseteq P[i] /\ Q[i] = (P[i] \ R[i]) \union N[i]
        /\ Held(N) \intersect (Held(P) \ Held(R)) = {}
    BY <1>1, <1>2, <1>3
  <2> HIDE DEF P, Q
  <2> QED BY <2>1, Exchange
<1>6. Paired(Held(Q))
  <2> DEFINE S == Held(P)   A == Held(R)   B == Held(N)
  <2>1. Paired(S) /\ A \subseteq S /\ B \intersect (S \ A) = {} /\ Paired(A \ B) /\ Paired(B \ A)
    BY <1>1, <1>3, <1>4
  <2>2. Held(Q) = (S \ A) \union B
    BY <1>5
  <2> HIDE DEF S, A, B, P, Q
  <2>3. Paired((S \ A) \union B)
    BY <2>1, PairsStay
  <2> QED BY <2>2, <2>3
<1> QED BY <1>2, <1>5, <1>6 DEF Tokens

-----------------------------------------------------------------------------
(* A step of a worker: what it drops and gets in each of its tables.       *)
Spread(w, n, a, t, d, j) ==
    [i \in Index |-> CASE i = <<"net", 0>>      -> n
                       [] i = <<"agenda", w>>   -> a
                       [] i = <<"table", w>>    -> t
                       [] i = <<"deferred", w>> -> d
                       [] i = <<"join", w>>     -> j
                       [] OTHER                 -> {}]

(* What a step of one worker exchanges in each part, ...                   *)
LEMMA SpreadIs ==
    ASSUME NEW w \in Worker, NEW n, NEW a, NEW t, NEW d, NEW j
    PROVE  LET S == Spread(w, n, a, t, d, j) IN
           /\ DOMAIN S = Index
           /\ S[<<"net", 0>>] = n /\ S[<<"agenda", w>>] = a /\ S[<<"table", w>>] = t
           /\ S[<<"deferred", w>>] = d /\ S[<<"join", w>>] = j
           /\ \A i \in Index : \/ i \in {<<"net", 0>>, <<"agenda", w>>, <<"table", w>>,
                                        <<"deferred", w>>, <<"join", w>>}
                               \/ S[i] = {}
           /\ Held(S) = n \union a \union t \union d \union j
<1> DEFINE S == Spread(w, n, a, t, d, j)
           five == {<<"net", 0>>, <<"agenda", w>>, <<"table", w>>, <<"deferred", w>>, <<"join", w>>}
<1>0. DOMAIN S = Index /\ five \subseteq Index
  BY IndexCases DEF Spread
<1>1. S[<<"net", 0>>] = n
  BY <1>0 DEF Spread
<1>2. S[<<"agenda", w>>] = a
  BY <1>0 DEF Spread
<1>3. S[<<"table", w>>] = t
  BY <1>0 DEF Spread
<1>4. S[<<"deferred", w>>] = d
  BY <1>0 DEF Spread
<1>5. S[<<"join", w>>] = j
  BY <1>0 DEF Spread
<1>6. ASSUME NEW i \in Index, i \notin five PROVE S[i] = {}
  BY <1>6 DEF Spread
<1>7. Held(S) = n \union a \union t \union d \union j
  <2> HIDE DEF S
  <2>1. \A i \in five : S[i] \subseteq n \union a \union t \union d \union j
    BY <1>1, <1>2, <1>3, <1>4, <1>5
  <2>2. \A i \in Index : S[i] \subseteq n \union a \union t \union d \union j
    BY <1>6, <2>1
  <2>3. \A i \in five : S[i] \subseteq Held(S)
    BY <1>0 DEF Held
  <2>4. Held(S) \subseteq n \union a \union t \union d \union j
    BY <1>0, <2>2 DEF Held
  <2>5. n \subseteq Held(S) /\ a \subseteq Held(S) /\ t \subseteq Held(S) /\ d \subseteq Held(S)
        /\ j \subseteq Held(S)
    BY <1>1, <1>2, <1>3, <1>4, <1>5, <2>3
  <2> QED BY <2>4, <2>5
<1> HIDE DEF S
<1>8. \A i \in Index : i \in five \/ S[i] = {}
  BY <1>6
<1> QED BY <1>0, <1>1, <1>2, <1>3, <1>4, <1>5, <1>7, <1>8 DEF S

(* Five sets that share nothing.                                           *)
Disjoint(n, a, t, d, j) ==
    /\ n \intersect a = {} /\ n \intersect t = {} /\ n \intersect d = {} /\ n \intersect j = {}
    /\ a \intersect t = {} /\ a \intersect d = {} /\ a \intersect j = {}
    /\ t \intersect d = {} /\ t \intersect j = {} /\ d \intersect j = {}

(* ... and that the parts get nothing twice.                               *)
LEMMA SpreadApart ==
    ASSUME NEW w \in Worker, NEW n, NEW a, NEW t, NEW d, NEW j, Disjoint(n, a, t, d, j)
    PROVE  Apart(Spread(w, n, a, t, d, j))
<1> DEFINE S == Spread(w, n, a, t, d, j)
           five == {<<"net", 0>>, <<"agenda", w>>, <<"table", w>>, <<"deferred", w>>, <<"join", w>>}
<1>1. /\ DOMAIN S = Index
      /\ S[<<"net", 0>>] = n /\ S[<<"agenda", w>>] = a /\ S[<<"table", w>>] = t
      /\ S[<<"deferred", w>>] = d /\ S[<<"join", w>>] = j
      /\ \A i \in Index : i \in five \/ S[i] = {}
  BY SpreadIs
<1> HIDE DEF S
<1>2. ASSUME NEW i \in five, NEW k \in five, i # k PROVE S[i] \intersect S[k] = {}
  BY <1>1, <1>2 DEF Disjoint
<1> HIDE DEF five
<1>3. Apart(S)
  BY <1>1, <1>2 DEF Apart
<1> QED BY <1>3 DEF S

(* What the rest of the state is in such a step.                           *)
LEMMA Unmoved ==
    ASSUME LinInv, NEW w \in Worker, Elsewhere(w), NEW i \in Index,
           i \notin {<<"net", 0>>, <<"agenda", w>>, <<"table", w>>, <<"deferred", w>>, <<"join", w>>}
    PROVE  Moves(i, {}, {})
<1>1. Family'[i] = Family[i]
  <2>1. CASE i = <<"wait", 0>>
    BY <2>1, FamilyIs, FamilyThen DEF Elsewhere
  <2>2. ASSUME NEW v \in Worker, v # w, i \in {<<"agenda", v>>, <<"table", v>>, <<"deferred", v>>, <<"join", v>>}
        PROVE  Family'[i] = Family[i]
    <3>1. /\ agenda'[v] = agenda[v] /\ operator_table'[v] = operator_table[v]
          /\ deferred_operand_table'[v] = deferred_operand_table[v]
          /\ deferred_ite_table'[v] = deferred_ite_table[v]
      BY <2>2 DEF Elsewhere
    <3>2. Family'[<<"agenda", v>>] = Family[<<"agenda", v>>]
      BY <3>1, FamilyIs, FamilyThen
    <3>3. Family'[<<"table", v>>] = Family[<<"table", v>>]
      BY <3>1, FamilyIs, FamilyThen
    <3>4. Family'[<<"deferred", v>>] = Family[<<"deferred", v>>]
      BY <3>1, FamilyIs, FamilyThen
    <3>5. Family'[<<"join", v>>] = Family[<<"join", v>>]
      BY <3>1, FamilyIs, FamilyThen
    <3> QED BY <2>2, <3>2, <3>3, <3>4, <3>5
  <2> QED BY <2>1, <2>2, IndexCases
<1>2. Part'[i] = Part[i] /\ Apart(Family'[i])
  BY <1>1, FamilyIs, FamilyThen DEF LinInv, Tokens
<1> QED BY <1>2 DEF Moves

(* An exchange within one worker and the network keeps the tokens.         *)
LEMMA WorkerTokens ==
    ASSUME LinInv, NEW w \in Worker, Elsewhere(w), ListsApart(w)',
           NEW Rn, NEW Ra, NEW Rt, NEW Rd, NEW Rj, NEW Nn, NEW Na, NEW Nt, NEW Nd, NEW Nj,
           Moves(<<"net", 0>>, Rn, Nn), Moves(<<"agenda", w>>, Ra, Na),
           Moves(<<"table", w>>, Rt, Nt), Moves(<<"deferred", w>>, Rd, Nd),
           Moves(<<"join", w>>, Rj, Nj), Disjoint(Nn, Na, Nt, Nd, Nj),
           Fair(Rn \union Ra \union Rt \union Rd \union Rj, Nn \union Na \union Nt \union Nd \union Nj)
    PROVE  Tokens'
<1> DEFINE R == Spread(w, Rn, Ra, Rt, Rd, Rj)   N == Spread(w, Nn, Na, Nt, Nd, Nj)
           five == {<<"net", 0>>, <<"agenda", w>>, <<"table", w>>, <<"deferred", w>>, <<"join", w>>}
<1>1. /\ DOMAIN R = Index
      /\ R[<<"net", 0>>] = Rn /\ R[<<"agenda", w>>] = Ra /\ R[<<"table", w>>] = Rt
      /\ R[<<"deferred", w>>] = Rd /\ R[<<"join", w>>] = Rj
      /\ \A i \in Index : i \in five \/ R[i] = {}
      /\ Held(R) = Rn \union Ra \union Rt \union Rd \union Rj
  BY SpreadIs
<1>2. /\ DOMAIN N = Index
      /\ N[<<"net", 0>>] = Nn /\ N[<<"agenda", w>>] = Na /\ N[<<"table", w>>] = Nt
      /\ N[<<"deferred", w>>] = Nd /\ N[<<"join", w>>] = Nj
      /\ \A i \in Index : i \in five \/ N[i] = {}
      /\ Held(N) = Nn \union Na \union Nt \union Nd \union Nj
  BY SpreadIs
<1>3. Apart(N)
  BY SpreadApart
<1> HIDE DEF R, N
<1>4. ASSUME NEW i \in Index PROVE Moves(i, R[i], N[i])
  <2>1. CASE i \notin five
    <3>1. R[i] = {} /\ N[i] = {} /\ Moves(i, {}, {})
      BY <1>1, <1>2, <2>1, Unmoved
    <3> QED BY <3>1
  <2>2. CASE i = <<"net", 0>>
    BY <1>1, <1>2, <2>2
  <2>3. CASE i = <<"agenda", w>>
    BY <1>1, <1>2, <2>3
  <2>4. CASE i = <<"table", w>>
    BY <1>1, <1>2, <2>4
  <2>5. CASE i = <<"deferred", w>>
    BY <1>1, <1>2, <2>5
  <2>6. CASE i = <<"join", w>>
    BY <1>1, <1>2, <2>6
  <2> QED BY <2>1, <2>2, <2>3, <2>4, <2>5, <2>6
<1>5. Fair(Held(R), Held(N))
  BY <1>1, <1>2
<1>6. ASSUME NEW v \in Worker PROVE ListsApart(v)'
  <2>1. CASE v = w
    BY <2>1
  <2>2. CASE v # w
    BY <2>2 DEF Elsewhere, LinInv, Tokens, ListsApart
  <2> QED BY <2>1, <2>2
<1> QED BY <1>1, <1>2, <1>3, <1>4, <1>5, <1>6, TokensMove

-----------------------------------------------------------------------------
(* What a change of one entry moves.                                       *)
LEMMA PartOf ==
    ASSUME LinInv, NEW i \in Index
    PROVE  Apart(Family[i]) /\ Part[i] = Held(Family[i]) /\ Part[i] \subseteq Held(Part)
<1>1. Apart(Family[i])
  BY DEF LinInv, Tokens
<1>2. Part[i] = Held(Family[i]) /\ DOMAIN Part = Index
  BY FamilyIs
<1>3. Part[i] \subseteq Held(Part)
  BY <1>2 DEF Held
<1> QED BY <1>1, <1>2, <1>3

(* A part that a step leaves alone exchanges nothing.                      *)
LEMMA NotMoved ==
    ASSUME LinInv, NEW i \in Index, Family'[i] = Family[i]
    PROVE  Moves(i, {}, {})
<1>1. Part'[i] = Held(Family'[i])
  BY FamilyThen
<1>2. Part'[i] = Part[i] /\ Apart(Family'[i])
  BY <1>1, PartOf
<1> QED BY <1>2 DEF Moves

(* A table with an entry more, or another one, exchanges the entry's tokens. *)
LEMMA EntryMoves ==
    ASSUME LinInv, NEW i \in Index, NEW k, NEW t, NEW R,
           R = IF k \in DOMAIN Family[i] THEN Family[i][k] ELSE {},
           DOMAIN Family'[i] = DOMAIN Family[i] \union {k}, Family'[i][k] = t,
           \A x \in DOMAIN Family[i] \ {k} : Family'[i][x] = Family[i][x],
           t \intersect (Part[i] \ R) = {}
    PROVE  Moves(i, R, t)
<1> DEFINE fn == Family[i]   gn == Family'[i]
<1>1. Apart(fn) /\ Part[i] = Held(fn) /\ Part'[i] = Held(gn)
  BY PartOf, FamilyThen
<1>2. /\ R = IF k \in DOMAIN fn THEN fn[k] ELSE {}
      /\ DOMAIN gn = DOMAIN fn \union {k} /\ gn[k] = t
      /\ \A x \in DOMAIN fn \ {k} : gn[x] = fn[x]
  OBVIOUS
<1> HIDE DEF fn, gn
<1>3. R \subseteq Held(fn)
  BY <1>2 DEF Held
<1>4. ASSUME NEW x \in DOMAIN fn \ {k} PROVE fn[x] \intersect t = {}
  <2>1. fn[x] \subseteq Held(fn)
    BY DEF Held
  <2>2. fn[x] \intersect R = {}
    BY <1>1, <1>2 DEF Apart
  <2> QED BY <1>1, <2>1, <2>2
<1>5. \A x \in DOMAIN fn \ {k} : gn[x] = fn[x] /\ fn[x] \intersect t = {}
  BY <1>2, <1>4
<1>6. Apart(gn) /\ Held(gn) = (Held(fn) \ (IF k \in DOMAIN fn THEN fn[k] ELSE {})) \union t
  BY <1>1, <1>2, <1>5, HeldInsert
<1>7. Apart(gn) /\ R \subseteq Part[i] /\ Part'[i] = (Part[i] \ R) \union t
  BY <1>1, <1>2, <1>3, <1>6
<1> QED BY <1>7 DEF Moves, gn

(* A table with an entry less gives up the entry's tokens.                 *)
LEMMA EntryGoes ==
    ASSUME LinInv, NEW i \in Index, NEW k, NEW R,
           R = IF k \in DOMAIN Family[i] THEN Family[i][k] ELSE {},
           DOMAIN Family'[i] = DOMAIN Family[i] \ {k},
           \A x \in DOMAIN Family'[i] : Family'[i][x] = Family[i][x]
    PROVE  Moves(i, R, {})
<1> DEFINE fn == Family[i]   gn == Family'[i]
<1>1. Apart(fn) /\ Part[i] = Held(fn) /\ Part'[i] = Held(gn)
  BY PartOf, FamilyThen
<1>2. /\ R = IF k \in DOMAIN fn THEN fn[k] ELSE {}
      /\ DOMAIN gn = DOMAIN fn \ {k}
      /\ \A x \in DOMAIN gn : gn[x] = fn[x]
  OBVIOUS
<1> HIDE DEF fn, gn
<1>3. R \subseteq Held(fn)
  BY <1>2 DEF Held
<1>4. Apart(gn) /\ Held(gn) = Held(fn) \ (IF k \in DOMAIN fn THEN fn[k] ELSE {})
  BY <1>1, <1>2, HeldRemove
<1>5. Apart(gn) /\ R \subseteq Part[i] /\ Part'[i] = (Part[i] \ R) \union {}
  BY <1>1, <1>2, <1>3, <1>4
<1> QED BY <1>5 DEF Moves, gn

(* The tables of the runtime.                                              *)
LEMMA TableInsert ==
    ASSUME LinInv, NEW w \in Worker, NEW id, NEW op, NEW R,
           operator_table'[w] = keyvalue_insert(operator_table[w], id, op),
           R = IF id \in DOMAIN operator_table[w] THEN QueuedTokens(w, operator_table[w][id]) ELSE {},
           QueuedTokens(w, op) \intersect (Part[<<"table", w>>] \ R) = {}
    PROVE  Moves(<<"table", w>>, R, QueuedTokens(w, op))
<1> DEFINE i == <<"table", w>>
<1>1. i \in Index /\ Family[i] = TableF(w, operator_table[w]) /\ Family'[i] = TableF(w, operator_table'[w])
  BY IndexCases, FamilyIs, FamilyThen
<1>2. /\ DOMAIN Family[i] = DOMAIN operator_table[w]
      /\ \A x \in DOMAIN operator_table[w] : Family[i][x] = QueuedTokens(w, operator_table[w][x])
      /\ DOMAIN Family'[i] = DOMAIN operator_table'[w]
      /\ \A x \in DOMAIN operator_table'[w] : Family'[i][x] = QueuedTokens(w, operator_table'[w][x])
  BY <1>1 DEF TableF
<1>3. /\ DOMAIN operator_table'[w] = DOMAIN operator_table[w] \union {id}
      /\ operator_table'[w][id] = op
      /\ \A x \in DOMAIN operator_table[w] \ {id} : operator_table'[w][x] = operator_table[w][x]
  BY DEF keyvalue_insert
<1> HIDE DEF i
<1>4. QueuedTokens(w, op) \intersect (Part[i] \ R) = {}
  BY DEF i
<1>5. Moves(i, R, QueuedTokens(w, op))
  BY <1>1, <1>2, <1>3, <1>4, EntryMoves
<1> QED BY <1>5 DEF i

(* An operator table with an operator less.                                *)
LEMMA TableRemove ==
    ASSUME LinInv, NEW w \in Worker, NEW id, NEW R,
           operator_table'[w] = Restrict(operator_table[w], DOMAIN operator_table[w] \ {id}),
           R = IF id \in DOMAIN operator_table[w] THEN QueuedTokens(w, operator_table[w][id]) ELSE {}
    PROVE  Moves(<<"table", w>>, R, {})
<1> DEFINE i == <<"table", w>>
<1>1. i \in Index /\ Family[i] = TableF(w, operator_table[w]) /\ Family'[i] = TableF(w, operator_table'[w])
  BY IndexCases, FamilyIs, FamilyThen
<1>2. /\ DOMAIN Family[i] = DOMAIN operator_table[w]
      /\ \A x \in DOMAIN operator_table[w] : Family[i][x] = QueuedTokens(w, operator_table[w][x])
      /\ DOMAIN Family'[i] = DOMAIN operator_table'[w]
      /\ \A x \in DOMAIN operator_table'[w] : Family'[i][x] = QueuedTokens(w, operator_table'[w][x])
  BY <1>1 DEF TableF
<1>3. /\ DOMAIN operator_table'[w] = DOMAIN operator_table[w] \ {id}
      /\ \A x \in DOMAIN operator_table'[w] : operator_table'[w][x] = operator_table[w][x]
  BY DEF Restrict
<1> HIDE DEF i
<1>5. Moves(i, R, {})
  BY <1>1, <1>2, <1>3, EntryGoes
<1> QED BY <1>5 DEF i

(* What a deferred list holds, if there is one.                            *)
LEMMA DeferredOld ==
    ASSUME NEW w \in Worker, NEW id
    PROVE  LET i == <<"deferred", w>> IN
           Held(ListF(Deferred(w, id))) = IF id \in DOMAIN Family[i] THEN Family[i][id] ELSE {}
<1>1. Family[<<"deferred", w>>] = DeferredF(deferred_operand_table[w])
  BY FamilyIs
<1>2. CASE id \in DOMAIN deferred_operand_table[w]
  BY <1>1, <1>2 DEF DeferredF, Deferred
<1>3. CASE id \notin DOMAIN deferred_operand_table[w]
  <2>1. Deferred(w, id) = <<>> /\ id \notin DOMAIN Family[<<"deferred", w>>]
    BY <1>1, <1>3 DEF Deferred, DeferredF
  <2> QED BY <2>1, ListOne
<1> QED BY <1>2, <1>3

(* A deferred list is replaced.                                            *)
LEMMA DeferredMoves ==
    ASSUME LinInv, NEW w \in Worker, NEW id, NEW new,
           deferred_operand_table'[w] = keyvalue_insert(deferred_operand_table[w], id, new),
           Held(ListF(new)) \intersect
               (Part[<<"deferred", w>>] \ Held(ListF(Deferred(w, id)))) = {}
    PROVE  Moves(<<"deferred", w>>, Held(ListF(Deferred(w, id))), Held(ListF(new)))
<1> DEFINE i == <<"deferred", w>>   R == Held(ListF(Deferred(w, id)))   t == Held(ListF(new))
<1>1. i \in Index /\ Family[i] = DeferredF(deferred_operand_table[w])
      /\ Family'[i] = DeferredF(deferred_operand_table'[w])
  BY IndexCases, FamilyIs, FamilyThen
<1>2. /\ DOMAIN Family[i] = DOMAIN deferred_operand_table[w]
      /\ \A x \in DOMAIN deferred_operand_table[w] :
             Family[i][x] = Held(ListF(deferred_operand_table[w][x]))
      /\ DOMAIN Family'[i] = DOMAIN deferred_operand_table'[w]
      /\ \A x \in DOMAIN deferred_operand_table'[w] :
             Family'[i][x] = Held(ListF(deferred_operand_table'[w][x]))
  BY <1>1 DEF DeferredF
<1>3. /\ DOMAIN deferred_operand_table'[w] = DOMAIN deferred_operand_table[w] \union {id}
      /\ deferred_operand_table'[w][id] = new
      /\ \A x \in DOMAIN deferred_operand_table[w] \ {id} :
             deferred_operand_table'[w][x] = deferred_operand_table[w][x]
  BY DEF keyvalue_insert
<1>4. R = IF id \in DOMAIN Family[i] THEN Family[i][id] ELSE {}
  BY DeferredOld
<1>5. t \intersect (Part[i] \ R) = {}
  OBVIOUS
<1>6. Family'[i][id] = t
  BY <1>2, <1>3
<1> HIDE DEF i, R, t
<1>7. Moves(i, R, t)
  BY <1>1, <1>2, <1>3, <1>4, <1>5, <1>6, EntryMoves
<1> QED BY <1>7 DEF i, R, t

(* A deferred list is removed.                                             *)
LEMMA DeferredGoes ==
    ASSUME LinInv, NEW w \in Worker, NEW id,
           deferred_operand_table'[w] =
               Restrict(deferred_operand_table[w], DOMAIN deferred_operand_table[w] \ {id})
    PROVE  Moves(<<"deferred", w>>, Held(ListF(Deferred(w, id))), {})
<1> DEFINE i == <<"deferred", w>>   R == Held(ListF(Deferred(w, id)))
<1>1. i \in Index /\ Family[i] = DeferredF(deferred_operand_table[w])
      /\ Family'[i] = DeferredF(deferred_operand_table'[w])
  BY IndexCases, FamilyIs, FamilyThen
<1>2. /\ DOMAIN Family[i] = DOMAIN deferred_operand_table[w]
      /\ \A x \in DOMAIN deferred_operand_table[w] :
             Family[i][x] = Held(ListF(deferred_operand_table[w][x]))
      /\ DOMAIN Family'[i] = DOMAIN deferred_operand_table'[w]
      /\ \A x \in DOMAIN deferred_operand_table'[w] :
             Family'[i][x] = Held(ListF(deferred_operand_table'[w][x]))
  BY <1>1 DEF DeferredF
<1>3. /\ DOMAIN deferred_operand_table'[w] = DOMAIN deferred_operand_table[w] \ {id}
      /\ \A x \in DOMAIN deferred_operand_table'[w] :
             deferred_operand_table'[w][x] = deferred_operand_table[w][x]
  BY DEF Restrict
<1>4. R = IF id \in DOMAIN Family[i] THEN Family[i][id] ELSE {}
  BY DeferredOld
<1> HIDE DEF i, R
<1>7. Moves(i, R, {})
  BY <1>1, <1>2, <1>3, <1>4, EntryGoes
<1> QED BY <1>7 DEF i, R

(* The lists: only what is said of one worker is to be shown.              *)
LEMMA ListMoves ==
    ASSUME NEW w \in Worker, NEW R, NEW N, Apart(ListF(agenda'[w])), R \subseteq Part[<<"agenda", w>>],
           Held(ListF(agenda'[w])) = (Part[<<"agenda", w>>] \ R) \union N
    PROVE  Moves(<<"agenda", w>>, R, N)
<1>1. /\ <<"agenda", w>> \in Index /\ Family'[<<"agenda", w>>] = ListF(agenda'[w])
      /\ Part'[<<"agenda", w>>] = Held(ListF(agenda'[w]))
  BY IndexCases, FamilyThen
<1> QED BY <1>1 DEF Moves

(* The network gives up a message and gets others.                         *)
LEMMA NetMoves ==
    ASSUME NEW R, NEW N, Apart(NetF(DOMAIN net')), R \subseteq Part[<<"net", 0>>],
           Held(NetF(DOMAIN net')) = (Part[<<"net", 0>>] \ R) \union N
    PROVE  Moves(<<"net", 0>>, R, N)
<1>1. /\ <<"net", 0>> \in Index /\ Family'[<<"net", 0>>] = NetF(DOMAIN net')
      /\ Part'[<<"net", 0>>] = Held(NetF(DOMAIN net'))
  BY IndexCases, FamilyThen
<1> QED BY <1>1 DEF Moves

(* A step of a worker keeps what belongs to the others.                    *)
LEMMA KeptThen ==
    ASSUME LinInv, NEW w \in Worker, Elsewhere(w), KeptAt(w)',
           \A v \in Worker \ {w} : ite_table'[v] = ite_table[v],
           net' = [m \in DOMAIN net' |-> 1],
           \A m \in DOMAIN net' : m.kind # "retire" /\ Says(m)
    PROVE  Kept'
<1>1. ASSUME NEW v \in Worker PROVE KeptAt(v)'
  <2>1. CASE v = w
    BY <2>1
  <2>2. CASE v # w
    BY <2>2 DEF Elsewhere, LinInv, Kept, KeptAt
  <2> QED BY <2>1, <2>2
<1> QED BY <1>1 DEF Kept

-----------------------------------------------------------------------------
(* A message that says something holds something.                          *)
LEMMA SaysSome ==
    ASSUME NEW m, Says(m) PROVE \E t, d : <<t, d>> \in MsgTokens(m)
<1>1. CASE m.kind = "operation"
  <2>1. <<"id", m.op.id>> \in MsgTokens(m)
    BY <1>1, MsgHas, OpHas
  <2> QED BY <2>1
<1>2. CASE m.kind = "operand"
  <2>1. PICK o \in DOMAIN m.data : TRUE
    BY <1>2 DEF Says
  <2>2. Destination(m.to, m.id, o) \in OperandSlots(m)
    BY DEF OperandSlots
  <2>3. <<"src", Destination(m.to, m.id, o)>> \in MsgTokens(m)
    BY <1>2, <2>2, MsgHas
  <2> QED BY <2>3
<1>3. CASE m.kind \notin {"operation", "operand"}
  <2>1. <<"ret", Destination(m.to, m.id, 0)>> \in MsgTokens(m)
    BY <1>3, MsgHas
  <2> QED BY <2>1
<1> QED BY <1>1, <1>2, <1>3

(* The head of an agenda, and the rest.                                    *)
LEMMA HeadOf ==
    ASSUME LinInv, NEW C, RuntimeIn(C), NEW w \in Worker, agenda[w] # <<>>
    PROVE  /\ 1 \in DOMAIN agenda[w] /\ agenda[w][1] = Head(agenda[w])
           /\ <<"agenda", w>> \in Index /\ 1 \in DOMAIN Family[<<"agenda", w>>]
           /\ Family[<<"agenda", w>>][1] = MsgTokens(Head(agenda[w]))
           /\ Says(Head(agenda[w]))
           /\ Head(agenda[w]).kind = "retire" => Head(agenda[w]).to = w
           /\ MsgTokens(Head(agenda[w])) \subseteq Part[<<"agenda", w>>]
           /\ Apart(ListF(Tail(agenda[w])))
           /\ Held(ListF(Tail(agenda[w]))) = Part[<<"agenda", w>>] \ MsgTokens(Head(agenda[w]))
           /\ \A n \in DOMAIN Tail(agenda[w]) : \E k \in DOMAIN agenda[w] :
                  Tail(agenda[w])[n] = agenda[w][k]
<1>1. IsList(agenda[w])
  BY RightLists
<1>2. /\ <<"agenda", w>> \in Index /\ Family[<<"agenda", w>>] = ListF(agenda[w])
      /\ Part[<<"agenda", w>>] = Held(ListF(agenda[w])) /\ Apart(ListF(agenda[w]))
  BY IndexCases, FamilyIs, PartOf
<1>3. /\ Apart(ListF(Tail(agenda[w]))) /\ agenda[w][1] = Head(agenda[w]) /\ 1 \in DOMAIN agenda[w]
      /\ Held(ListF(Tail(agenda[w]))) = Held(ListF(agenda[w])) \ MsgTokens(Head(agenda[w]))
      /\ MsgTokens(Head(agenda[w])) \subseteq Held(ListF(agenda[w]))
      /\ \A n \in DOMAIN Tail(agenda[w]) : n + 1 \in DOMAIN agenda[w]
                                           /\ Tail(agenda[w])[n] = agenda[w][n + 1]
  BY <1>1, <1>2, ListTail
<1>4. 1 \in DOMAIN ListF(agenda[w]) /\ ListF(agenda[w])[1] = MsgTokens(Head(agenda[w]))
  BY <1>3 DEF ListF
<1>5. /\ Says(agenda[w][1])
      /\ agenda[w][1].kind = "retire" => agenda[w][1].to = w
  BY <1>3 DEF LinInv, Kept, KeptAt
<1> QED BY <1>2, <1>3, <1>4, <1>5

(* What a step that only reads its agenda keeps.                           *)
LEMMA KeptRest ==
    ASSUME LinInv, NEW w \in Worker, UNCHANGED <<deferred_operand_table, tableVars>>,
           \A n \in DOMAIN agenda'[w] : \E k \in DOMAIN agenda[w] : agenda'[w][n] = agenda[w][k]
    PROVE  KeptAt(w)' /\ ListsApart(w)'
<1>1. UNCHANGED <<deferred_operand_table, ite_table, deferred_ite_table>>
  BY DEF tableVars
<1>2. KeptAt(w) /\ ListsApart(w)
  BY DEF LinInv, Kept, Tokens
<1>3. KeptAt(w)'
  BY <1>1, <1>2 DEF KeptAt
<1>4. ListsApart(w)'
  BY <1>1, <1>2 DEF ListsApart
<1> QED BY <1>3, <1>4

(* send_op hands a message to the network that is not there yet.           *)
LEMMA SendLin ==
    ASSUME LinInv, NEW C, RuntimeIn(C), NEW w \in Worker, send_op(w), UNCHANGED tableVars
    PROVE  LinInv'
<1> DEFINE m == Head(agenda[w])
<1>1. /\ agenda[w] # <<>> /\ m.kind # "retire" /\ net' = net (+) SetToBag({m})
      /\ agenda' = [agenda EXCEPT ![w] = Tail(@)]
      /\ UNCHANGED <<operator_table, deferred_operand_table, seq_num, wait>>
  BY DEF send_op
<1>2. /\ <<"agenda", w>> \in Index /\ 1 \in DOMAIN Family[<<"agenda", w>>]
      /\ Family[<<"agenda", w>>][1] = MsgTokens(m) /\ Says(m)
      /\ MsgTokens(m) \subseteq Part[<<"agenda", w>>]
      /\ Apart(ListF(Tail(agenda[w])))
      /\ Held(ListF(Tail(agenda[w]))) = Part[<<"agenda", w>>] \ MsgTokens(m)
      /\ \A n \in DOMAIN Tail(agenda[w]) : \E k \in DOMAIN agenda[w] :
             Tail(agenda[w])[n] = agenda[w][k]
  BY <1>1, HeadOf
<1>3. /\ agenda'[w] = Tail(agenda[w]) /\ \A v \in Worker \ {w} : agenda'[v] = agenda[v]
  BY <1>1 DEF RuntimeIn
<1>4. UNCHANGED <<ite_table, deferred_ite_table>>
  BY DEF tableVars
<1> HIDE DEF m
<1>5. /\ <<"net", 0>> \in Index /\ Family[<<"net", 0>>] = NetF(DOMAIN net)
      /\ Part[<<"net", 0>>] = Held(NetF(DOMAIN net)) /\ Apart(NetF(DOMAIN net))
  BY IndexCases, FamilyIs, PartOf
<1>6. Part[<<"net", 0>>] \intersect Part[<<"agenda", w>>] = {}
  BY <1>2, <1>5, FamilyIs DEF LinInv, Tokens, Apart
<1>7. m \notin DOMAIN net
  <2>1. PICK t, d : <<t, d>> \in MsgTokens(m)
    BY <1>2, SaysSome
  <2>2. m \in DOMAIN net => <<t, d>> \in Part[<<"net", 0>>]
    BY <1>5, <2>1 DEF NetF, Held
  <2> QED BY <1>2, <1>6, <2>1, <2>2
<1>8. net' = [x \in DOMAIN net \union {m} |-> 1]
  BY <1>1, <1>7, NetOnes DEF LinInv
<1>9. DOMAIN net' = DOMAIN net \union {m}
  BY <1>8
<1>10. Moves(<<"net", 0>>, {}, MsgTokens(m))
  <2> DEFINE fn == NetF(DOMAIN net)   gn == NetF(DOMAIN net')   t == MsgTokens(m)
  <2>1. /\ DOMAIN fn = DOMAIN net /\ DOMAIN gn = DOMAIN fn \union {m} /\ gn[m] = t
        /\ \A x \in DOMAIN fn \ {m} : gn[x] = fn[x]
    BY <1>9 DEF NetF
  <2>2. Apart(fn) /\ Part[<<"net", 0>>] = Held(fn)
    BY <1>5
  <2>3. \A x \in DOMAIN fn : fn[x] \subseteq Held(fn)
    BY DEF Held
  <2> HIDE DEF fn, gn, t
  <2>4. \A x \in DOMAIN fn \ {m} : gn[x] = fn[x] /\ fn[x] \intersect t = {}
    BY <1>2, <1>6, <2>1, <2>2, <2>3 DEF t
  <2>5. Apart(gn) /\ Held(gn) = (Held(fn) \ (IF m \in DOMAIN fn THEN fn[m] ELSE {})) \union t
    BY <2>1, <2>2, <2>4, HeldInsert
  <2>6. Apart(gn) /\ Held(gn) = (Part[<<"net", 0>>] \ {}) \union t
    BY <1>7, <2>1, <2>2, <2>5
  <2> QED BY <2>6, NetMoves DEF gn, t
<1>11. Moves(<<"agenda", w>>, MsgTokens(m), {})
  BY <1>2, <1>3, ListMoves
<1>12. /\ Moves(<<"table", w>>, {}, {}) /\ Moves(<<"deferred", w>>, {}, {}) /\ Moves(<<"join", w>>, {}, {})
  BY <1>1, <1>4, IndexCases, FamilyIs, FamilyThen, NotMoved
<1>13. Elsewhere(w)
  BY <1>1, <1>3, <1>4 DEF Elsewhere
<1>14. KeptAt(w)' /\ ListsApart(w)'
  BY <1>1, <1>2, <1>3, KeptRest
<1>15. Tokens'
  <2> DEFINE t == MsgTokens(m)
  <2>1. Disjoint(t, {}, {}, {}, {})
    BY DEF Disjoint
  <2>2. Fair({} \union t \union {} \union {} \union {}, t \union {} \union {} \union {} \union {})
    BY DEF Fair, Paired
  <2> HIDE DEF t
  <2>3. Moves(<<"net", 0>>, {}, t) /\ Moves(<<"agenda", w>>, t, {})
    BY <1>10, <1>11 DEF t
  <2> QED BY <1>12, <1>13, <1>14, <2>1, <2>2, <2>3, WorkerTokens
<1>16. \A x \in DOMAIN net' : x.kind # "retire" /\ Says(x)
  BY <1>1, <1>2, <1>9 DEF LinInv, Kept, m
<1>17. Kept'
  BY <1>4, <1>8, <1>9, <1>13, <1>14, <1>16, KeptThen
<1> QED BY <1>15, <1>17 DEF LinInv

(* receive_operand removes the operator that has fired.                    *)
LEMMA FinishLin ==
    ASSUME LinInv, NEW C, RuntimeIn(C), NEW w \in Worker, Finish(w), UNCHANGED tableVars
    PROVE  LinInv'
<1> DEFINE m == Head(agenda[w])
<1>1. /\ agenda[w] # <<>> /\ m.kind = "retire"
      /\ operator_table' = [operator_table EXCEPT ![w] = Restrict(@, DOMAIN @ \ {m.id})]
      /\ agenda' = [agenda EXCEPT ![w] = Tail(@)]
      /\ UNCHANGED <<net, deferred_operand_table, seq_num, wait>>
  BY DEF Finish
<1>2. /\ <<"agenda", w>> \in Index /\ 1 \in DOMAIN Family[<<"agenda", w>>]
      /\ Family[<<"agenda", w>>][1] = MsgTokens(m) /\ m.to = w
      /\ MsgTokens(m) \subseteq Part[<<"agenda", w>>]
      /\ Apart(ListF(Tail(agenda[w])))
      /\ Held(ListF(Tail(agenda[w]))) = Part[<<"agenda", w>>] \ MsgTokens(m)
      /\ \A n \in DOMAIN Tail(agenda[w]) : \E k \in DOMAIN agenda[w] :
             Tail(agenda[w])[n] = agenda[w][k]
  BY <1>1, HeadOf
<1>3. /\ agenda'[w] = Tail(agenda[w]) /\ \A v \in Worker \ {w} : agenda'[v] = agenda[v]
      /\ operator_table'[w] = Restrict(operator_table[w], DOMAIN operator_table[w] \ {m.id})
      /\ \A v \in Worker \ {w} : operator_table'[v] = operator_table[v]
  BY <1>1 DEF RuntimeIn
<1>4. UNCHANGED <<ite_table, deferred_ite_table>>
  BY DEF tableVars
<1> HIDE DEF m
<1> DEFINE d == Destination(w, m.id, 0)
<1>5. MsgTokens(m) = Tagged("ret", {d})
  BY <1>1, <1>2 DEF MsgTokens
<1>6. PICK j \in Index : \E b \in DOMAIN Family[j] : <<"full", d>> \in Family[j][b]
  <2>1. <<"ret", d>> \in Held(Part)
    <3>1. <<"ret", d>> \in Family[<<"agenda", w>>][1]
      BY <1>2, <1>5, Tags
    <3> QED BY <1>2, <3>1, Holding
  <2>2. <<"full", d>> \in Held(Part)
    BY <2>1 DEF LinInv, Tokens, Paired
  <2> HIDE DEF d
  <2> QED BY <2>2, Holding
<1>7. PICK b \in DOMAIN Family[j] : <<"full", d>> \in Family[j][b]
  BY <1>6
<1>8. PICK v \in Worker : /\ j = <<"table", v>> /\ b \in DOMAIN operator_table[v]
                          /\ op_check_full(operator_table[v][b])
                          /\ d = Destination(v, operator_table[v][b].id, 0)
  <2> HIDE DEF d
  <2> QED BY <1>7, FullHome DEF LinInv
<1>9. /\ v = w /\ b = m.id /\ m.id \in DOMAIN operator_table[w]
      /\ op_check_full(operator_table[w][m.id]) /\ operator_table[w][m.id].id = m.id
  <2>1. d.agent = w /\ d.id = m.id
    BY DEF Destination
  <2>2. v = w /\ operator_table[v][b].id = m.id
    BY <1>8, <2>1 DEF Destination
  <2> QED BY <1>8, <2>2 DEF RuntimeIn
<1> DEFINE R == Tagged("id", {m.id}) \union Tagged("full", {d})
<1>10. Moves(<<"table", w>>, R, {})
  <2>1. QueuedTokens(w, operator_table[w][m.id]) = R
    BY <1>9 DEF QueuedTokens
  <2> HIDE DEF R
  <2> QED BY <1>3, <1>9, <2>1, TableRemove
<1>11. Moves(<<"agenda", w>>, MsgTokens(m), {})
  BY <1>2, <1>3, ListMoves
<1>12. /\ Moves(<<"net", 0>>, {}, {}) /\ Moves(<<"deferred", w>>, {}, {}) /\ Moves(<<"join", w>>, {}, {})
  BY <1>1, <1>4, IndexCases, FamilyIs, FamilyThen, NotMoved
<1>13. Elsewhere(w)
  BY <1>1, <1>3, <1>4 DEF Elsewhere
<1>14. KeptAt(w)' /\ ListsApart(w)'
  BY <1>1, <1>2, <1>3, KeptRest
<1>15. Tokens'
  <2> DEFINE t == MsgTokens(m)
  <2>1. Disjoint({}, {}, {}, {}, {})
    BY DEF Disjoint
  <2>2. Paired({}) /\ t \union R = Tagged("ret", {d}) \union Tagged("full", {d}) \union Tagged("id", {m.id})
    BY <1>5 DEF Paired
  <2>3. Paired(t \union R)
    <3> HIDE DEF t, d, R
    <3>1. Paired(Tagged("ret", {d}) \union Tagged("full", {d}) \union Tagged("id", {m.id}))
      BY Tags DEF Paired
    <3> QED BY <2>2, <3>1
  <2> HIDE DEF t, R
  <2>4. Fair({} \union t \union R \union {} \union {}, {} \union {} \union {} \union {} \union {})
    <3>1. {} \union t \union R \union {} \union {} = t \union R
      OBVIOUS
    <3>2. {} \union {} \union {} \union {} \union {} = {}
      OBVIOUS
    <3>3. Fair(t \union R, {})
      BY <2>2, <2>3 DEF Fair
    <3> QED BY <3>1, <3>2, <3>3
  <2>5. Moves(<<"agenda", w>>, t, {}) /\ Moves(<<"table", w>>, R, {})
    BY <1>10, <1>11 DEF t
  <2> QED BY <1>12, <1>13, <1>14, <2>1, <2>4, <2>5, WorkerTokens
<1>16. net' = [x \in DOMAIN net' |-> 1] /\ \A x \in DOMAIN net' : x.kind # "retire" /\ Says(x)
  BY <1>1 DEF LinInv, Kept
<1>17. Kept'
  BY <1>4, <1>13, <1>14, <1>16, KeptThen
<1> QED BY <1>15, <1>17 DEF LinInv

-----------------------------------------------------------------------------
(* Filling slots: what was to fill them and the slots go together.         *)
LEMMA FillFair ==
    ASSUME NEW A, NEW D, Tagged("snk", D) \subseteq A, A \intersect Tagged("src", D) = {}
    PROVE  /\ Fair(A \union Tagged("src", D), A \ Tagged("snk", D))
           /\ Paired(Tagged("src", D) \union Tagged("snk", D))
<1> DEFINE S == Tagged("src", D)   K == Tagged("snk", D)
<1>1. Paired(S \union K)
  <2>1. \A t, d : <<t, d>> \in S \union K <=> t \in {"src", "snk"} /\ d \in D
    BY Tags
  <2> HIDE DEF S, K
  <2> QED BY <2>1 DEF Paired
<1>2. /\ (A \union S) \ (A \ K) = S \union K /\ (A \ K) \ (A \union S) = {}
      /\ (A \ K) \intersect (Held(Part) \ (A \union S)) = {}
  OBVIOUS
<1>3. Paired({})
  BY DEF Paired
<1> HIDE DEF S, K
<1>4. Fair(A \union S, A \ K)
  BY <1>1, <1>2, <1>3 DEF Fair
<1> QED BY <1>1, <1>4 DEF S, K

(* The parts of the state share nothing.                                   *)
LEMMA PartsApart ==
    ASSUME LinInv, NEW i \in Index, NEW j \in Index, i # j
    PROVE  Part[i] \intersect Part[j] = {}
  BY FamilyIs DEF LinInv, Tokens, Apart

(* What a message that is taken holds is in no table.                      *)
LEMMA TakenMoves ==
    ASSUME LinInv, NEW C, RuntimeIn(C), NEW w \in Worker, NEW m \in Arrival(w), net' = Took(w, m)
    PROVE  /\ net' = [x \in DOMAIN net' |-> 1]
           /\ \A x \in DOMAIN net' : x.kind # "retire" /\ Says(x)
           /\ MsgTokens(m) \subseteq Held(Part)
           /\ \A i \in Index : i # <<"net", 0>> /\ i # <<"agenda", w>> =>
                                   Part[i] \intersect MsgTokens(m) = {}
           /\ \E Rn, Ra : /\ Rn \union Ra = MsgTokens(m) /\ Moves(<<"net", 0>>, Rn, {})
                          /\ Ra \subseteq Part[<<"agenda", w>>]
                          /\ Held(ListF(Rest(w))) = Part[<<"agenda", w>>] \ Ra
<1>1. /\ net' = [x \in DOMAIN net' |-> 1] /\ DOMAIN net' \subseteq DOMAIN net
      /\ Apart(NetF(DOMAIN net'))
  BY Taken
<1>2. PICK Rn \in SUBSET Part[<<"net", 0>>] : \E Ra \in SUBSET Part[<<"agenda", w>>] :
            /\ Rn \union Ra = MsgTokens(m)
            /\ Held(NetF(DOMAIN net')) = Part[<<"net", 0>>] \ Rn
            /\ Held(ListF(Rest(w))) = Part[<<"agenda", w>>] \ Ra
  BY Taken
<1>3. PICK Ra \in SUBSET Part[<<"agenda", w>>] :
            /\ Rn \union Ra = MsgTokens(m)
            /\ Held(NetF(DOMAIN net')) = Part[<<"net", 0>>] \ Rn
            /\ Held(ListF(Rest(w))) = Part[<<"agenda", w>>] \ Ra
  BY <1>2
<1>4. Moves(<<"net", 0>>, Rn, {})
  BY <1>1, <1>3, NetMoves
<1>5. <<"net", 0>> \in Index /\ <<"agenda", w>> \in Index
  BY IndexCases
<1>6. MsgTokens(m) \subseteq Held(Part)
  BY <1>3, <1>5, PartOf
<1>7. \A i \in Index : i # <<"net", 0>> /\ i # <<"agenda", w>> => Part[i] \intersect MsgTokens(m) = {}
  BY <1>3, <1>5, PartsApart
<1>8. \A x \in DOMAIN net' : x.kind # "retire" /\ Says(x)
  BY <1>1 DEF LinInv, Kept
<1> QED BY <1>1, <1>3, <1>4, <1>6, <1>7, <1>8

(* Further operands come second in the list.                               *)
Second(ls, m) == IF ls = <<>> THEN <<m>> ELSE <<Head(ls), m>> \o Tail(ls)

(* An operand goes second into a list.                                     *)
LEMMA ListSecond ==
    ASSUME NEW ls, IsList(ls), Apart(ListF(ls)), NEW m, MsgTokens(m) \intersect Held(ListF(ls)) = {},
           NEW new, new = Second(ls, m)
    PROVE  /\ IsList(new) /\ Apart(ListF(new)) /\ new # <<>>
           /\ Held(ListF(new)) = Held(ListF(ls)) \union MsgTokens(m)
           /\ \A n \in DOMAIN new : new[n] = m \/ \E k \in DOMAIN ls : new[n] = ls[k]
<1>1. CASE ls = <<>>
  <2>1. new = <<m>>
    BY <1>1 DEF Second
  <2> QED BY <1>1, <2>1, ListOne
<1>2. CASE ls # <<>>
  <2> DEFINE h == Head(ls)   t == Tail(ls)   b == <<h, m>>
  <2>1. PICK S : ls \in Seq(S)
    BY DEF IsList
  <2>2. h \in S /\ t \in Seq(S) /\ new = b \o t /\ b \in Seq(S \union {m}) /\ t \in Seq(S \union {m})
    BY <1>2, <2>1 DEF Second
  <2>3. b = <<h>> \o <<m>> /\ IsList(<<h>>) /\ IsList(<<m>>)
    BY ListOne
  <2>4. /\ IsList(t) /\ Apart(ListF(t)) /\ ls[1] = h /\ 1 \in DOMAIN ls
        /\ Held(ListF(t)) = Held(ListF(ls)) \ MsgTokens(h) /\ MsgTokens(h) \subseteq Held(ListF(ls))
        /\ \A n \in DOMAIN t : n + 1 \in DOMAIN ls /\ t[n] = ls[n + 1]
    BY <1>2, ListTail
  <2>5. /\ IsList(b) /\ Held(ListF(b)) = MsgTokens(h) \union MsgTokens(m) /\ Apart(ListF(b))
    <3> DEFINE p == <<h>>   q == <<m>>
    <3>1. /\ IsList(p) /\ IsList(q) /\ b = p \o q
          /\ Held(ListF(p)) = MsgTokens(h) /\ Held(ListF(q)) = MsgTokens(m)
          /\ Apart(ListF(p)) /\ Apart(ListF(q))
      BY <2>3, ListOne
    <3> HIDE DEF p, q, b, h
    <3>2. /\ IsList(p \o q) /\ Held(ListF(p \o q)) = MsgTokens(h) \union MsgTokens(m)
          /\ Apart(ListF(p \o q))
      BY <2>4, <3>1, ListCat
    <3> QED BY <3>1, <3>2
  <2>6. new # <<>> /\ \A n \in DOMAIN new : new[n] = m \/ \E k \in DOMAIN ls : new[n] = ls[k]
    <3>1. /\ Len(b) = 2 /\ b[1] = h /\ b[2] = m /\ Len(t) \in Nat /\ DOMAIN t = 1 .. Len(t)
          /\ Len(new) = 2 + Len(t) /\ DOMAIN new = 1 .. (2 + Len(t))
      BY <2>2
    <3>2. \A n \in 1 .. (2 + Len(t)) : new[n] = IF n =< 2 THEN b[n] ELSE t[n - 2]
      BY <2>2, <3>1
    <3> HIDE DEF h, t, b
    <3>3. new # <<>>
      BY <3>1
    <3>4. ASSUME NEW n \in DOMAIN new PROVE new[n] = m \/ \E k \in DOMAIN ls : new[n] = ls[k]
      <4>1. n \in 1 .. (2 + Len(t))
        BY <3>1
      <4>2. CASE n = 1
        BY <2>4, <3>1, <3>2, <4>1, <4>2
      <4>3. CASE n = 2
        BY <3>1, <3>2, <4>1, <4>3
      <4>4. CASE n > 2
        <5>1. n - 2 \in DOMAIN t /\ new[n] = t[n - 2]
          BY <3>1, <3>2, <4>1, <4>4
        <5> QED BY <2>4, <5>1
      <4> QED BY <3>1, <4>1, <4>2, <4>3, <4>4
    <3> QED BY <3>3, <3>4
  <2> HIDE DEF h, t, b
  <2>7. /\ IsList(b \o t) /\ Held(ListF(b \o t)) = Held(ListF(b)) \union Held(ListF(t))
        /\ Apart(ListF(b \o t))
    <3>1. Held(ListF(b)) \intersect Held(ListF(t)) = {}
      BY <2>4, <2>5
    <3> QED BY <2>4, <2>5, <3>1, ListCat
  <2> QED BY <2>2, <2>4, <2>5, <2>6, <2>7
<1> QED BY <1>1, <1>2

-----------------------------------------------------------------------------
(* A message that fires nothing: all its tokens go into a table, and with  *)
(* every operand that is inserted the slot it was for.                     *)
QueueRest(w, m) ==
    /\ net' = Took(w, m)
    /\ agenda' = [agenda EXCEPT ![w] = IF @ = <<>> THEN @ ELSE Tail(@)]
    /\ UNCHANGED <<seq_num, wait, tableVars>>

(* Queueing leaves the other workers alone and takes the message.          *)
LEMMA QueueCommon ==
    ASSUME LinInv, NEW C, RuntimeIn(C), NEW w \in Worker, NEW m \in Arrival(w), QueueRest(w, m),
           \A v \in Worker \ {w} : /\ operator_table'[v] = operator_table[v]
                                   /\ deferred_operand_table'[v] = deferred_operand_table[v]
    PROVE  /\ Elsewhere(w) /\ agenda'[w] = Rest(w) /\ Moves(<<"join", w>>, {}, {})
           /\ \E Rn, Ra : /\ Rn \union Ra = MsgTokens(m)
                          /\ Moves(<<"net", 0>>, Rn, {}) /\ Moves(<<"agenda", w>>, Ra, {})
<1>1. /\ agenda'[w] = Rest(w) /\ \A v \in Worker \ {w} : agenda'[v] = agenda[v]
  BY DEF RuntimeIn, QueueRest, Rest
<1>2. UNCHANGED <<wait, deferred_ite_table>>
  BY DEF QueueRest, tableVars
<1>3. Elsewhere(w)
  BY <1>1, <1>2 DEF Elsewhere
<1>4. Moves(<<"join", w>>, {}, {})
  BY <1>2, IndexCases, FamilyIs, FamilyThen, NotMoved
<1>5. net' = Took(w, m)
  BY DEF QueueRest
<1>6. PICK Rn, Ra : /\ Rn \union Ra = MsgTokens(m) /\ Moves(<<"net", 0>>, Rn, {})
                    /\ Ra \subseteq Part[<<"agenda", w>>]
                    /\ Held(ListF(Rest(w))) = Part[<<"agenda", w>>] \ Ra
  BY <1>5, TakenMoves
<1>7. Apart(ListF(agenda'[w]))
  BY <1>1, <1>5, Taken
<1>8. Moves(<<"agenda", w>>, Ra, {})
  BY <1>1, <1>6, <1>7, ListMoves
<1> QED BY <1>1, <1>3, <1>4, <1>6, <1>8

(* Queueing keeps messages where they belong.                              *)
LEMMA QueueKept ==
    ASSUME LinInv, NEW C, RuntimeIn(C), NEW w \in Worker, NEW m \in Arrival(w), QueueRest(w, m),
           \A v \in Worker \ {w} : /\ operator_table'[v] = operator_table[v]
                                   /\ deferred_operand_table'[v] = deferred_operand_table[v],
           \A id \in DOMAIN deferred_operand_table'[w] :
               /\ deferred_operand_table'[w][id] # <<>>
               /\ Apart(ListF(deferred_operand_table'[w][id]))
               /\ \A n \in DOMAIN deferred_operand_table'[w][id] :
                      LET x == deferred_operand_table'[w][id][n]
                      IN  x.to = w /\ x.id = id /\ x.kind = "operand" /\ DOMAIN x.data # {}
    PROVE  Kept' /\ ListsApart(w)'
<1>1. Elsewhere(w) /\ agenda'[w] = Rest(w)
  BY QueueCommon
<1>2. UNCHANGED <<ite_table, deferred_ite_table>> /\ net' = Took(w, m)
  BY DEF QueueRest, tableVars
<1>3. /\ \A n \in DOMAIN Rest(w) : \E k \in DOMAIN agenda[w] : Rest(w)[n] = agenda[w][k]
      /\ net' = [x \in DOMAIN net' |-> 1]
      /\ \A x \in DOMAIN net' : x.kind # "retire" /\ Says(x)
  BY <1>2, Taken, TakenMoves
<1>4. KeptAt(w) /\ ListsApart(w)
  BY DEF LinInv, Kept, Tokens
<1>5. KeptAt(w)'
  <2>1. \A n \in DOMAIN agenda'[w] : /\ Says(agenda'[w][n])
                                     /\ agenda'[w][n].kind = "retire" => agenda'[w][n].to = w
    BY <1>1, <1>3, <1>4 DEF KeptAt
  <2>2. DOMAIN ite_table'[w] \intersect DOMAIN deferred_ite_table'[w] = {}
    BY <1>2, <1>4 DEF KeptAt
  <2> QED BY <2>1, <2>2 DEF KeptAt
<1>6. ListsApart(w)'
  BY <1>2, <1>4 DEF ListsApart
<1> QED BY <1>1, <1>2, <1>3, <1>5, <1>6, KeptThen

(* The operand is deferred.                                                *)
LEMMA DeferLin ==
    ASSUME LinInv, NEW C, RuntimeIn(C), NEW w \in Worker, NEW m \in Arrival(w), QueueRest(w, m),
           m.kind = "operand", UNCHANGED operator_table, add_deferred_operand(w, m)
    PROVE  LinInv'
<1> DEFINE ls == Deferred(w, m.id)
           new == Second(ls, m)
<1>0. m.to = w /\ Says(m)
  BY ArrivalIn, Arriving
<1>1. /\ deferred_operand_table'[w] = keyvalue_insert(deferred_operand_table[w], m.id, new)
      /\ \A v \in Worker \ {w} : deferred_operand_table'[v] = deferred_operand_table[v]
  <2>1. deferred_operand_table' = [deferred_operand_table EXCEPT ![w] = keyvalue_insert(@, m.id, new)]
    BY DEF add_deferred_operand, Second
  <2> HIDE DEF new
  <2> QED BY <2>1 DEF RuntimeIn
<1>2. /\ <<"deferred", w>> \in Index /\ <<"deferred", w>> # <<"net", 0>>
      /\ <<"deferred", w>> # <<"agenda", w>> /\ net' = Took(w, m)
  BY IndexCases DEF QueueRest
<1>3. Part[<<"deferred", w>>] \intersect MsgTokens(m) = {}
  BY <1>2, TakenMoves
<1>4. Held(ListF(ls)) \subseteq Part[<<"deferred", w>>]
  <2>1. Held(ListF(ls)) = IF m.id \in DOMAIN Family[<<"deferred", w>>]
                          THEN Family[<<"deferred", w>>][m.id] ELSE {}
    BY DeferredOld
  <2> HIDE DEF ls
  <2>2. Part[<<"deferred", w>>] = Held(Family[<<"deferred", w>>])
    BY <1>2, FamilyIs
  <2> QED BY <2>1, <2>2 DEF Held
<1>5. /\ IsList(ls) /\ Apart(ListF(ls))
      /\ \A n \in DOMAIN ls : ls[n].to = w /\ ls[n].id = m.id /\ ls[n].kind = "operand"
                              /\ DOMAIN ls[n].data # {}
  <2>1. CASE m.id \in DOMAIN deferred_operand_table[w]
    <3>1. ls = deferred_operand_table[w][m.id]
      BY <2>1 DEF Deferred
    <3> HIDE DEF ls
    <3> QED BY <2>1, <3>1, RightLists DEF LinInv, Kept, KeptAt, Tokens, ListsApart
  <2>2. CASE m.id \notin DOMAIN deferred_operand_table[w]
    <3>1. ls = <<>>
      BY <2>2 DEF Deferred
    <3> HIDE DEF ls
    <3> QED BY <3>1, ListOne
  <2> QED BY <2>1, <2>2
<1>6. /\ Apart(ListF(new)) /\ new # <<>>
      /\ Held(ListF(new)) = Held(ListF(ls)) \union MsgTokens(m)
      /\ \A n \in DOMAIN new : new[n] = m \/ \E k \in DOMAIN ls : new[n] = ls[k]
  <2>1. new = Second(ls, m)
    OBVIOUS
  <2>2. MsgTokens(m) \intersect Held(ListF(ls)) = {}
    BY <1>3, <1>4
  <2>3. IsList(ls) /\ Apart(ListF(ls))
    BY <1>5
  <2> HIDE DEF ls, new
  <2> QED BY <2>1, <2>2, <2>3, ListSecond
<1>7. Moves(<<"deferred", w>>, Held(ListF(ls)), Held(ListF(new)))
  <2> HIDE DEF new
  <2>1. Held(ListF(new)) \intersect (Part[<<"deferred", w>>] \ Held(ListF(Deferred(w, m.id)))) = {}
    BY <1>3, <1>6
  <2> QED BY <1>1, <2>1, DeferredMoves
<1> HIDE DEF ls, new
<1>8. Moves(<<"table", w>>, {}, {})
  BY IndexCases, FamilyIs, FamilyThen, NotMoved
<1>9. /\ Elsewhere(w) /\ Moves(<<"join", w>>, {}, {})
      /\ \E Rn, Ra : /\ Rn \union Ra = MsgTokens(m)
                     /\ Moves(<<"net", 0>>, Rn, {}) /\ Moves(<<"agenda", w>>, Ra, {})
  BY <1>1, QueueCommon
<1>10. PICK Rn, Ra : /\ Rn \union Ra = MsgTokens(m)
                     /\ Moves(<<"net", 0>>, Rn, {}) /\ Moves(<<"agenda", w>>, Ra, {})
  BY <1>9
<1>11. Kept' /\ ListsApart(w)'
  <2>1. ASSUME NEW id \in DOMAIN deferred_operand_table'[w]
        PROVE  /\ deferred_operand_table'[w][id] # <<>>
               /\ Apart(ListF(deferred_operand_table'[w][id]))
               /\ \A n \in DOMAIN deferred_operand_table'[w][id] :
                      LET x == deferred_operand_table'[w][id][n]
                      IN  x.to = w /\ x.id = id /\ x.kind = "operand" /\ DOMAIN x.data # {}
    <3>1. CASE id = m.id
      <4>1. deferred_operand_table'[w][id] = new
        BY <1>1, <3>1 DEF keyvalue_insert
      <4>2. \A n \in DOMAIN new : /\ new[n].to = w /\ new[n].id = m.id /\ new[n].kind = "operand"
                                  /\ DOMAIN new[n].data # {}
        BY <1>0, <1>5, <1>6 DEF Says
      <4> QED BY <1>6, <3>1, <4>1, <4>2
    <3>2. CASE id # m.id
      <4>1. /\ id \in DOMAIN deferred_operand_table[w]
            /\ deferred_operand_table'[w][id] = deferred_operand_table[w][id]
        BY <1>1, <2>1, <3>2 DEF keyvalue_insert
      <4>2. /\ deferred_operand_table[w][id] # <<>>
            /\ Apart(ListF(deferred_operand_table[w][id]))
            /\ \A n \in DOMAIN deferred_operand_table[w][id] :
                   LET x == deferred_operand_table[w][id][n]
                   IN  x.to = w /\ x.id = id /\ x.kind = "operand" /\ DOMAIN x.data # {}
        BY <4>1 DEF LinInv, Kept, KeptAt, Tokens, ListsApart
      <4> QED BY <4>1, <4>2
    <3> QED BY <3>1, <3>2
  <2>2. \A v \in Worker \ {w} : /\ operator_table'[v] = operator_table[v]
                                /\ deferred_operand_table'[v] = deferred_operand_table[v]
    BY <1>1
  <2> QED BY <2>1, <2>2, QueueKept
<1>12. Tokens'
  <2> DEFINE old == Held(ListF(ls))   put == Held(ListF(new))
  <2>1. Moves(<<"deferred", w>>, old, put) /\ put = old \union Rn \union Ra
    BY <1>6, <1>7, <1>10
  <2> HIDE DEF old, put
  <2>2. Disjoint({}, {}, {}, put, {})
    BY DEF Disjoint
  <2>3. Rn \union Ra \union {} \union old \union {} = put
        /\ {} \union {} \union {} \union put \union {} = put
    BY <2>1
  <2>4. Fair(put, put)
    BY DEF Fair, Paired
  <2>5. Fair(Rn \union Ra \union {} \union old \union {}, {} \union {} \union {} \union put \union {})
    BY <2>3, <2>4
  <2> QED BY <1>8, <1>9, <1>10, <1>11, <2>1, <2>2, <2>5, WorkerTokens
<1> QED BY <1>11, <1>12 DEF LinInv

-----------------------------------------------------------------------------
(* The operator enters the table.                                          *)
LEMMA TableThen ==
    ASSUME NEW C, RuntimeIn(C), NEW w \in Worker, NEW op,
           operator_table' = [operator_table EXCEPT ![w] = keyvalue_insert(@, op.id, op)]
    PROVE  /\ operator_table'[w] = keyvalue_insert(operator_table[w], op.id, op)
           /\ \A v \in Worker \ {w} : operator_table'[v] = operator_table[v]
  BY DEF RuntimeIn

(* What an operator of the table holds while it is not full.               *)
LEMMA TableTokens ==
    ASSUME LinInv, NEW w \in Worker, NEW id \in DOMAIN operator_table[w]
    PROVE  QueuedTokens(w, operator_table[w][id]) \subseteq Part[<<"table", w>>]
<1>1. /\ <<"table", w>> \in Index /\ Family[<<"table", w>>] = TableF(w, operator_table[w])
      /\ Part[<<"table", w>>] = Held(Family[<<"table", w>>])
  BY IndexCases, FamilyIs
<1> QED BY <1>1 DEF TableF, Held

(* The operand is inserted.                                                *)
LEMMA InsertLin ==
    ASSUME LinInv, NEW C, RuntimeIn(C), NEW w \in Worker, NEW m \in Arrival(w), QueueRest(w, m),
           NEW op, NEW D, Completes(w, m, op, D), ~op_check_full(op),
           operator_table' = [operator_table EXCEPT ![w] = keyvalue_insert(@, op.id, op)],
           UNCHANGED deferred_operand_table
    PROVE  LinInv'
<1> DEFINE old == operator_table[w][m.id]
           T == OpTokens(w, old)
           S == Tagged("src", D)   K == Tagged("snk", D)
<1>1. /\ op.id = m.id /\ m.id \in DOMAIN operator_table[w]
      /\ QueuedTokens(w, old) = T /\ QueuedTokens(w, op) = T \ K
      /\ K \subseteq T /\ MsgTokens(m) = S
  BY DEF Completes, QueuedTokens
<1>2. /\ operator_table'[w] = keyvalue_insert(operator_table[w], op.id, op)
      /\ \A v \in Worker \ {w} : operator_table'[v] = operator_table[v]
  BY TableThen
<1>3. T \subseteq Part[<<"table", w>>]
  BY <1>1, TableTokens
<1>4. Moves(<<"table", w>>, T, T \ K)
  <2>1. QueuedTokens(w, op) \intersect (Part[<<"table", w>>] \ T) = {}
    BY <1>1
  <2>2. T = IF op.id \in DOMAIN operator_table[w]
            THEN QueuedTokens(w, operator_table[w][op.id]) ELSE {}
    BY <1>1
  <2> HIDE DEF old, T, K
  <2>3. Moves(<<"table", w>>, T, QueuedTokens(w, op))
    BY <1>2, <2>1, <2>2, TableInsert
  <2> QED BY <1>1, <2>3
<1>5. \A v \in Worker \ {w} : /\ operator_table'[v] = operator_table[v]
                              /\ deferred_operand_table'[v] = deferred_operand_table[v]
  BY <1>2
<1>6. /\ Elsewhere(w) /\ Moves(<<"join", w>>, {}, {})
      /\ \E Rn, Ra : /\ Rn \union Ra = MsgTokens(m)
                     /\ Moves(<<"net", 0>>, Rn, {}) /\ Moves(<<"agenda", w>>, Ra, {})
  BY <1>5, QueueCommon
<1>7. PICK Rn, Ra : /\ Rn \union Ra = MsgTokens(m)
                    /\ Moves(<<"net", 0>>, Rn, {}) /\ Moves(<<"agenda", w>>, Ra, {})
  BY <1>6
<1>8. Kept' /\ ListsApart(w)'
  <2>1. \A id \in DOMAIN deferred_operand_table'[w] :
               /\ deferred_operand_table'[w][id] # <<>>
               /\ Apart(ListF(deferred_operand_table'[w][id]))
               /\ \A n \in DOMAIN deferred_operand_table'[w][id] :
                      LET x == deferred_operand_table'[w][id][n]
                      IN  x.to = w /\ x.id = id /\ x.kind = "operand" /\ DOMAIN x.data # {}
    BY DEF LinInv, Kept, KeptAt, Tokens, ListsApart
  <2> QED BY <1>5, <2>1, QueueKept
<1>9. Moves(<<"deferred", w>>, {}, {})
  BY IndexCases, FamilyIs, FamilyThen, NotMoved
<1>10. T \intersect S = {}
  <2>1. /\ <<"table", w>> \in Index /\ <<"table", w>> # <<"net", 0>>
        /\ <<"table", w>> # <<"agenda", w>> /\ net' = Took(w, m)
    BY IndexCases DEF QueueRest
  <2>2. Part[<<"table", w>>] \intersect MsgTokens(m) = {}
    BY <2>1, TakenMoves
  <2> HIDE DEF T, S
  <2> QED BY <1>1, <1>3, <2>2
<1>11. Fair(T \union S, T \ K)
  <2> HIDE DEF T
  <2> QED BY <1>1, <1>10, FillFair
<1>12. Tokens'
  <2> HIDE DEF T, S, K
  <2>1. /\ Rn \union Ra \union T \union {} \union {} = T \union S
        /\ {} \union {} \union (T \ K) \union {} \union {} = T \ K
    BY <1>1, <1>7
  <2> DEFINE U == T \ K
  <2>2. Moves(<<"table", w>>, T, U) /\ Disjoint({}, {}, U, {}, {})
    BY <1>4 DEF Disjoint
  <2>3. Fair(Rn \union Ra \union T \union {} \union {}, {} \union {} \union U \union {} \union {})
    BY <1>11, <2>1
  <2> HIDE DEF U
  <2> QED BY <1>6, <1>7, <1>8, <1>9, <2>2, <2>3, WorkerTokens
<1> QED BY <1>8, <1>12 DEF LinInv

(* The operator is queued with the operands that were there before it.     *)
LEMMA AcceptLin ==
    ASSUME LinInv, NEW C, RuntimeIn(C), NEW w \in Worker, NEW m \in Arrival(w), QueueRest(w, m),
           NEW op, NEW D, Makes(w, m, op, D), ~op_check_full(op),
           operator_table' = [operator_table EXCEPT ![w] = keyvalue_insert(@, op.id, op)],
           ForgetDeferred(w, op.id)
    PROVE  LinInv'
<1> DEFINE T == MsgTokens(m)
           S == Tagged("src", D)   K == Tagged("snk", D)
<1>1. /\ op.id \notin DOMAIN operator_table[w]
      /\ QueuedTokens(w, op) = T \ K
      /\ K \subseteq T /\ Held(ListF(Deferred(w, op.id))) = S
  BY DEF Makes, QueuedTokens
<1>2. /\ operator_table'[w] = keyvalue_insert(operator_table[w], op.id, op)
      /\ \A v \in Worker \ {w} : operator_table'[v] = operator_table[v]
  BY TableThen
<1>3. /\ deferred_operand_table'[w] =
             Restrict(deferred_operand_table[w], DOMAIN deferred_operand_table[w] \ {op.id})
      /\ \A v \in Worker \ {w} : deferred_operand_table'[v] = deferred_operand_table[v]
  BY DEF RuntimeIn, ForgetDeferred
<1>4. /\ Part[<<"table", w>>] \intersect T = {} /\ Part[<<"deferred", w>>] \intersect T = {}
  <2>1. /\ <<"table", w>> \in Index /\ <<"table", w>> # <<"net", 0>>
        /\ <<"table", w>> # <<"agenda", w>> /\ net' = Took(w, m)
        /\ <<"deferred", w>> \in Index /\ <<"deferred", w>> # <<"net", 0>>
        /\ <<"deferred", w>> # <<"agenda", w>>
    BY IndexCases DEF QueueRest
  <2> QED BY <2>1, TakenMoves
<1>5. Moves(<<"table", w>>, {}, T \ K)
  <2>1. QueuedTokens(w, op) \intersect (Part[<<"table", w>>] \ {}) = {}
    BY <1>1, <1>4
  <2>2. {} = IF op.id \in DOMAIN operator_table[w]
             THEN QueuedTokens(w, operator_table[w][op.id]) ELSE {}
    BY <1>1
  <2> HIDE DEF T, K
  <2>3. Moves(<<"table", w>>, {}, QueuedTokens(w, op))
    BY <1>2, <2>1, <2>2, TableInsert
  <2> QED BY <1>1, <2>3
<1>6. Moves(<<"deferred", w>>, S, {})
  <2>1. Moves(<<"deferred", w>>, Held(ListF(Deferred(w, op.id))), {})
    BY <1>3, DeferredGoes
  <2> QED BY <1>1, <2>1
<1>7. \A v \in Worker \ {w} : /\ operator_table'[v] = operator_table[v]
                              /\ deferred_operand_table'[v] = deferred_operand_table[v]
  BY <1>2, <1>3
<1>8. /\ Elsewhere(w) /\ Moves(<<"join", w>>, {}, {})
      /\ \E Rn, Ra : /\ Rn \union Ra = MsgTokens(m)
                     /\ Moves(<<"net", 0>>, Rn, {}) /\ Moves(<<"agenda", w>>, Ra, {})
  BY <1>7, QueueCommon
<1>9. PICK Rn, Ra : /\ Rn \union Ra = MsgTokens(m)
                    /\ Moves(<<"net", 0>>, Rn, {}) /\ Moves(<<"agenda", w>>, Ra, {})
  BY <1>8
<1>10. Kept' /\ ListsApart(w)'
  <2>1. \A id \in DOMAIN deferred_operand_table[w] :
               /\ deferred_operand_table[w][id] # <<>>
               /\ Apart(ListF(deferred_operand_table[w][id]))
               /\ \A n \in DOMAIN deferred_operand_table[w][id] :
                      LET x == deferred_operand_table[w][id][n]
                      IN  x.to = w /\ x.id = id /\ x.kind = "operand" /\ DOMAIN x.data # {}
    BY DEF LinInv, Kept, KeptAt, Tokens, ListsApart
  <2>2. \A id \in DOMAIN deferred_operand_table'[w] :
            /\ id \in DOMAIN deferred_operand_table[w]
            /\ deferred_operand_table'[w][id] = deferred_operand_table[w][id]
    BY <1>3 DEF Restrict
  <2>3. \A id \in DOMAIN deferred_operand_table'[w] :
               /\ deferred_operand_table'[w][id] # <<>>
               /\ Apart(ListF(deferred_operand_table'[w][id]))
               /\ \A n \in DOMAIN deferred_operand_table'[w][id] :
                      LET x == deferred_operand_table'[w][id][n]
                      IN  x.to = w /\ x.id = id /\ x.kind = "operand" /\ DOMAIN x.data # {}
    BY <2>1, <2>2
  <2> QED BY <1>7, <2>3, QueueKept
<1>11. T \intersect S = {}
  <2>1. S \subseteq Part[<<"deferred", w>>]
    BY <1>6 DEF Moves
  <2> QED BY <1>4, <2>1
<1>12. Fair(T \union S, T \ K)
  <2> HIDE DEF T
  <2> QED BY <1>1, <1>11, FillFair
<1>13. Tokens'
  <2> HIDE DEF S, K
  <2> DEFINE U == T \ K
  <2>1. /\ Rn \union Ra \union {} \union S \union {} = T \union S
        /\ {} \union {} \union U \union {} \union {} = U
    BY <1>9
  <2>2. Moves(<<"table", w>>, {}, U) /\ Disjoint({}, {}, U, {}, {}) /\ Fair(T \union S, U)
    BY <1>5, <1>12 DEF Disjoint
  <2> HIDE DEF U, T
  <2>3. Fair(Rn \union Ra \union {} \union S \union {}, {} \union {} \union U \union {} \union {})
    BY <2>1, <2>2
  <2> QED BY <1>6, <1>8, <1>9, <1>10, <2>2, <2>3, WorkerTokens
<1> QED BY <1>10, <1>13 DEF LinInv

(* Queueing a message keeps the tokens.                                    *)
LEMMA QueueLin ==
    ASSUME LinInv, NEW C, RuntimeIn(C), NEW w \in Worker, Queue(w), UNCHANGED tableVars
    PROVE  LinInv'
<1>1. PICK m \in Arrival(w) :
        LET op == Accepted(w, m) IN
        /\ m.kind \in {"operation", "operand"}
        /\ Matched(w, m) => ~op_check_full(op)
        /\ IF Matched(w, m)
           THEN operator_table' = [operator_table EXCEPT ![w] = keyvalue_insert(@, op.id, op)]
           ELSE UNCHANGED operator_table
        /\ CASE m.kind = "operand" /\ ~Matched(w, m) -> add_deferred_operand(w, m)
             [] m.kind = "operation" /\ Matched(w, m) -> ForgetDeferred(w, op.id)
             [] OTHER -> UNCHANGED deferred_operand_table
        /\ net' = Took(w, m)
        /\ agenda' = [agenda EXCEPT ![w] = IF @ = <<>> THEN @ ELSE Tail(@)]
        /\ UNCHANGED <<seq_num, wait>>
  BY DEF Queue
<1>2. QueueRest(w, m)
  BY <1>1 DEF QueueRest
<1>3. CASE m.kind = "operand" /\ ~Matched(w, m)
  BY <1>1, <1>2, <1>3, DeferLin
<1>4. m.kind = "operation" => Matched(w, m)
  BY NoCollision DEF Matched
<1>5. CASE Matched(w, m)
  <2> DEFINE op == Accepted(w, m)
  <2>1. /\ ~op_check_full(op)
        /\ operator_table' = [operator_table EXCEPT ![w] = keyvalue_insert(@, op.id, op)]
    BY <1>1, <1>5
  <2>2. PICK D : Completes(w, m, op, D) \/ Makes(w, m, op, D)
    BY <1>5, AcceptedTokens
  <2>3. CASE Completes(w, m, op, D)
    <3>1. m.kind = "operand"
      BY <2>3 DEF Completes
    <3>2. UNCHANGED deferred_operand_table
      BY <1>1, <1>5, <3>1
    <3> HIDE DEF op
    <3> QED BY <1>2, <2>1, <2>3, <3>2, InsertLin
  <2>4. CASE Makes(w, m, op, D)
    <3>1. m.kind = "operation"
      BY <2>4 DEF Makes
    <3>2. ForgetDeferred(w, op.id)
      BY <1>1, <1>5, <3>1
    <3> HIDE DEF op
    <3> QED BY <1>2, <2>1, <2>4, <3>2, AcceptLin
  <2> QED BY <2>2, <2>3, <2>4
<1> QED BY <1>1, <1>3, <1>4, <1>5

-----------------------------------------------------------------------------
(* What a handler changes in the table of pending triples.                 *)
Rejoins(w, Rj, Nj) ==
    /\ Moves(<<"join", w>>, Rj, Nj)
    /\ \A v \in Worker \ {w} : /\ deferred_ite_table'[v] = deferred_ite_table[v]
                               /\ ite_table'[v] = ite_table[v]
    /\ \A k \in DOMAIN deferred_ite_table'[w] : Apart(WaiterF(deferred_ite_table'[w][k]))
    /\ DOMAIN ite_table'[w] \intersect DOMAIN deferred_ite_table'[w] = {}

(* What a handler sends: the tokens of the operator that fires pass to the *)
(* messages and to those that wait, in pairs, with new ones.               *)
Passes(w, op, msgs, Rj, Nj) ==
    LET R == OpTokens(w, op) \union Rj
        N == Held(ListF(msgs)) \union Nj
    IN  /\ IsList(msgs) /\ Apart(ListF(msgs)) /\ Held(ListF(msgs)) \intersect Nj = {}
        /\ Fair(R, N)
        /\ <<"id", op.id>> \notin N /\ \A d : <<"ret", d>> \notin N /\ <<"full", d>> \notin N
        /\ \A n \in DOMAIN msgs : Says(msgs[n]) /\ msgs[n].kind # "retire"

(* Two paired sets of tokens make one.                                     *)
LEMMA PairedBoth == ASSUME NEW P, NEW Q, Paired(P), Paired(Q) PROVE Paired(P \union Q)
  BY DEF Paired

(* What fires is fair, if what passes is.                                  *)
LEMMA FireFair ==
    ASSUME LinInv, NEW A, NEW D, NEW J, NEW M, NEW X, NEW i,
           Tagged("snk", D) \subseteq A, A \intersect Tagged("src", D) = {},
           A \union Tagged("src", D) \subseteq Held(Part), J \subseteq Held(Part),
           J \intersect (A \union Tagged("src", D)) = {},
           Fair((A \ Tagged("snk", D)) \union J, M),
           X \intersect Held(Part) = {}, Paired(X),
           NEW Y, Y \subseteq {<<"id", i>>}, Y \subseteq A
    PROVE  Fair(A \union Tagged("src", D) \union J, M \union X \union Y)
<1> DEFINE S == Tagged("src", D)   K == Tagged("snk", D)   T == A \ K
           R == A \union S \union J   N == M \union X \union Y
<1>1. Paired(S \union K)
  BY FillFair
<1>2. /\ M \intersect (Held(Part) \ (T \union J)) = {}
      /\ Paired((T \union J) \ M) /\ Paired(M \ (T \union J))
  BY DEF Fair
<1>3. \A x : x \in Y => x \notin K
  BY Tags
<1> DEFINE P == ((T \union J) \ M) \ Y
<1>4. Paired(P)
  <2>1. \A t, d : t # "id" => <<t, d>> \notin Y
    OBVIOUS
  <2>2. \A t, d : t # "id" => (<<t, d>> \in P <=> <<t, d>> \in (T \union J) \ M)
    BY <2>1
  <2> HIDE DEF P, T
  <2> QED BY <1>2, <2>2 DEF Paired
<1> DEFINE H == Held(Part)
<1>5. /\ K \subseteq A /\ A \intersect S = {} /\ A \union S \subseteq H /\ J \subseteq H
      /\ J \intersect (A \union S) = {} /\ X \intersect H = {} /\ Y \subseteq A /\ Y \intersect K = {}
  BY <1>3
<1> HIDE DEF S, K, H
<1>6. M \intersect (S \union K) = {}
  BY <1>2, <1>5 DEF H
<1>7. R \ N = P \union (S \union K)
  BY <1>5, <1>6
<1>8. N \ R = (M \ (T \union J)) \union X
  BY <1>5, <1>6
<1>9. N \intersect (H \ R) = {}
  BY <1>2, <1>5 DEF H
<1>10. Paired(R \ N)
  <2>1. Paired(P \union (S \union K))
    <3> HIDE DEF P
    <3> QED BY <1>1, <1>4, PairedBoth
  <2> QED BY <1>7, <2>1
<1>11. Paired(N \ R)
  <2> DEFINE Q == M \ (T \union J)
  <2>1. Paired(Q \union X)
    <3>1. Paired(Q)
      BY <1>2
    <3> HIDE DEF Q
    <3> QED BY <3>1, PairedBoth
  <2> QED BY <1>8, <2>1
<1>12. Fair(R, N)
  <2> HIDE DEF R, N
  <2> QED BY <1>9, <1>10, <1>11 DEF Fair, H
<1> QED BY <1>12 DEF S

-----------------------------------------------------------------------------
(* The agenda after a firing, and what stays as it belongs.                *)
Ends(w, m) == IF m.kind = "operand" THEN <<Retire(w, m.id)>> ELSE <<>>

(* Firing keeps messages where they belong.                                *)
LEMMA FireKept ==
    ASSUME LinInv, NEW C, RuntimeIn(C), NEW w \in Worker, NEW m \in Arrival(w), NEW op,
           NEW msgs, NEW Rj, NEW Nj, Passes(w, op, msgs, Rj, Nj), Rejoins(w, Rj, Nj),
           net' = Took(w, m), wait' = wait,
           agenda' = [agenda EXCEPT ![w] = msgs \o Ends(w, m) \o Rest(w)],
           \A v \in Worker \ {w} : /\ operator_table'[v] = operator_table[v]
                                   /\ deferred_operand_table'[v] = deferred_operand_table[v],
           \A id \in DOMAIN deferred_operand_table'[w] :
               /\ id \in DOMAIN deferred_operand_table[w]
               /\ deferred_operand_table'[w][id] = deferred_operand_table[w][id]
    PROVE  Kept' /\ ListsApart(w)' /\ Elsewhere(w) /\ agenda'[w] = msgs \o Ends(w, m) \o Rest(w)
<1>1. /\ agenda'[w] = msgs \o Ends(w, m) \o Rest(w)
      /\ \A v \in Worker \ {w} : agenda'[v] = agenda[v]
  <2> DEFINE s == msgs \o Ends(w, m) \o Rest(w)
  <2>1. agenda' = [agenda EXCEPT ![w] = s]
    OBVIOUS
  <2> HIDE DEF s
  <2>2. agenda'[w] = s /\ \A v \in Worker \ {w} : agenda'[v] = agenda[v]
    BY <2>1 DEF RuntimeIn
  <2> QED BY <2>2 DEF s
<1>2. Elsewhere(w)
  BY <1>1 DEF Elsewhere, Rejoins
<1>3. /\ IsList(msgs) /\ \A n \in DOMAIN msgs : Says(msgs[n]) /\ msgs[n].kind # "retire"
  BY DEF Passes
<1>4. /\ IsList(Rest(w)) /\ net' = [x \in DOMAIN net' |-> 1]
      /\ \A n \in DOMAIN Rest(w) : \E k \in DOMAIN agenda[w] : Rest(w)[n] = agenda[w][k]
      /\ \A x \in DOMAIN net' : x.kind # "retire" /\ Says(x)
  BY Taken, TakenMoves
<1>5. KeptAt(w) /\ ListsApart(w)
  BY DEF LinInv, Kept, Tokens
<1> DEFINE Good(x) == Says(x) /\ (x.kind = "retire" => x.to = w)
<1>6. \A n \in DOMAIN agenda'[w] : Good(agenda'[w][n])
  <2>1. \A n \in DOMAIN msgs : Good(msgs[n])
    BY <1>3
  <2>2. \A n \in DOMAIN Rest(w) : Good(Rest(w)[n])
    BY <1>4, <1>5 DEF KeptAt
  <2>3. IsList(Ends(w, m)) /\ \A n \in DOMAIN Ends(w, m) : Good(Ends(w, m)[n])
    <3>1. CASE m.kind = "operand"
      <4>1. Ends(w, m) = <<Retire(w, m.id)>>
        BY <3>1 DEF Ends
      <4>2. Good(Retire(w, m.id))
        BY DEF Retire, Says
      <4> HIDE DEF Good
      <4> QED BY <4>1, <4>2, ListOne
    <3>2. CASE m.kind # "operand"
      <4>1. Ends(w, m) = <<>>
        BY <3>2 DEF Ends
      <4> QED BY <4>1, ListOne
    <3> QED BY <3>1, <3>2
  <2>4. ASSUME NEW s, NEW t, IsList(s), IsList(t),
               \A n \in DOMAIN s : Good(s[n]), \A n \in DOMAIN t : Good(t[n])
        PROVE  IsList(s \o t) /\ \A n \in DOMAIN (s \o t) : Good((s \o t)[n])
    <3>1. IsList(s \o t)
      BY <2>4, ListCat
    <3>2. PICK S : s \in Seq(S)
      BY <2>4 DEF IsList
    <3>3. PICK U : t \in Seq(U)
      BY <2>4 DEF IsList
    <3> HIDE DEF Good
    <3>4. /\ Len(s) \in Nat /\ Len(t) \in Nat /\ DOMAIN s = 1 .. Len(s) /\ DOMAIN t = 1 .. Len(t)
          /\ DOMAIN (s \o t) = 1 .. (Len(s) + Len(t))
          /\ \A n \in 1 .. (Len(s) + Len(t)) :
                (s \o t)[n] = IF n =< Len(s) THEN s[n] ELSE t[n - Len(s)]
      BY <3>2, <3>3
    <3>5. ASSUME NEW n \in DOMAIN (s \o t) PROVE Good((s \o t)[n])
      <4>1. n \in 1 .. (Len(s) + Len(t))
        BY <3>4
      <4>2. CASE n =< Len(s)
        <5>1. n \in DOMAIN s /\ (s \o t)[n] = s[n]
          BY <3>4, <4>1, <4>2
        <5> QED BY <2>4, <5>1
      <4>3. CASE ~(n =< Len(s))
        <5>1. n - Len(s) \in DOMAIN t /\ (s \o t)[n] = t[n - Len(s)]
          BY <3>4, <4>1, <4>3
        <5> QED BY <2>4, <5>1
      <4> QED BY <4>2, <4>3
    <3> QED BY <3>1, <3>5
  <2> DEFINE e == Ends(w, m)   r == Rest(w)   b == msgs \o e
  <2> HIDE DEF Good, e, r
  <2>5. IsList(b) /\ \A n \in DOMAIN b : Good(b[n])
    BY <1>3, <2>1, <2>3, <2>4 DEF e
  <2> HIDE DEF b
  <2>6. \A n \in DOMAIN (b \o r) : Good((b \o r)[n])
    BY <1>4, <2>2, <2>4, <2>5 DEF r
  <2> QED BY <1>1, <2>6 DEF b, e, r
<1>7. KeptAt(w)'
  <2>1. DOMAIN ite_table'[w] \intersect DOMAIN deferred_ite_table'[w] = {}
    BY DEF Rejoins
  <2>2. \A id \in DOMAIN deferred_operand_table'[w] :
           /\ deferred_operand_table'[w][id] # <<>>
           /\ \A n \in DOMAIN deferred_operand_table'[w][id] :
                  LET x == deferred_operand_table'[w][id][n]
                  IN  x.to = w /\ x.id = id /\ x.kind = "operand" /\ DOMAIN x.data # {}
    BY <1>5 DEF KeptAt
  <2> QED BY <1>6, <2>1, <2>2 DEF KeptAt
<1>8. ListsApart(w)'
  <2>1. \A id \in DOMAIN deferred_operand_table'[w] : Apart(ListF(deferred_operand_table'[w][id]))
    BY <1>5 DEF ListsApart
  <2>2. \A k \in DOMAIN deferred_ite_table'[w] : Apart(WaiterF(deferred_ite_table'[w][k]))
    BY DEF Rejoins
  <2> QED BY <2>1, <2>2 DEF ListsApart
<1>9. \A v \in Worker \ {w} : ite_table'[v] = ite_table[v]
  BY DEF Rejoins
<1>10. Kept'
  BY <1>2, <1>4, <1>7, <1>9, KeptThen
<1> QED BY <1>1, <1>2, <1>8, <1>10

-----------------------------------------------------------------------------
(* The agenda of a worker that has fired an operator.                      *)
LEMMA AgendaMoves ==
    ASSUME LinInv, NEW C, RuntimeIn(C), NEW w \in Worker, NEW m \in Arrival(w), net' = Took(w, m),
           NEW msgs, NEW s, IsList(msgs), IsList(s), Apart(ListF(msgs)), Apart(ListF(s)),
           Held(ListF(msgs)) \intersect Held(ListF(s)) = {},
           NEW Ra, Ra \subseteq Part[<<"agenda", w>>],
           Held(ListF(Rest(w))) = Part[<<"agenda", w>>] \ Ra,
           NEW R, NEW N, Fair(R, N), R \intersect Part[<<"agenda", w>>] \subseteq Ra,
           Held(ListF(msgs)) \union Held(ListF(s)) \subseteq N,
           agenda'[w] = msgs \o s \o Rest(w)
    PROVE  Moves(<<"agenda", w>>, Ra, Held(ListF(msgs)) \union Held(ListF(s)))
<1> DEFINE r == Rest(w)   b == msgs \o s   P == Part[<<"agenda", w>>]
<1>1. IsList(r) /\ Apart(ListF(r)) /\ Held(ListF(r)) = P \ Ra /\ P \subseteq Held(Part)
  <2>1. <<"agenda", w>> \in Index
    BY IndexCases
  <2> QED BY <2>1, Taken, PartOf
<1>2. /\ IsList(b) /\ Apart(ListF(b))
      /\ Held(ListF(b)) = Held(ListF(msgs)) \union Held(ListF(s))
  BY ListCat
<1>3. Held(ListF(b)) \intersect (P \ Ra) = {}
  BY <1>1, <1>2 DEF Fair
<1> HIDE DEF r, b, P
<1>4. Apart(ListF(b \o r)) /\ Held(ListF(b \o r)) = Held(ListF(b)) \union (P \ Ra)
  <2>1. Held(ListF(b)) \intersect Held(ListF(r)) = {}
    BY <1>1, <1>3
  <2>2. /\ Held(ListF(b \o r)) = Held(ListF(b)) \union Held(ListF(r))
        /\ Apart(ListF(b \o r)) <=> /\ Apart(ListF(b)) /\ Apart(ListF(r))
                                    /\ Held(ListF(b)) \intersect Held(ListF(r)) = {}
    BY <1>1, <1>2, ListCat
  <2> QED BY <1>1, <1>2, <2>1, <2>2
<1>5. agenda'[w] = b \o r
  BY DEF b, r
<1> DEFINE U == Held(ListF(msgs)) \union Held(ListF(s))
<1> HIDE DEF U
<1>6. Held(ListF(agenda'[w])) = (P \ Ra) \union U
  BY <1>2, <1>4, <1>5 DEF U
<1>7. Moves(<<"agenda", w>>, Ra, U)
  BY <1>4, <1>5, <1>6, ListMoves DEF P
<1> QED BY <1>7 DEF U

(* What is there of an operator that is to be removed: nothing, before it  *)
(* has fired.                                                              *)
LEMMA NotFull ==
    ASSUME LinInv, NEW C, RuntimeIn(C), NEW w \in Worker, NEW id \in DOMAIN operator_table[w],
           ~op_check_full(operator_table[w][id])
    PROVE  /\ <<"full", Destination(w, id, 0)>> \notin Held(Part)
           /\ <<"ret", Destination(w, id, 0)>> \notin Held(Part)
<1>1. Kept /\ Paired(Held(Part))
  BY DEF LinInv, Tokens
<1>2. ASSUME <<"full", Destination(w, id, 0)>> \in Held(Part) PROVE FALSE
  <2>1. PICK i \in Index : \E a \in DOMAIN Family[i] :
            <<"full", Destination(w, id, 0)>> \in Family[i][a]
    BY <1>2, Holding
  <2>2. PICK a \in DOMAIN Family[i] : <<"full", Destination(w, id, 0)>> \in Family[i][a]
    BY <2>1
  <2>3. PICK v \in Worker : /\ a \in DOMAIN operator_table[v]
                            /\ op_check_full(operator_table[v][a])
                            /\ Destination(w, id, 0) = Destination(v, operator_table[v][a].id, 0)
    BY <1>1, <2>2, FullHome
  <2>4. v = w /\ operator_table[v][a].id = id
    BY <2>3 DEF Destination
  <2>5. a = id
    BY <2>3, <2>4 DEF RuntimeIn
  <2> QED BY <2>3, <2>4, <2>5
<1> QED BY <1>1, <1>2 DEF Paired

(* A firing, when it is completed by an operand.                           *)
LEMMA FireOperand ==
    ASSUME LinInv, NEW C, RuntimeIn(C), NEW w \in Worker, NEW m \in Arrival(w), NEW op,
           NEW D, Completes(w, m, op, D), op_check_full(op),
           NEW msgs, NEW Rj, NEW Nj, Passes(w, op, msgs, Rj, Nj), Rejoins(w, Rj, Nj),
           net' = Took(w, m), wait' = wait,
           agenda' = [agenda EXCEPT ![w] = msgs \o Ends(w, m) \o Rest(w)],
           operator_table' = [operator_table EXCEPT ![w][m.id] = op],
           UNCHANGED deferred_operand_table
    PROVE  LinInv'
<1> DEFINE old == operator_table[w][m.id]
           d0 == Destination(w, m.id, 0)
           A == OpTokens(w, old)
           S == Tagged("src", D)   K == Tagged("snk", D)
           M == Held(ListF(msgs)) \union Nj
           X == {<<"full", d0>>, <<"ret", d0>>}   Y == {<<"id", m.id>>}
           H == Held(Part)
<1>1. /\ op.id = m.id /\ m.id \in DOMAIN operator_table[w] /\ m.kind = "operand"
      /\ ~op_check_full(old)
      /\ QueuedTokens(w, old) = A /\ OpTokens(w, op) = A \ K
      /\ K \subseteq A /\ MsgTokens(m) = S
  BY DEF Completes, QueuedTokens
<1>2. /\ operator_table'[w] = keyvalue_insert(operator_table[w], m.id, op)
      /\ \A v \in Worker \ {w} : /\ operator_table'[v] = operator_table[v]
                                 /\ deferred_operand_table'[v] = deferred_operand_table[v]
  <2> DEFINE t == operator_table[w]
             tt == [t EXCEPT ![m.id] = op]
  <2>1. tt = keyvalue_insert(t, m.id, op)
    <3>1. DOMAIN t \union {m.id} = DOMAIN t
      BY <1>1
    <3> HIDE DEF t
    <3> QED BY <3>1 DEF keyvalue_insert
  <2>2. operator_table' = [operator_table EXCEPT ![w] = tt]
    OBVIOUS
  <2> HIDE DEF tt
  <2>3. operator_table'[w] = tt /\ \A v \in Worker \ {w} : operator_table'[v] = operator_table[v]
    BY <2>2 DEF RuntimeIn
  <2> QED BY <2>1, <2>3
<1>3. /\ Kept' /\ ListsApart(w)' /\ Elsewhere(w)
      /\ agenda'[w] = msgs \o Ends(w, m) \o Rest(w)
  <2>1. \A id \in DOMAIN deferred_operand_table'[w] :
               /\ id \in DOMAIN deferred_operand_table[w]
               /\ deferred_operand_table'[w][id] = deferred_operand_table[w][id]
    OBVIOUS
  <2> QED BY <1>2, <2>1, FireKept
<1>4. PICK Rn, Ra : /\ Rn \union Ra = MsgTokens(m) /\ Moves(<<"net", 0>>, Rn, {})
                    /\ Ra \subseteq Part[<<"agenda", w>>]
                    /\ Held(ListF(Rest(w))) = Part[<<"agenda", w>>] \ Ra
  BY TakenMoves
<1>5. /\ <<"net", 0>> \in Index /\ <<"table", w>> \in Index /\ <<"agenda", w>> \in Index
      /\ <<"join", w>> \in Index /\ <<"deferred", w>> \in Index
      /\ <<"table", w>> # <<"net", 0>> /\ <<"table", w>> # <<"agenda", w>>
      /\ <<"join", w>> # <<"net", 0>> /\ <<"join", w>> # <<"agenda", w>>
      /\ <<"table", w>> # <<"join", w>> /\ <<"net", 0>> # <<"agenda", w>>
  BY IndexCases
<1>6. /\ A \subseteq Part[<<"table", w>>] /\ Rj \subseteq Part[<<"join", w>>]
      /\ Rn \subseteq Part[<<"net", 0>>]
      /\ S \subseteq H /\ Part[<<"table", w>>] \subseteq H /\ Part[<<"join", w>>] \subseteq H
      /\ Part[<<"table", w>>] \intersect S = {} /\ Part[<<"join", w>>] \intersect S = {}
      /\ Part[<<"table", w>>] \intersect Part[<<"join", w>>] = {}
      /\ Part[<<"table", w>>] \intersect Part[<<"agenda", w>>] = {}
      /\ Part[<<"join", w>>] \intersect Part[<<"agenda", w>>] = {}
      /\ Part[<<"net", 0>>] \intersect Part[<<"agenda", w>>] = {}
  <2>1. A \subseteq Part[<<"table", w>>]
    BY <1>1, TableTokens
  <2>2. Rj \subseteq Part[<<"join", w>>]
    BY DEF Rejoins, Moves
  <2>3. Rn \subseteq Part[<<"net", 0>>]
    BY <1>4 DEF Moves
  <2>4. S \subseteq H
    <3>1. MsgTokens(m) \subseteq Held(Part)
      BY TakenMoves
    <3> QED BY <1>1, <3>1
  <2>5. /\ Part[<<"table", w>>] \intersect S = {} /\ Part[<<"join", w>>] \intersect S = {}
    BY <1>1, <1>5, TakenMoves
  <2>6. Part[<<"table", w>>] \subseteq H /\ Part[<<"join", w>>] \subseteq H
    BY <1>5, PartOf
  <2>7. /\ Part[<<"table", w>>] \intersect Part[<<"join", w>>] = {}
        /\ Part[<<"table", w>>] \intersect Part[<<"agenda", w>>] = {}
        /\ Part[<<"join", w>>] \intersect Part[<<"agenda", w>>] = {}
        /\ Part[<<"net", 0>>] \intersect Part[<<"agenda", w>>] = {}
    BY <1>5, PartsApart
  <2> HIDE DEF A, S, H
  <2> QED BY <2>1, <2>2, <2>3, <2>4, <2>5, <2>6, <2>7
<1>7. X \intersect H = {} /\ Paired(X)
  <2>1. <<"full", d0>> \notin H /\ <<"ret", d0>> \notin H
    BY <1>1, NotFull
  <2>2. Paired(X)
    <3> HIDE DEF d0
    <3> QED BY DEF Paired
  <2> HIDE DEF d0, H
  <2> QED BY <2>1, <2>2
<1>8. Y \subseteq A /\ old.id = m.id
  <2>1. old.id = m.id
    BY <1>1 DEF RuntimeIn
  <2> QED BY <2>1, OpHas
<1>9. /\ Fair((A \ K) \union Rj, M)
      /\ IsList(msgs) /\ Apart(ListF(msgs)) /\ Held(ListF(msgs)) \intersect Nj = {}
      /\ <<"id", m.id>> \notin M /\ <<"ret", d0>> \notin M /\ <<"full", d0>> \notin M
  BY <1>1 DEF Passes
<1>10. Fair(A \union S \union Rj, M \union X \union Y)
  <2> HIDE DEF A, M, X, Y, d0
  <2>1. A \intersect S = {} /\ A \union S \subseteq Held(Part) /\ Rj \subseteq Held(Part)
        /\ Rj \intersect (A \union S) = {} /\ X \intersect Held(Part) = {}
    BY <1>6, <1>7
  <2>2. Y \subseteq {<<"id", m.id>>}
    BY DEF Y
  <2> QED BY <1>1, <1>7, <1>8, <1>9, <2>1, <2>2, FireFair
<1> DEFINE E == {<<"ret", d0>>}   Q == {<<"id", m.id>>, <<"full", d0>>}
<1>11. /\ IsList(Ends(w, m)) /\ Apart(ListF(Ends(w, m))) /\ Held(ListF(Ends(w, m))) = E
  <2>1. Ends(w, m) = <<Retire(w, m.id)>>
    BY <1>1 DEF Ends
  <2>2. MsgTokens(Retire(w, m.id)) = E
    BY DEF MsgTokens, Retire, Tagged
  <2> QED BY <2>1, <2>2, ListOne
<1>12. QueuedTokens(w, op) = Q
  BY <1>1 DEF QueuedTokens, Tagged
<1>13. Moves(<<"table", w>>, A, Q)
  <2>1. Q \intersect (Part[<<"table", w>>] \ A) = {}
    <3> HIDE DEF A, H, d0
    <3> QED BY <1>6, <1>7, <1>8
  <2>2. A = IF m.id \in DOMAIN operator_table[w]
            THEN QueuedTokens(w, operator_table[w][m.id]) ELSE {}
    BY <1>1
  <2> HIDE DEF A, Q
  <2>3. Moves(<<"table", w>>, A, QueuedTokens(w, op))
    BY <1>2, <1>12, <2>1, <2>2, TableInsert
  <2> QED BY <1>12, <2>3
<1>14. Moves(<<"deferred", w>>, {}, {})
  BY <1>5, FamilyIs, FamilyThen, NotMoved
<1>15. Moves(<<"join", w>>, Rj, Nj)
  BY DEF Rejoins
<1> DEFINE B == Held(ListF(msgs))
           R == A \union S \union Rj   N == M \union X \union Y
           V == B \union E
<1>16. Moves(<<"agenda", w>>, Ra, V)
  <2>1. R \intersect Part[<<"agenda", w>>] \subseteq Ra
    <3> HIDE DEF A, S
    <3> QED BY <1>1, <1>4, <1>6
  <2>2. B \intersect E = {} /\ B \union E \subseteq N
    <3> HIDE DEF B, d0
    <3> QED BY <1>9 DEF B
  <2> HIDE DEF R, N, E
  <2>3. B \intersect Held(ListF(Ends(w, m))) = {} /\ B \union Held(ListF(Ends(w, m))) \subseteq N
    BY <1>11, <2>2
  <2>4. Fair(R, N)
    BY <1>10 DEF R, N
  <2>5. Moves(<<"agenda", w>>, Ra, B \union Held(ListF(Ends(w, m))))
    BY <1>3, <1>4, <1>9, <1>11, <2>1, <2>3, <2>4, AgendaMoves
  <2> QED BY <1>11, <2>5
<1>17. Tokens'
  <2>1. /\ Rn \union Ra \union A \union {} \union Rj = R
    <3> HIDE DEF A, S
    <3> QED BY <1>1, <1>4
  <2>2. {} \union V \union Q \union {} \union Nj = N
    <3> HIDE DEF B, d0
    <3> QED BY DEF B
  <2>3. Disjoint({}, V, Q, {}, Nj)
    <3> HIDE DEF B, d0
    <3> QED BY <1>9 DEF Disjoint, B
  <2> HIDE DEF R, N, V, Q, A
  <2>4. Fair(R, N)
    BY <1>10 DEF R, N
  <2>5. Fair(Rn \union Ra \union A \union {} \union Rj, {} \union V \union Q \union {} \union Nj)
    BY <2>1, <2>2, <2>4
  <2> QED BY <1>3, <1>4, <1>13, <1>14, <1>15, <1>16, <2>3, <2>5, WorkerTokens
<1> QED BY <1>3, <1>17 DEF LinInv

(* A firing, when the operator is full with the operands that were there.  *)
LEMMA FireOperation ==
    ASSUME LinInv, NEW C, RuntimeIn(C), NEW w \in Worker, NEW m \in Arrival(w), NEW op,
           NEW D, Makes(w, m, op, D),
           NEW msgs, NEW Rj, NEW Nj, Passes(w, op, msgs, Rj, Nj), Rejoins(w, Rj, Nj),
           net' = Took(w, m), wait' = wait,
           agenda' = [agenda EXCEPT ![w] = msgs \o Ends(w, m) \o Rest(w)],
           UNCHANGED operator_table, ForgetDeferred(w, op.id)
    PROVE  LinInv'
<1> DEFINE A == MsgTokens(m)
           S == Tagged("src", D)   K == Tagged("snk", D)
           M == Held(ListF(msgs)) \union Nj
           H == Held(Part)
<1>1. /\ m.kind = "operation" /\ OpTokens(w, op) = A \ K
      /\ K \subseteq A /\ Held(ListF(Deferred(w, op.id))) = S
  BY DEF Makes
<1>2. /\ deferred_operand_table'[w] =
             Restrict(deferred_operand_table[w], DOMAIN deferred_operand_table[w] \ {op.id})
      /\ \A v \in Worker \ {w} : /\ operator_table'[v] = operator_table[v]
                                 /\ deferred_operand_table'[v] = deferred_operand_table[v]
  BY DEF RuntimeIn, ForgetDeferred
<1>3. /\ Kept' /\ ListsApart(w)' /\ Elsewhere(w)
      /\ agenda'[w] = msgs \o Ends(w, m) \o Rest(w)
  <2>1. \A id \in DOMAIN deferred_operand_table'[w] :
               /\ id \in DOMAIN deferred_operand_table[w]
               /\ deferred_operand_table'[w][id] = deferred_operand_table[w][id]
    BY <1>2 DEF Restrict
  <2> QED BY <1>2, <2>1, FireKept
<1>4. PICK Rn, Ra : /\ Rn \union Ra = MsgTokens(m) /\ Moves(<<"net", 0>>, Rn, {})
                    /\ Ra \subseteq Part[<<"agenda", w>>]
                    /\ Held(ListF(Rest(w))) = Part[<<"agenda", w>>] \ Ra
  BY TakenMoves
<1>5. /\ <<"net", 0>> \in Index /\ <<"table", w>> \in Index /\ <<"agenda", w>> \in Index
      /\ <<"join", w>> \in Index /\ <<"deferred", w>> \in Index
      /\ <<"deferred", w>> # <<"net", 0>> /\ <<"deferred", w>> # <<"agenda", w>>
      /\ <<"join", w>> # <<"net", 0>> /\ <<"join", w>> # <<"agenda", w>>
      /\ <<"deferred", w>> # <<"join", w>> /\ <<"net", 0>> # <<"agenda", w>>
  BY IndexCases
<1>6. Moves(<<"deferred", w>>, S, {})
  <2>1. Moves(<<"deferred", w>>, Held(ListF(Deferred(w, op.id))), {})
    BY <1>2, DeferredGoes
  <2> QED BY <1>1, <2>1
<1>7. /\ S \subseteq Part[<<"deferred", w>>] /\ Rj \subseteq Part[<<"join", w>>]
      /\ Rn \subseteq Part[<<"net", 0>>]
      /\ A \subseteq H /\ Part[<<"deferred", w>>] \subseteq H /\ Part[<<"join", w>>] \subseteq H
      /\ Part[<<"deferred", w>>] \intersect A = {} /\ Part[<<"join", w>>] \intersect A = {}
      /\ Part[<<"deferred", w>>] \intersect Part[<<"join", w>>] = {}
      /\ Part[<<"deferred", w>>] \intersect Part[<<"agenda", w>>] = {}
      /\ Part[<<"join", w>>] \intersect Part[<<"agenda", w>>] = {}
      /\ Part[<<"net", 0>>] \intersect Part[<<"agenda", w>>] = {}
  <2>1. S \subseteq Part[<<"deferred", w>>]
    BY <1>6 DEF Moves
  <2>2. Rj \subseteq Part[<<"join", w>>]
    BY DEF Rejoins, Moves
  <2>3. Rn \subseteq Part[<<"net", 0>>]
    BY <1>4 DEF Moves
  <2>4. A \subseteq H
    BY <1>1, TakenMoves
  <2>5. /\ Part[<<"deferred", w>>] \intersect A = {} /\ Part[<<"join", w>>] \intersect A = {}
    BY <1>1, <1>5, TakenMoves
  <2>6. Part[<<"deferred", w>>] \subseteq H /\ Part[<<"join", w>>] \subseteq H
    BY <1>5, PartOf
  <2>7. /\ Part[<<"deferred", w>>] \intersect Part[<<"join", w>>] = {}
        /\ Part[<<"deferred", w>>] \intersect Part[<<"agenda", w>>] = {}
        /\ Part[<<"join", w>>] \intersect Part[<<"agenda", w>>] = {}
        /\ Part[<<"net", 0>>] \intersect Part[<<"agenda", w>>] = {}
    BY <1>5, PartsApart
  <2> HIDE DEF A, S, H
  <2> QED BY <2>1, <2>2, <2>3, <2>4, <2>5, <2>6, <2>7
<1>8. /\ Fair((A \ K) \union Rj, M)
      /\ IsList(msgs) /\ Apart(ListF(msgs)) /\ Held(ListF(msgs)) \intersect Nj = {}
  BY <1>1 DEF Passes
<1>9. Fair(A \union S \union Rj, M)
  <2> HIDE DEF A, M
  <2>1. A \intersect S = {} /\ A \union S \subseteq Held(Part) /\ Rj \subseteq Held(Part)
        /\ Rj \intersect (A \union S) = {}
    BY <1>7
  <2> DEFINE Z == {}
  <2>2. Z \intersect Held(Part) = {} /\ Paired(Z) /\ Z \subseteq {<<"id", op.id>>} /\ Z \subseteq A
    BY DEF Paired
  <2> HIDE DEF Z
  <2>3. Fair(A \union S \union Rj, M \union Z \union Z)
    BY <1>1, <1>8, <2>1, <2>2, FireFair
  <2> QED BY <2>3 DEF Z
<1>10. /\ IsList(Ends(w, m)) /\ Apart(ListF(Ends(w, m))) /\ Held(ListF(Ends(w, m))) = {}
  <2>1. Ends(w, m) = <<>>
    BY <1>1 DEF Ends
  <2> QED BY <2>1, ListOne
<1>11. Moves(<<"table", w>>, {}, {})
  BY <1>5, FamilyIs, FamilyThen, NotMoved
<1>12. Moves(<<"join", w>>, Rj, Nj)
  BY DEF Rejoins
<1> DEFINE B == Held(ListF(msgs))
           R == A \union S \union Rj
<1>13. Moves(<<"agenda", w>>, Ra, B)
  <2>1. R \intersect Part[<<"agenda", w>>] \subseteq Ra
    <3> HIDE DEF A, S
    <3> QED BY <1>4, <1>7 DEF A
  <2>2. B \intersect Held(ListF(Ends(w, m))) = {} /\ B \union Held(ListF(Ends(w, m))) \subseteq M
    BY <1>10
  <2>3. B \union Held(ListF(Ends(w, m))) = B
    BY <1>10
  <2> HIDE DEF R, M
  <2>4. Fair(R, M)
    BY <1>9 DEF R
  <2>5. Moves(<<"agenda", w>>, Ra, B \union Held(ListF(Ends(w, m))))
    BY <1>3, <1>4, <1>8, <1>10, <2>1, <2>2, <2>4, AgendaMoves
  <2> QED BY <2>3, <2>5
<1>14. Tokens'
  <2>1. Rn \union Ra \union {} \union S \union Rj = R
    <3> HIDE DEF S
    <3> QED BY <1>4
  <2>2. {} \union B \union {} \union {} \union Nj = M
    OBVIOUS
  <2>3. Disjoint({}, B, {}, {}, Nj)
    BY <1>8 DEF Disjoint
  <2> HIDE DEF R, M, B, S
  <2>4. Fair(R, M)
    BY <1>9 DEF R, S
  <2>5. Fair(Rn \union Ra \union {} \union S \union Rj, {} \union B \union {} \union {} \union Nj)
    BY <2>1, <2>2, <2>4
  <2> QED BY <1>3, <1>4, <1>6, <1>11, <1>12, <1>13, <2>3, <2>5, WorkerTokens
<1> QED BY <1>3, <1>14 DEF LinInv

(* Whatever makes the operator fire.                                       *)
LEMMA FireLin ==
    ASSUME LinInv, NEW C, RuntimeIn(C), NEW w \in Worker, NEW code, NEW f \in Firings(w, code),
           NEW msgs, Emit(w, f, msgs),
           NEW Rj, NEW Nj, Passes(w, f.op, msgs, Rj, Nj), Rejoins(w, Rj, Nj)
    PROVE  LinInv'
<1> DEFINE m == f.msg
           op == f.op
<1>1. m \in Arrival(w) /\ Matched(w, m) /\ op = Accepted(w, m) /\ op_check_full(op)
  BY DEF Firings
<1>2. /\ net' = Took(w, m) /\ wait' = wait
      /\ agenda' = [agenda EXCEPT ![w] = msgs \o Ends(w, m) \o Rest(w)]
      /\ IF m.kind = "operand"
         THEN /\ operator_table' = [operator_table EXCEPT ![w][m.id] = op]
              /\ UNCHANGED deferred_operand_table
         ELSE /\ UNCHANGED operator_table
              /\ ForgetDeferred(w, op.id)
  BY DEF Emit, Ends, Rest
<1>3. PICK D : Completes(w, m, op, D) \/ Makes(w, m, op, D)
  BY <1>1, AcceptedTokens
<1>4. CASE Completes(w, m, op, D)
  <2>1. m.kind = "operand"
    BY <1>4 DEF Completes
  <2> HIDE DEF m, op
  <2>2. Passes(w, op, msgs, Rj, Nj)
    BY DEF op
  <2> QED BY <1>1, <1>2, <1>4, <2>1, <2>2, FireOperand
<1>5. CASE Makes(w, m, op, D)
  <2>1. m.kind = "operation"
    BY <1>5 DEF Makes
  <2> HIDE DEF m, op
  <2>2. Passes(w, op, msgs, Rj, Nj)
    BY DEF op
  <2> QED BY <1>1, <1>2, <1>5, <2>1, <2>2, FireOperation
<1> QED BY <1>3, <1>4, <1>5

-----------------------------------------------------------------------------
(* A list of messages to send, with the tokens they carry.                 *)
Carries(s, T) == /\ IsList(s) /\ Apart(ListF(s)) /\ Held(ListF(s)) = T
                 /\ \A n \in DOMAIN s : Says(s[n]) /\ s[n].kind # "retire"

(* A list of no message or one carries the tokens of that.                 *)
LEMMA CarriesOne ==
    /\ Carries(<<>>, {})
    /\ \A m : Says(m) /\ m.kind # "retire" => Carries(<<m>>, MsgTokens(m))
<1>1. Carries(<<>>, {})
  BY ListOne DEF Carries
<1>2. ASSUME NEW m, Says(m), m.kind # "retire" PROVE Carries(<<m>>, MsgTokens(m))
  BY <1>2, ListOne DEF Carries
<1> QED BY <1>1, <1>2

(* One list of messages after the other carries the tokens of both.        *)
LEMMA CarriesCat ==
    ASSUME NEW s, NEW S, NEW t, NEW T, Carries(s, S), Carries(t, T), S \intersect T = {}
    PROVE  Carries(s \o t, S \union T)
<1>1. /\ IsList(s) /\ IsList(t) /\ Apart(ListF(s)) /\ Apart(ListF(t))
      /\ Held(ListF(s)) = S /\ Held(ListF(t)) = T
      /\ \A n \in DOMAIN s : Says(s[n]) /\ s[n].kind # "retire"
      /\ \A n \in DOMAIN t : Says(t[n]) /\ t[n].kind # "retire"
  BY DEF Carries
<1>2. IsList(s \o t) /\ Apart(ListF(s \o t)) /\ Held(ListF(s \o t)) = S \union T
  BY <1>1, ListCat
<1>3. PICK A : s \in Seq(A)
  BY <1>1 DEF IsList
<1>4. PICK B : t \in Seq(B)
  BY <1>1 DEF IsList
<1>5. /\ Len(s) \in Nat /\ Len(t) \in Nat /\ DOMAIN s = 1 .. Len(s) /\ DOMAIN t = 1 .. Len(t)
      /\ DOMAIN (s \o t) = 1 .. (Len(s) + Len(t))
      /\ \A n \in 1 .. (Len(s) + Len(t)) :
            (s \o t)[n] = IF n =< Len(s) THEN s[n] ELSE t[n - Len(s)]
  BY <1>3, <1>4
<1>6. ASSUME NEW n \in DOMAIN (s \o t) PROVE Says((s \o t)[n]) /\ (s \o t)[n].kind # "retire"
  <2>1. n \in 1 .. (Len(s) + Len(t))
    BY <1>5
  <2>2. CASE n =< Len(s)
    <3>1. n \in DOMAIN s /\ (s \o t)[n] = s[n]
      BY <1>5, <2>1, <2>2
    <3> QED BY <1>1, <3>1
  <2>3. CASE ~(n =< Len(s))
    <3>1. n - Len(s) \in DOMAIN t /\ (s \o t)[n] = t[n - Len(s)]
      BY <1>5, <2>1, <2>3
    <3> QED BY <1>1, <3>1
  <2> QED BY <2>2, <2>3
<1> QED BY <1>2, <1>6 DEF Carries

(* A message that is sent on a condition.                                  *)
LEMMA CarriesOnly ==
    ASSUME NEW cond \in BOOLEAN, NEW m, NEW T, ~cond => T = {},
           cond => Says(m) /\ m.kind # "retire" /\ T = MsgTokens(m)
    PROVE  Carries(Only(cond, m), T)
<1>1. CASE cond
  <2>1. Only(cond, m) = <<m>> /\ T = MsgTokens(m)
    BY <1>1 DEF Only
  <2> QED BY <1>1, <2>1, CarriesOne
<1>2. CASE ~cond
  <2>1. Only(cond, m) = <<>> /\ T = {}
    BY <1>2 DEF Only
  <2> QED BY <2>1, CarriesOne
<1> QED BY <1>1, <1>2

(* The messages of the handlers: operands of one value or two, operators.  *)
LEMMA OperandOne ==
    ASSUME NEW d \in [agent : Agent, id : Id, offset : Nat], NEW r
    PROVE  LET m == Operand(d, <<r>>)
           IN  Says(m) /\ m.kind = "operand" /\ MsgTokens(m) = Tagged("src", {d})
<1> DEFINE m == Operand(d, <<r>>)
<1>1. /\ m.kind = "operand" /\ m.to = d.agent /\ m.id = d.id
      /\ DOMAIN m.data = d.offset .. (d.offset + Len(<<r>>) - 1)
  BY DEF Operand
<1>2. d.offset \in Nat /\ Len(<<r>>) = 1
  OBVIOUS
<1>3. DOMAIN m.data = {d.offset}
  <2>1. d.offset .. (d.offset + Len(<<r>>) - 1) = {d.offset}
    BY <1>2
  <2> QED BY <1>1, <2>1
<1>4. d = Destination(d.agent, d.id, d.offset)
  BY DEF Destination
<1> HIDE DEF m
<1>5. OperandSlots(m) = {d}
  BY <1>1, <1>3, <1>4 DEF OperandSlots
<1>6. MsgTokens(m) = Tagged("src", {d})
  BY <1>1, <1>5, OperandTokens
<1> QED BY <1>1, <1>3, <1>6 DEF m, Says

(* The two words that answer a retrieval.                                  *)
LEMMA OperandTwo ==
    ASSUME NEW d \in [agent : Agent, id : Id, offset : Nat], NEW r, NEW s
    PROVE  LET m == Operand(d, <<r, s>>)
           IN  /\ Says(m) /\ m.kind = "operand"
               /\ MsgTokens(m) = Tagged("src", {d, [d EXCEPT !.offset = @ + 1]})
<1> DEFINE m == Operand(d, <<r, s>>)
<1>1. /\ m.kind = "operand" /\ m.to = d.agent /\ m.id = d.id
      /\ DOMAIN m.data = d.offset .. (d.offset + Len(<<r, s>>) - 1)
  BY DEF Operand
<1>2. d.offset \in Nat /\ Len(<<r, s>>) = 2
  OBVIOUS
<1>3. DOMAIN m.data = {d.offset, d.offset + 1}
  <2>1. d.offset .. (d.offset + Len(<<r, s>>) - 1) = {d.offset, d.offset + 1}
    BY <1>2
  <2> QED BY <1>1, <2>1
<1>4. /\ d = Destination(d.agent, d.id, d.offset)
      /\ [d EXCEPT !.offset = @ + 1] = Destination(d.agent, d.id, d.offset + 1)
  BY DEF Destination
<1> HIDE DEF m
<1>5. OperandSlots(m) = {d, [d EXCEPT !.offset = @ + 1]}
  BY <1>1, <1>3, <1>4 DEF OperandSlots
<1>6. MsgTokens(m) = Tagged("src", {d, [d EXCEPT !.offset = @ + 1]})
  BY <1>1, <1>5, OperandTokens
<1> QED BY <1>1, <1>3, <1>6 DEF m, Says

(* An operation carries the tokens of its operator.                        *)
LEMMA OperationSays ==
    ASSUME NEW a, NEW op, Slots(op.code) # {} => a \in Worker
    PROVE  LET m == Operation(a, op)
           IN  Says(m) /\ m.kind = "operation" /\ MsgTokens(m) = OpTokens(a, op)
<1> DEFINE m == Operation(a, op)
<1>1. m.kind = "operation" /\ m.to = a /\ m.op = op
  BY DEF Operation
<1> HIDE DEF m
<1> QED BY <1>1 DEF Says, MsgTokens, m

-----------------------------------------------------------------------------
(* What an operator holds when it fires, and where that was.               *)
LEMMA FiringHolds ==
    ASSUME LinInv, NEW C, RuntimeIn(C), NEW w \in Worker, NEW code \in Opcodes,
           NEW f \in Firings(w, code)
    PROVE  /\ f.op.code = code /\ OperatorIn(C, f.op, w) /\ Issued(C, f.op.dest.id)
           /\ f.op.dest \in [agent : Agent, id : Id, offset : Nat]
           /\ \A t, d : <<t, d>> \in OpTokens(w, f.op) <=>
                  \/ t = "id" /\ d = f.op.id
                  \/ t = "src" /\ d \in AnswerSlots(f.op)
                  \/ t = "store" /\ d \in Stores(w, f.op)
           /\ OpTokens(w, f.op) \subseteq Held(Part)
           /\ OpTokens(w, f.op) \intersect Part[<<"join", w>>] = {}
<1> DEFINE op == f.op   m == f.msg
<1>1. /\ m \in Arrival(w) /\ Matched(w, m) /\ op = Accepted(w, m) /\ op_check_full(op)
      /\ op.code = code /\ OperatorIn(C, op, w)
  <2>1. op_check_full(op)
    BY DEF Firings
  <2> QED BY <2>1, FiringIn
<1>2. PICK r : Awaits(C, op.dest, r)
  BY <1>1, TaskIssued DEF OperatorIn
<1>3. Sinks(w, op) = {}
  BY <1>1 DEF Sinks, op_check_full
<1>4. \A t, d : <<t, d>> \in OpTokens(w, op) <=>
          \/ t = "id" /\ d = op.id
          \/ t = "src" /\ d \in AnswerSlots(op)
          \/ t = "store" /\ d \in Stores(w, op)
  BY <1>3, OpHas
<1>5. /\ OpTokens(w, op) \subseteq Held(Part)
      /\ OpTokens(w, op) \intersect Part[<<"join", w>>] = {}
  <2>1. PICK D : Completes(w, m, Accepted(w, m), D) \/ Makes(w, m, Accepted(w, m), D)
    BY <1>1, AcceptedTokens
  <2>2. /\ <<"table", w>> \in Index /\ <<"join", w>> \in Index /\ <<"table", w>> # <<"join", w>>
        /\ <<"net", 0>> \in Index /\ <<"agenda", w>> \in Index
        /\ <<"net", 0>> # <<"join", w>> /\ <<"agenda", w>> # <<"join", w>>
    BY IndexCases
  <2>3. CASE Completes(w, m, Accepted(w, m), D)
    <3> DEFINE old == operator_table[w][m.id]
    <3>1. /\ m.id \in DOMAIN operator_table[w] /\ QueuedTokens(w, old) = OpTokens(w, old)
          /\ OpTokens(w, op) \subseteq OpTokens(w, old)
      BY <1>1, <2>3 DEF Completes, QueuedTokens
    <3>2. QueuedTokens(w, old) \subseteq Part[<<"table", w>>]
      BY <3>1, TableTokens
    <3>3. Part[<<"table", w>>] \subseteq Held(Part)
      BY <2>2, PartOf
    <3>4. Part[<<"table", w>>] \intersect Part[<<"join", w>>] = {}
      BY <2>2, PartsApart
    <3> HIDE DEF old, op
    <3> QED BY <3>1, <3>2, <3>3, <3>4
  <2>4. CASE Makes(w, m, Accepted(w, m), D)
    <3>1. OpTokens(w, op) \subseteq MsgTokens(m)
      BY <1>1, <2>4 DEF Makes
    <3>2. \E i \in {<<"net", 0>>, <<"agenda", w>>} : \E a \in DOMAIN Family[i] :
              Family[i][a] = MsgTokens(m)
      BY <1>1, Arriving
    <3>3. PICK i \in {<<"net", 0>>, <<"agenda", w>>} : \E a \in DOMAIN Family[i] :
              Family[i][a] = MsgTokens(m)
      BY <3>2
    <3>4. MsgTokens(m) \subseteq Held(Family[i])
      BY <3>3 DEF Held
    <3>5. i \in Index /\ i # <<"join", w>>
      BY <2>2
    <3>6. Part[i] = Held(Family[i]) /\ Part[i] \subseteq Held(Part)
      BY <3>5, PartOf
    <3>7. Part[i] \intersect Part[<<"join", w>>] = {}
      BY <2>2, <3>5, PartsApart
    <3> HIDE DEF op
    <3> QED BY <3>1, <3>4, <3>6, <3>7
  <2> QED BY <2>1, <2>3, <2>4
<1> QED BY <1>1, <1>2, <1>4, <1>5 DEF Awaits

(* What speaks of an identifier that has not been handed out is nowhere.   *)
LEMMA FreshApart ==
    ASSUME NEW C, RuntimeIn(C), TablesIn(C), ClientsIn(C), NEW X,
           \A x \in X : \E t, d : x = <<t, d>> /\ ~Dated(C, t, d)
    PROVE  /\ X \intersect Held(Part) = {}
           /\ \A a, op : OperatorIn(C, op, a) => X \intersect OpTokens(a, op) = {}
<1>1. ASSUME NEW x \in X PROVE x \notin Held(Part)
  BY HeldDated
<1>2. ASSUME NEW a, NEW op, OperatorIn(C, op, a), NEW x \in X PROVE x \notin OpTokens(a, op)
  BY <1>2, OperatorDated
<1> QED BY <1>1, <1>2

(* What a handler passes on, with what is new.                             *)
LEMMA NewPasses ==
    ASSUME LinInv, NEW w \in Worker, NEW op, NEW msgs, NEW T, Carries(msgs, T),
           NEW Rj, NEW Nj, T \intersect Nj = {}, Rj \subseteq Held(Part),
           NEW P, NEW X, T \union Nj = P \union X, P \subseteq OpTokens(w, op) \union Rj,
           X \intersect Held(Part) = {}, X \intersect OpTokens(w, op) = {},
           Paired((OpTokens(w, op) \union Rj) \ P), Paired(X),
           <<"id", op.id>> \notin P,
           \A d : <<"ret", d>> \notin P \union X /\ <<"full", d>> \notin P \union X
    PROVE  Passes(w, op, msgs, Rj, Nj)
<1> DEFINE O == OpTokens(w, op)   R == O \union Rj   H == Held(Part)
           N == Held(ListF(msgs)) \union Nj
<1>1. N = P \union X /\ Held(ListF(msgs)) = T
  BY DEF Carries
<1>2. <<"id", op.id>> \in O
  BY OpHas
<1>3. /\ X \intersect H = {} /\ X \intersect O = {} /\ Rj \subseteq H /\ P \subseteq R
      /\ Paired(R \ P) /\ Paired(X)
  OBVIOUS
<1> HIDE DEF O, H
<1>4. R \ N = R \ P /\ N \ R = X /\ N \intersect (H \ R) = {} /\ <<"id", op.id>> \notin N
  <2> HIDE DEF N
  <2> QED BY <1>1, <1>2, <1>3
<1>5. Fair(R, N)
  <2> HIDE DEF R, N
  <2> QED BY <1>3, <1>4 DEF Fair, H
<1>6. /\ IsList(msgs) /\ Apart(ListF(msgs)) /\ Held(ListF(msgs)) \intersect Nj = {}
      /\ \A n \in DOMAIN msgs : Says(msgs[n]) /\ msgs[n].kind # "retire"
  BY DEF Carries
<1>7. \A d : <<"ret", d>> \notin N /\ <<"full", d>> \notin N
  <2> HIDE DEF N
  <2> QED BY <1>1
<1>8. Fair(OpTokens(w, op) \union Rj, N)
  BY <1>5 DEF O
<1> HIDE DEF N
<1> QED BY <1>4, <1>6, <1>7, <1>8 DEF Passes, N

(* Handlers that leave the pending triples alone.                          *)
LEMMA NoRejoin ==
    ASSUME LinInv, NEW w \in Worker, UNCHANGED <<ite_table, deferred_ite_table>>
    PROVE  Rejoins(w, {}, {})
<1>1. Moves(<<"join", w>>, {}, {})
  BY IndexCases, FamilyIs, FamilyThen, NotMoved
<1>2. KeptAt(w) /\ ListsApart(w)
  BY DEF LinInv, Kept, Tokens
<1> QED BY <1>1, <1>2 DEF Rejoins, KeptAt, ListsApart

-----------------------------------------------------------------------------
(* A handler that answers, and does nothing else.                          *)
LEMMA AnswerPasses ==
    ASSUME LinInv, NEW C, RuntimeIn(C), NEW w \in Worker, NEW code \in Opcodes \ {"ITE_STORE"},
           NEW f \in Firings(w, code), NEW msgs, Carries(msgs, Tagged("src", AnswerSlots(f.op)))
    PROVE  Passes(w, f.op, msgs, {}, {})
<1> DEFINE op == f.op   P == Tagged("src", AnswerSlots(op))   O == OpTokens(w, op)
           R == O \union {}
<1>1. /\ op.code = code
      /\ \A t, d : <<t, d>> \in O <=>
                  \/ t = "id" /\ d = op.id
                  \/ t = "src" /\ d \in AnswerSlots(op)
                  \/ t = "store" /\ d \in Stores(w, op)
  BY FiringHolds
<1>2. Stores(w, op) = {}
  BY <1>1 DEF Stores
<1>3. \A t, d : <<t, d>> \in P <=> t = "src" /\ d \in AnswerSlots(op)
  BY Tags
<1>4. P \subseteq R
  <2>1. ASSUME NEW x \in P PROVE x \in O
    <3>1. PICK d \in AnswerSlots(op) : x = <<"src", d>>
      BY Tags
    <3> QED BY <1>1, <3>1
  <2> QED BY <2>1
<1> HIDE DEF O, P
<1>5. Paired(R \ P)
  BY <1>1, <1>2, <1>3 DEF Paired
<1> DEFINE X == {}
<1>6. X \intersect Held(Part) = {} /\ X \intersect O = {} /\ Paired(X) /\ P \union {} = P \union X
  BY DEF Paired
<1>7. <<"id", op.id>> \notin P /\ \A d : <<"ret", d>> \notin P \union X /\ <<"full", d>> \notin P \union X
  BY <1>3
<1> HIDE DEF X, op
<1> QED BY <1>4, <1>5, <1>6, <1>7, NewPasses DEF O, P, op

(* A lookup that finds its triple in the cache.                            *)
LEMMA HitLin ==
    ASSUME LinInv, NEW C, DistIn(C), NEW w \in Worker, IteHit(w)
    PROVE  LinInv'
<1>1. PICK f \in Firings(w, "ITE_LOOKUP") :
        /\ \E r \in ref_ite_lookup(w, Key(f.op.arg)) :
              Emit(w, f, Answering(f.op.dest, Signed(r, f.op.arg.neg)))
        /\ UNCHANGED <<seq_num, tableVars, clientVars>>
  BY DEF IteHit
<1>2. PICK r : Emit(w, f, Answering(f.op.dest, r))
  BY <1>1
<1>3. "ITE_LOOKUP" \in Opcodes \ {"ITE_STORE"} /\ RuntimeIn(C)
  BY DEF Opcodes, DistIn
<1>4. Carries(Answering(f.op.dest, r), Tagged("src", AnswerSlots(f.op)))
  <2>1. f.op.code = "ITE_LOOKUP" /\ f.op.dest \in [agent : Agent, id : Id, offset : Nat]
    BY <1>3, FiringHolds
  <2>2. AnswerSlots(f.op) = {f.op.dest}
    BY <2>1 DEF AnswerSlots
  <2>3. /\ Says(Operand(f.op.dest, <<r>>)) /\ Operand(f.op.dest, <<r>>).kind = "operand"
        /\ MsgTokens(Operand(f.op.dest, <<r>>)) = Tagged("src", {f.op.dest})
    BY <2>1, OperandOne
  <2>4. Carries(<<Operand(f.op.dest, <<r>>)>>, MsgTokens(Operand(f.op.dest, <<r>>)))
    BY <2>3, CarriesOne
  <2> QED BY <2>2, <2>3, <2>4 DEF Answering
<1>5. Passes(w, f.op, Answering(f.op.dest, r), {}, {})
  BY <1>3, <1>4, AnswerPasses
<1>6. Rejoins(w, {}, {})
  BY <1>1, NoRejoin DEF tableVars
<1> QED BY <1>2, <1>3, <1>5, <1>6, FireLin

(* The branches of a node.                                                 *)
LEMMA RetrieveLin ==
    ASSUME LinInv, NEW C, DistIn(C), NEW w \in Worker, DoRetrieveLookup(w)
    PROVE  LinInv'
<1>1. PICK f \in Firings(w, "RETRIEVE_LOOKUP") :
        /\ Emit(w, f, <<Operand(f.op.dest, IF REF_ABSVAL(f.op.arg.ref) \in unique_table[w]
                                           THEN Children(f.op.arg.ref)
                                           ELSE <<REF_INVALID, REF_INVALID>>)>>)
        /\ UNCHANGED <<seq_num, tableVars, clientVars>>
  BY DEF DoRetrieveLookup
<1> DEFINE dest == f.op.dest
<1>2. PICK r, s : Emit(w, f, <<Operand(dest, <<r, s>>)>>)
  <2>1. PICK hi, lo : Children(f.op.arg.ref) = <<hi, lo>>
    BY DEF Children
  <2>2. CASE REF_ABSVAL(f.op.arg.ref) \in unique_table[w]
    BY <1>1, <2>1, <2>2
  <2>3. CASE REF_ABSVAL(f.op.arg.ref) \notin unique_table[w]
    BY <1>1, <2>3
  <2> QED BY <2>2, <2>3
<1>3. "RETRIEVE_LOOKUP" \in Opcodes \ {"ITE_STORE"} /\ RuntimeIn(C)
  BY DEF Opcodes, DistIn
<1> DEFINE m == Operand(dest, <<r, s>>)
<1>4. Carries(<<m>>, Tagged("src", AnswerSlots(f.op)))
  <2>1. f.op.code = "RETRIEVE_LOOKUP" /\ dest \in [agent : Agent, id : Id, offset : Nat]
    BY <1>3, FiringHolds
  <2>2. AnswerSlots(f.op) = {dest, [dest EXCEPT !.offset = @ + 1]}
    BY <2>1 DEF AnswerSlots
  <2> HIDE DEF dest
  <2>3. /\ Says(m) /\ m.kind = "operand"
        /\ MsgTokens(m) = Tagged("src", {dest, [dest EXCEPT !.offset = @ + 1]})
    BY <2>1, OperandTwo
  <2> HIDE DEF m
  <2>4. Carries(<<m>>, MsgTokens(m))
    BY <2>3, CarriesOne
  <2> QED BY <2>2, <2>3, <2>4
<1> HIDE DEF m
<1>5. Passes(w, f.op, <<m>>, {}, {})
  BY <1>3, <1>4, AnswerPasses
<1>6. Rejoins(w, {}, {})
  BY <1>1, NoRejoin DEF tableVars
<1>7. Emit(w, f, <<m>>)
  BY <1>2 DEF m
<1> QED BY <1>3, <1>5, <1>6, <1>7, FireLin

(* The node of a function is found or created.                             *)
LEMMA CanonizeLookupLin ==
    ASSUME LinInv, NEW C, DistIn(C), NEW w \in Worker, DoCanonizeLookup(w)
    PROVE  LinInv'
<1>1. PICK f \in Firings(w, "CANONIZE_LOOKUP") :
        /\ Emit(w, f, Answering(f.op.dest, Signed(f.op.arg.node, f.op.arg.neg)))
        /\ UNCHANGED <<seq_num, ite_table, deferred_ite_table, clientVars>>
  BY DEF DoCanonizeLookup
<1>2. PICK r : Emit(w, f, Answering(f.op.dest, r))
  BY <1>1
<1>3. "CANONIZE_LOOKUP" \in Opcodes \ {"ITE_STORE"} /\ RuntimeIn(C)
  BY DEF Opcodes, DistIn
<1>4. Carries(Answering(f.op.dest, r), Tagged("src", AnswerSlots(f.op)))
  <2>1. f.op.code = "CANONIZE_LOOKUP" /\ f.op.dest \in [agent : Agent, id : Id, offset : Nat]
    BY <1>3, FiringHolds
  <2>2. AnswerSlots(f.op) = {f.op.dest}
    BY <2>1 DEF AnswerSlots
  <2>3. /\ Says(Operand(f.op.dest, <<r>>)) /\ Operand(f.op.dest, <<r>>).kind = "operand"
        /\ MsgTokens(Operand(f.op.dest, <<r>>)) = Tagged("src", {f.op.dest})
    BY <2>1, OperandOne
  <2>4. Carries(<<Operand(f.op.dest, <<r>>)>>, MsgTokens(Operand(f.op.dest, <<r>>)))
    BY <2>3, CarriesOne
  <2> QED BY <2>2, <2>3, <2>4 DEF Answering
<1>5. Passes(w, f.op, Answering(f.op.dest, r), {}, {})
  BY <1>3, <1>4, AnswerPasses
<1>6. Rejoins(w, {}, {})
  BY <1>1, NoRejoin
<1> QED BY <1>2, <1>3, <1>5, <1>6, FireLin

(* Identifiers that a handler takes are new.                               *)
LEMMA NewIds ==
    ASSUME NEW C, DistIn(C), NEW a \in Agent, NEW n \in 1 .. 5, UseIds(a, n), Rising
    PROVE  /\ \A k \in 0 .. (n - 1) : ~Issued(C, NewId(a, k))
           /\ \A j, k \in 0 .. (n - 1) : NewId(a, j) = NewId(a, k) => j = k
<1>1. C.seq = seq_num /\ seq_num \in [Agent -> 0 .. IdLimit - 1]
  BY DEF DistIn, Worlds
<1>2. \A k \in 0 .. (n - 1) : NewId(a, k) = [agent |-> a, seq |-> seq_num[a] + k]
  BY <1>1, Numbers
<1>3. seq_num[a] \in Nat
  BY <1>1, DataflowAssumption
<1>4. ASSUME NEW k \in 0 .. (n - 1) PROVE ~Issued(C, NewId(a, k))
  <2>1. NewId(a, k).agent = a /\ NewId(a, k).seq = seq_num[a] + k /\ k \in Nat
    BY <1>2
  <2>2. ~(seq_num[a] + k < seq_num[a])
    BY <1>3, <2>1
  <2> QED BY <1>1, <2>1, <2>2 DEF Issued
<1>5. ASSUME NEW j \in 0 .. (n - 1), NEW k \in 0 .. (n - 1), NewId(a, j) = NewId(a, k)
      PROVE  j = k
  <2>1. seq_num[a] + j = seq_num[a] + k
    BY <1>2, <1>5
  <2> QED BY <1>3, <2>1
<1> QED BY <1>4, <1>5

(* A result is known at once, or its node asked for.                       *)
LEMMA CanonizeLin ==
    ASSUME LinInv, NEW C, DistIn(C), Rising, NEW w \in Worker, DoCanonize(w)
    PROVE  LinInv'
<1>1. PICK f \in Firings(w, "CANONIZE") :
        /\ \/ \E r : Emit(w, f, Answering(f.op.dest, r))
           \/ \E node, neg : /\ Emit(w, f, <<build_canonize_lookup(NewId(w, 0), f.op.dest, node, neg)>>)
                             /\ UseIds(w, 1)
        /\ UNCHANGED <<tableVars, clientVars>>
  <2>1. PICK f \in Firings(w, "CANONIZE") :
        LET op == f.op
            v  == op.arg.var
            hi == op.data[1]
            lo == op.data[2]
            r  == ref_canonize_local(v, hi, lo)
        IN
        /\ IF REF_INVALID \in {hi, lo} \/ ~LevelsFall(v, hi, lo)
           THEN Emit(w, f, Answering(op.dest, REF_INVALID)) /\ UNCHANGED seq_num
           ELSE IF r.done
           THEN Emit(w, f, Answering(op.dest, r.ref)) /\ UNCHANGED seq_num
           ELSE /\ Emit(w, f, <<build_canonize_lookup(NewId(w, 0), op.dest, r.node, r.neg)>>)
                /\ UseIds(w, 1)
        /\ UNCHANGED <<tableVars, clientVars>>
    BY DEF DoCanonize
  <2> DEFINE op == f.op
             r == ref_canonize_local(op.arg.var, op.data[1], op.data[2])
  <2>2. \/ Emit(w, f, Answering(op.dest, REF_INVALID))
        \/ Emit(w, f, Answering(op.dest, r.ref))
        \/ /\ Emit(w, f, <<build_canonize_lookup(NewId(w, 0), op.dest, r.node, r.neg)>>)
           /\ UseIds(w, 1)
    BY <2>1
  <2> HIDE DEF r
  <2> QED BY <2>1, <2>2
<1>2. "CANONIZE" \in Opcodes \ {"ITE_STORE"} /\ RuntimeIn(C) /\ TablesIn(C) /\ ClientsIn(C)
  BY DEF Opcodes, DistIn
<1> DEFINE op == f.op   dest == op.dest
<1>3. /\ op.code = "CANONIZE" /\ dest \in [agent : Agent, id : Id, offset : Nat]
      /\ Issued(C, dest.id) /\ OperatorIn(C, op, w)
      /\ \A t, d : <<t, d>> \in OpTokens(w, op) <=>
                  \/ t = "id" /\ d = op.id
                  \/ t = "src" /\ d \in AnswerSlots(op)
                  \/ t = "store" /\ d \in Stores(w, op)
  BY <1>2, FiringHolds
<1>4. AnswerSlots(op) = {dest} /\ Stores(w, op) = {}
  BY <1>3 DEF AnswerSlots, Stores
<1>5. Rejoins(w, {}, {})
  BY <1>1, NoRejoin DEF tableVars
<1>6. CASE \E r : Emit(w, f, Answering(dest, r))
  <2>1. PICK r : Emit(w, f, Answering(dest, r))
    BY <1>6
  <2> DEFINE m == Operand(dest, <<r>>)
  <2>2. Says(m) /\ m.kind = "operand" /\ MsgTokens(m) = Tagged("src", {dest})
    BY <1>3, OperandOne
  <2> HIDE DEF m
  <2>3. Carries(<<m>>, Tagged("src", AnswerSlots(op)))
    <3>1. Carries(<<m>>, MsgTokens(m))
      BY <2>2, CarriesOne
    <3> QED BY <1>4, <2>2, <3>1
  <2>4. Passes(w, f.op, <<m>>, {}, {})
    BY <1>2, <2>3, AnswerPasses
  <2>5. Emit(w, f, <<m>>)
    BY <2>1 DEF m, Answering
  <2> QED BY <1>2, <1>5, <2>4, <2>5, FireLin
<1>7. CASE \E node, neg : /\ Emit(w, f, <<build_canonize_lookup(NewId(w, 0), dest, node, neg)>>)
                          /\ UseIds(w, 1)
  <2>1. PICK node, neg : /\ Emit(w, f, <<build_canonize_lookup(NewId(w, 0), dest, node, neg)>>)
                         /\ UseIds(w, 1)
    BY <1>7
  <2> DEFINE n0 == NewId(w, 0)
             new == Operator("CANONIZE_LOOKUP", n0, dest, [node |-> node, neg |-> neg])
             m == Operation(HomeNode(node), new)
             X == {<<"id", n0>>}   P == {<<"src", dest>>}   T == MsgTokens(m)
             O == OpTokens(w, op)
  <2>2. /\ new.code = "CANONIZE_LOOKUP" /\ new.id = n0 /\ new.dest = dest /\ new.data = <<>>
        /\ Slots(new.code) = {}
    BY IteAssumption DEF Operator, Opcodes, IteSlots
  <2>3. Says(m) /\ m.kind = "operation" /\ T = OpTokens(HomeNode(node), new)
    <3> HIDE DEF new
    <3> QED BY <2>2, OperationSays
  <2>4. T = P \union X
    <3>1. /\ AnswerSlots(new) = {dest} /\ Stores(HomeNode(node), new) = {}
          /\ Sinks(HomeNode(node), new) = {}
      <4> HIDE DEF new
      <4> QED BY <2>2 DEF AnswerSlots, Stores, Sinks
    <3> HIDE DEF new, m, dest, n0
    <3> QED BY <2>2, <2>3, <3>1 DEF OpTokens, Tagged
  <2>5. ~Issued(C, n0)
    <3>1. w \in Agent /\ 1 \in 1 .. 5 /\ 0 \in 0 .. (1 - 1)
      BY DEF Agent
    <3> QED BY <2>1, <3>1, NewIds
  <2>6. X \intersect Held(Part) = {} /\ X \intersect O = {}
    <3> HIDE DEF n0, op
    <3>1. \A x \in X : \E t, d : x = <<t, d>> /\ ~Dated(C, t, d)
      BY <2>5 DEF Dated
    <3> HIDE DEF X
    <3> QED BY <1>2, <1>3, <3>1, FreshApart
  <2>7. Carries(<<m>>, T)
    <3> HIDE DEF m
    <3> QED BY <2>3, CarriesOne
  <2>8. P \subseteq O \union {} /\ Paired((O \union {}) \ P) /\ Paired(X)
    <3> HIDE DEF O, dest, n0
    <3> QED BY <1>3, <1>4 DEF Paired, O
  <2>9. <<"id", op.id>> \notin P /\ \A d : <<"ret", d>> \notin P \union X /\ <<"full", d>> \notin P \union X
    OBVIOUS
  <2>10. T \intersect {} = {} /\ {} \subseteq Held(Part) /\ T \union {} = P \union X
    BY <2>4
  <2>11. Passes(w, op, <<m>>, {}, {})
    <3> HIDE DEF X, P, T, m, op
    <3> QED BY <2>6, <2>7, <2>8, <2>9, <2>10, NewPasses DEF O
  <2>12. Emit(w, f, <<m>>)
    BY <2>1 DEF build_canonize_lookup
  <2> HIDE DEF m
  <2> QED BY <1>2, <1>5, <2>11, <2>12, FireLin
<1> QED BY <1>1, <1>6, <1>7

-----------------------------------------------------------------------------
(* Lists of those that wait for a triple.                                  *)
LEMMA WaiterLists ==
    ASSUME NEW C, TablesIn(C), NEW w \in Worker, NEW k \in DOMAIN deferred_ite_table[w]
    PROVE  /\ IsList(deferred_ite_table[w][k])
           /\ \A n \in DOMAIN deferred_ite_table[w][k] :
                  deferred_ite_table[w][k][n].dest \in [agent : Agent, id : Id, offset : Nat]
<1>1. WaitersIn(C, k, deferred_ite_table[w][k])
  BY DEF TablesIn
<1>2. PICK S : /\ deferred_ite_table[w][k] \in Seq(S)
               /\ \A x \in S : /\ x.neg \in BOOLEAN
                               /\ Awaits(C, x.dest, Signed(Ite(k[1], k[2], k[3]), x.neg))
  BY <1>1 DEF WaitersIn
<1>3. \A n \in DOMAIN deferred_ite_table[w][k] : deferred_ite_table[w][k][n] \in S
  BY <1>2
<1> QED BY <1>2, <1>3 DEF IsList, Awaits

(* One more waits for a triple.                                            *)
LEMMA WaitersOne ==
    ASSUME NEW s, IsList(s), NEW x, <<"src", x.dest>> \notin Held(WaiterF(s)), Apart(WaiterF(s))
    PROVE  /\ Held(WaiterF(<<x>> \o s)) = Tagged("src", {x.dest}) \union Held(WaiterF(s))
           /\ Apart(WaiterF(<<x>> \o s))
<1> DEFINE one == <<x>>   f == WaiterF(one)   g == WaiterF(s)   h == WaiterF(one \o s)
<1>1. PICK A : s \in Seq(A)
  BY DEF IsList
<1> DEFINE B == A \union {x}
<1>2. one \in Seq(B) /\ s \in Seq(B) /\ Len(one) = 1 /\ one[1] = x
  BY <1>1
<1> HIDE DEF B
<1>3. /\ Len(s) \in Nat /\ DOMAIN s = 1 .. Len(s) /\ DOMAIN one = 1 .. 1
      /\ DOMAIN (one \o s) = 1 .. (1 + Len(s))
      /\ (one \o s)[1] = x /\ \A i \in 1 .. Len(s) : (one \o s)[1 + i] = s[i]
  BY <1>2
<1>4. Joined(f, g, h, 1, Len(s))
  <2> HIDE DEF one
  <2>1. DOMAIN f = 1 .. 1 /\ DOMAIN g = 1 .. Len(s) /\ DOMAIN h = 1 .. (1 + Len(s))
    BY <1>3 DEF WaiterF
  <2>2. \A i \in 1 .. 1 : h[i] = f[i]
    BY <1>2, <1>3 DEF WaiterF
  <2>3. \A i \in 1 .. Len(s) : h[1 + i] = g[i]
    <3>1. \A i \in 1 .. Len(s) : 1 + i \in 1 .. (1 + Len(s))
      BY <1>3
    <3> QED BY <1>3, <3>1 DEF WaiterF
  <2> QED BY <1>3, <2>1, <2>2, <2>3 DEF Joined
<1>5. Held(f) = Tagged("src", {x.dest}) /\ Apart(f)
  <2>1. DOMAIN f = {1} /\ f[1] = Tagged("src", {x.dest})
    <3>1. DOMAIN one = {1} /\ one[1] = x
      BY <1>2
    <3> HIDE DEF one
    <3> QED BY <3>1 DEF WaiterF
  <2> HIDE DEF f
  <2> QED BY <2>1 DEF Held, Apart
<1>6. Held(f) \intersect Held(g) = {}
  <2>1. \A y \in Tagged("src", {x.dest}) : y = <<"src", x.dest>>
    BY Tags
  <2> HIDE DEF f, g
  <2> QED BY <1>5, <2>1 DEF g
<1>7. /\ Held(h) = Held(f) \union Held(g)
      /\ Apart(h) <=> Apart(f) /\ Apart(g) /\ Held(f) \intersect Held(g) = {}
  <2> HIDE DEF f, g, h
  <2> QED BY <1>4, HeldCat
<1> QED BY <1>5, <1>6, <1>7

(* A request joins those that wait for its triple.                         *)
LEMMA JoinLin ==
    ASSUME LinInv, NEW C, DistIn(C), NEW w \in Worker, IteJoin(w)
    PROVE  LinInv'
<1>1. PICK f \in Firings(w, "ITE_LOOKUP") :
        /\ Key(f.op.arg) \in DOMAIN deferred_ite_table[w]
        /\ deferred_ite_table' = [deferred_ite_table EXCEPT ![w][Key(f.op.arg)] =
                                     <<[dest |-> f.op.dest, neg |-> f.op.arg.neg]>> \o @]
        /\ Emit(w, f, <<>>)
        /\ UNCHANGED <<seq_num, unique_table, ite_table, clientVars>>
  BY DEF IteJoin
<1> DEFINE op == f.op   k == Key(op.arg)
           x == [dest |-> op.dest, neg |-> op.arg.neg]
           s == deferred_ite_table[w][k]
           new == <<x>> \o s
           N == Tagged("src", {op.dest})
           t == deferred_ite_table[w]
           i == <<"join", w>>
<1>2. /\ "ITE_LOOKUP" \in Opcodes \ {"ITE_STORE"} /\ RuntimeIn(C) /\ TablesIn(C)
      /\ DOMAIN deferred_ite_table = Worker
  BY DEF Opcodes, DistIn, TablesIn
<1>3. /\ op.code = "ITE_LOOKUP"
      /\ \A y, d : <<y, d>> \in OpTokens(w, op) <=>
                  \/ y = "id" /\ d = op.id
                  \/ y = "src" /\ d \in AnswerSlots(op)
                  \/ y = "store" /\ d \in Stores(w, op)
      /\ OpTokens(w, op) \intersect Part[i] = {}
  BY <1>2, FiringHolds
<1>4. AnswerSlots(op) = {op.dest} /\ Stores(w, op) = {}
  BY <1>3 DEF AnswerSlots, Stores
<1>5. <<"src", op.dest>> \in OpTokens(w, op) /\ <<"src", op.dest>> \notin Part[i]
  <2>1. <<"src", op.dest>> \in OpTokens(w, op)
    BY <1>3, <1>4
  <2> HIDE DEF op, i
  <2> QED BY <1>3, <2>1
<1>6. /\ i \in Index /\ Family[i] = JoinF(w, t) /\ Family'[i] = JoinF(w, deferred_ite_table'[w])
      /\ Part[i] = Held(Family[i]) /\ Part'[i] = Held(Family'[i])
  BY IndexCases, FamilyIs, FamilyThen
<1>7. /\ DOMAIN Family[i] = DOMAIN t /\ Held(WaiterF(s)) \subseteq Part[i]
      /\ Family[i][k] = Tagged("entry", {Entry(w, k)}) \union Held(WaiterF(s))
      /\ k \in DOMAIN t
  <2>1. DOMAIN Family[i] = DOMAIN t /\ k \in DOMAIN t
    BY <1>1, <1>6 DEF JoinF
  <2>2. Family[i][k] = Tagged("entry", {Entry(w, k)}) \union Held(WaiterF(s))
    <3> HIDE DEF k, i
    <3> QED BY <1>6, <2>1 DEF JoinF
  <2>3. Family[i][k] \subseteq Held(Family[i])
    <3> HIDE DEF k, i
    <3> QED BY <2>1 DEF Held
  <2> HIDE DEF k, i, s, t
  <2> QED BY <1>6, <2>1, <2>2, <2>3
<1>8. IsList(s) /\ Apart(WaiterF(s)) /\ ListsApart(w) /\ KeptAt(w)
  <2>1. ListsApart(w) /\ KeptAt(w)
    BY DEF LinInv, Tokens, Kept
  <2> HIDE DEF k
  <2> QED BY <1>2, <1>7, <2>1, WaiterLists DEF ListsApart
<1>9. Held(WaiterF(new)) = N \union Held(WaiterF(s)) /\ Apart(WaiterF(new))
  <2>1. x.dest = op.dest /\ <<"src", x.dest>> \notin Held(WaiterF(s))
    BY <1>5, <1>7
  <2> HIDE DEF x, s, op
  <2> QED BY <1>8, <2>1, WaitersOne
<1>10. /\ deferred_ite_table'[w] = [t EXCEPT ![k] = new]
       /\ \A v \in Worker \ {w} : deferred_ite_table'[v] = deferred_ite_table[v]
  <2> DEFINE tt == [t EXCEPT ![k] = new]
  <2>1. deferred_ite_table' = [deferred_ite_table EXCEPT ![w] = tt]
    BY <1>1
  <2> HIDE DEF tt
  <2>2. /\ deferred_ite_table'[w] = tt
        /\ \A v \in Worker \ {w} : deferred_ite_table'[v] = deferred_ite_table[v]
    BY <1>2, <2>1
  <2> QED BY <2>2 DEF tt
<1> HIDE DEF new, x
<1>11. /\ DOMAIN deferred_ite_table'[w] = DOMAIN t
       /\ deferred_ite_table'[w][k] = new
       /\ \A y \in DOMAIN t \ {k} : deferred_ite_table'[w][y] = t[y]
  <2> HIDE DEF t, k
  <2> QED BY <1>7, <1>10
<1>12. Moves(i, {}, N)
  <2> DEFINE F == Family[i][k]   G == F \union N
  <2>1. DOMAIN Family'[i] = DOMAIN Family[i] \union {k} /\ Family'[i][k] = G
    <3>1. DOMAIN Family'[i] = DOMAIN t
      BY <1>6, <1>11 DEF JoinF
    <3>2. Family'[i][k] = Tagged("entry", {Entry(w, k)}) \union Held(WaiterF(new))
      <4> HIDE DEF k, i, t
      <4> QED BY <1>6, <1>7, <1>11 DEF JoinF
    <3>3. Tagged("entry", {Entry(w, k)}) \union Held(WaiterF(new)) = G
      <4> HIDE DEF N, s, k, i
      <4> QED BY <1>7, <1>9
    <3> HIDE DEF k, i, t, G
    <3> QED BY <1>7, <3>1, <3>2, <3>3
  <2>2. \A y \in DOMAIN Family[i] \ {k} : Family'[i][y] = Family[i][y]
    <3> HIDE DEF k, i, t
    <3> QED BY <1>6, <1>7, <1>11 DEF JoinF
  <2>3. F = IF k \in DOMAIN Family[i] THEN Family[i][k] ELSE {}
    BY <1>7
  <2>4. N \intersect Part[i] = {} /\ F \subseteq Part[i]
    <3>1. \A y \in N : y = <<"src", op.dest>>
      BY Tags
    <3>2. F \subseteq Held(Family[i])
      <4> HIDE DEF k, i, t
      <4> QED BY <1>7 DEF Held
    <3> HIDE DEF N, i, F, op
    <3> QED BY <1>5, <1>6, <3>1, <3>2
  <2>5. G \intersect (Part[i] \ F) = {}
    <3> HIDE DEF N, F, i
    <3> QED BY <2>4
  <2>6. Moves(i, F, G)
    <3> HIDE DEF F, G, k, i
    <3> QED BY <1>6, <2>1, <2>2, <2>3, <2>5, EntryMoves
  <2> HIDE DEF F, N, i
  <2> QED BY <2>4, <2>6 DEF Moves
<1>13. Rejoins(w, {}, N)
  <2>1. \A y \in DOMAIN deferred_ite_table'[w] : Apart(WaiterF(deferred_ite_table'[w][y]))
    <3> HIDE DEF k
    <3> QED BY <1>8, <1>9, <1>11 DEF ListsApart
  <2>2. ite_table' = ite_table
    BY <1>1
  <2>3. DOMAIN ite_table'[w] \intersect DOMAIN deferred_ite_table'[w] = {}
    BY <1>8, <1>11, <2>2 DEF KeptAt
  <2> HIDE DEF N
  <2> QED BY <1>10, <1>12, <2>1, <2>2, <2>3 DEF Rejoins
<1>14. Passes(w, op, <<>>, {}, N)
  <2> DEFINE X == {}   O == OpTokens(w, op)
  <2>1. N \subseteq O \union {}
    BY <1>5, Tags
  <2>2. Paired((O \union {}) \ N)
    <3>1. \A y, d : <<y, d>> \in N <=> y = "src" /\ d = op.dest
      BY Tags
    <3> HIDE DEF O, N, op
    <3> QED BY <1>3, <1>4, <3>1 DEF Paired, O
  <2>3. /\ <<"id", op.id>> \notin N
        /\ \A d : <<"ret", d>> \notin N \union X /\ <<"full", d>> \notin N \union X
    BY Tags
  <2>4. /\ Carries(<<>>, {}) /\ {} \intersect N = {} /\ {} \subseteq Held(Part)
        /\ {} \union N = N \union X /\ X \intersect Held(Part) = {} /\ X \intersect O = {} /\ Paired(X)
    BY CarriesOne DEF Paired
  <2> HIDE DEF X, N, op
  <2> QED BY <2>1, <2>2, <2>3, <2>4, NewPasses DEF O
<1>15. Emit(w, f, <<>>)
  BY <1>1
<1> HIDE DEF N
<1> QED BY <1>2, <1>13, <1>14, <1>15, FireLin

-----------------------------------------------------------------------------
(* Answers to all that wait carry what they wait with.                     *)
LEMMA AnswersCarry ==
    ASSUME NEW s, IsList(s), Apart(WaiterF(s)), NEW r,
           \A n \in DOMAIN s : s[n].dest \in [agent : Agent, id : Id, offset : Nat]
    PROVE  Carries([n \in 1 .. Len(s) |-> Operand(s[n].dest, <<Signed(r, s[n].neg)>>)],
                   Held(WaiterF(s)))
<1> DEFINE more == [n \in 1 .. Len(s) |-> Operand(s[n].dest, <<Signed(r, s[n].neg)>>)]
<1>1. Len(s) \in Nat /\ DOMAIN s = 1 .. Len(s)
  BY DEF IsList
<1>2. ASSUME NEW n \in DOMAIN s
      PROVE  /\ Says(more[n]) /\ more[n].kind # "retire"
             /\ MsgTokens(more[n]) = Tagged("src", {s[n].dest})
  <2>1. more[n] = Operand(s[n].dest, <<Signed(r, s[n].neg)>>)
    BY <1>1
  <2> HIDE DEF more
  <2> QED BY <2>1, OperandOne
<1>3. IsList(more)
  <2> DEFINE T == {more[n] : n \in DOMAIN s}
  <2>1. more \in [1 .. Len(s) -> T]
    <3>1. \A n \in 1 .. Len(s) : more[n] \in T
      BY <1>1
    <3> HIDE DEF T
    <3> QED BY <3>1
  <2> HIDE DEF more
  <2>2. more \in Seq(T)
    BY <1>1, <2>1, SeqDef
  <2> QED BY <2>2 DEF IsList
<1>4. DOMAIN more = DOMAIN s
  BY <1>1
<1> HIDE DEF more
<1>5. ListF(more) = WaiterF(s)
  BY <1>2, <1>4 DEF ListF, WaiterF
<1>6. \A n \in DOMAIN more : Says(more[n]) /\ more[n].kind # "retire"
  BY <1>2, <1>4
<1>7. Carries(more, Held(WaiterF(s)))
  BY <1>3, <1>5, <1>6 DEF Carries
<1> QED BY <1>7 DEF more

(* The result of a triple is sent to all that wait for it.                 *)
LEMMA StoreLin ==
    ASSUME LinInv, NEW C, DistIn(C), NEW w \in Worker, DoIteStore(w)
    PROVE  LinInv'
<1>1. PICK f \in Firings(w, "ITE_STORE") :
        LET k == Key(f.op.arg)  r == f.op.data[3]  waiting == Waiting(w, k) IN
        /\ ref_ite_store(w, k, r)
        /\ RemoveDeferredIte(w, k)
        /\ Emit(w, f, Answering(f.op.dest, Signed(r, f.op.arg.neg))
                      \o [n \in 1 .. Len(waiting) |->
                             Operand(waiting[n].dest, <<Signed(r, waiting[n].neg)>>)])
        /\ UNCHANGED <<seq_num, unique_table, clientVars>>
  BY DEF DoIteStore
<1> DEFINE op == f.op   k == Key(op.arg)   r == op.data[3]
           waiting == Waiting(w, k)   e == Entry(w, k)
           first == Answering(op.dest, Signed(r, op.arg.neg))
           more == [n \in 1 .. Len(waiting) |->
                        Operand(waiting[n].dest, <<Signed(r, waiting[n].neg)>>)]
           t == deferred_ite_table[w]   i == <<"join", w>>
           W == Held(WaiterF(waiting))   S == Tagged("src", {op.dest})
           O == OpTokens(w, op)
<1>2. /\ "ITE_STORE" \in Opcodes /\ RuntimeIn(C) /\ TablesIn(C)
      /\ DOMAIN deferred_ite_table = Worker /\ DOMAIN ite_table = Worker
  BY DEF Opcodes, DistIn, TablesIn
<1>3. /\ op.code = "ITE_STORE" /\ op.dest \in [agent : Agent, id : Id, offset : Nat]
      /\ \A y, d : <<y, d>> \in O <=>
                  \/ y = "id" /\ d = op.id
                  \/ y = "src" /\ d \in AnswerSlots(op)
                  \/ y = "store" /\ d \in Stores(w, op)
      /\ O \intersect Part[i] = {} /\ O \subseteq Held(Part)
  BY <1>2, FiringHolds
<1>4. AnswerSlots(op) = {op.dest} /\ Stores(w, op) = {e}
  BY <1>3 DEF AnswerSlots, Stores
<1>5. /\ i \in Index /\ Family[i] = JoinF(w, t) /\ Family'[i] = JoinF(w, deferred_ite_table'[w])
      /\ Part[i] = Held(Family[i]) /\ Part[i] \subseteq Held(Part)
  <2>1. i \in Index
    BY IndexCases
  <2>2. Part[i] \subseteq Held(Part)
    BY <2>1, PartOf
  <2> QED BY <2>1, <2>2, FamilyIs, FamilyThen
<1>6. k \in DOMAIN t
  <2>1. <<"store", e>> \in Held(Part)
    <3>1. <<"store", e>> \in O
      BY <1>3, <1>4
    <3> HIDE DEF O, e
    <3> QED BY <1>3, <3>1
  <2>2. <<"entry", e>> \in Held(Part)
    <3> HIDE DEF e
    <3> QED BY <2>1 DEF LinInv, Tokens, Paired
  <2>3. PICK j \in Index : \E a \in DOMAIN Family[j] : <<"entry", e>> \in Family[j][a]
    BY <2>2, Holding
  <2>4. PICK a \in DOMAIN Family[j] : <<"entry", e>> \in Family[j][a]
    BY <2>3
  <2>5. PICK v \in Worker : a \in DOMAIN deferred_ite_table[v] /\ e = Entry(v, a)
    <3> HIDE DEF e
    <3> QED BY <2>4, EntryHome
  <2>6. v = w /\ a = k
    <3> HIDE DEF k
    <3> QED BY <2>5 DEF Entry
  <2> QED BY <2>5, <2>6
<1> HIDE DEF k
<1>7. /\ waiting = t[k] /\ DOMAIN Family[i] = DOMAIN t /\ W \subseteq Part[i]
      /\ Family[i][k] = Tagged("entry", {e}) \union W /\ Family[i][k] \subseteq Part[i]
  <2>1. DOMAIN Family[i] = DOMAIN t /\ waiting = t[k]
    BY <1>5, <1>6 DEF JoinF, Waiting
  <2> HIDE DEF waiting, i
  <2>2. Family[i][k] = Tagged("entry", {e}) \union W
    BY <1>5, <1>6, <2>1 DEF JoinF
  <2>3. Family[i][k] \subseteq Held(Family[i])
    BY <1>6, <2>1 DEF Held
  <2> HIDE DEF W, e, t
  <2> QED BY <1>5, <2>1, <2>2, <2>3
<1>8. ListsApart(w) /\ KeptAt(w)
  BY DEF LinInv, Tokens, Kept
<1>9. Carries(more, W)
  <2>1. /\ IsList(waiting) /\ Apart(WaiterF(waiting))
        /\ \A n \in DOMAIN waiting : waiting[n].dest \in [agent : Agent, id : Id, offset : Nat]
    <3>1. Apart(WaiterF(t[k]))
      BY <1>6, <1>8 DEF ListsApart
    <3>2. /\ IsList(t[k])
          /\ \A n \in DOMAIN t[k] : t[k][n].dest \in [agent : Agent, id : Id, offset : Nat]
      BY <1>2, <1>6, WaiterLists
    <3> HIDE DEF waiting, t
    <3> QED BY <1>7, <3>1, <3>2
  <2> HIDE DEF waiting, r
  <2> QED BY <2>1, AnswersCarry
<1>10. Carries(first, S)
  <2> DEFINE m == Operand(op.dest, <<Signed(r, op.arg.neg)>>)
  <2>1. Says(m) /\ m.kind = "operand" /\ MsgTokens(m) = S
    <3> HIDE DEF r
    <3> QED BY <1>3, OperandOne
  <2>2. first = <<m>>
    BY DEF Answering
  <2> HIDE DEF m, first, S
  <2> QED BY <2>1, <2>2, CarriesOne
<1>11. S \subseteq O /\ S \intersect W = {} /\ \A y, d : <<y, d>> \in S <=> y = "src" /\ d = op.dest
  <2>1. \A y \in S : y \in O
    BY <1>3, <1>4, Tags
  <2>2. \A y, d : <<y, d>> \in S <=> y = "src" /\ d = op.dest
    BY Tags
  <2> HIDE DEF S, O, W, i
  <2> QED BY <1>3, <1>7, <2>1, <2>2
<1>12. Carries(first \o more, S \union W)
  <2> HIDE DEF first, more, S, W
  <2> QED BY <1>9, <1>10, <1>11, CarriesCat
<1> DEFINE Rj == Tagged("entry", {e}) \union W
<1>13. /\ deferred_ite_table'[w] = Restrict(t, DOMAIN t \ {k})
       /\ ite_table'[w] = keyvalue_insert(ite_table[w], k, r)
       /\ \A v \in Worker \ {w} : /\ deferred_ite_table'[v] = deferred_ite_table[v]
                                  /\ ite_table'[v] = ite_table[v]
  <2>1. /\ ite_table' = [ite_table EXCEPT ![w] = keyvalue_insert(@, k, r)]
        /\ deferred_ite_table' = [deferred_ite_table EXCEPT ![w] = Restrict(@, DOMAIN @ \ {k})]
    BY <1>1 DEF ref_ite_store, RemoveDeferredIte, k
  <2> HIDE DEF r
  <2> QED BY <1>2, <2>1
<1>14. /\ DOMAIN deferred_ite_table'[w] = DOMAIN t \ {k}
       /\ \A y \in DOMAIN t \ {k} : deferred_ite_table'[w][y] = t[y]
       /\ DOMAIN ite_table'[w] = DOMAIN ite_table[w] \union {k}
  <2> HIDE DEF t, r
  <2> QED BY <1>13 DEF Restrict, keyvalue_insert
<1>15. Moves(i, Rj, {})
  <2>1. DOMAIN Family'[i] = DOMAIN Family[i] \ {k}
    BY <1>5, <1>7, <1>14 DEF JoinF
  <2>2. \A y \in DOMAIN Family'[i] : Family'[i][y] = Family[i][y]
    <3> HIDE DEF t, i
    <3> QED BY <1>5, <1>7, <1>14, <2>1 DEF JoinF
  <2>3. Rj = IF k \in DOMAIN Family[i] THEN Family[i][k] ELSE {}
    BY <1>6, <1>7
  <2> HIDE DEF Rj, i
  <2> QED BY <1>5, <2>1, <2>2, <2>3, EntryGoes
<1>16. Rejoins(w, Rj, {})
  <2>1. \A y \in DOMAIN deferred_ite_table'[w] : Apart(WaiterF(deferred_ite_table'[w][y]))
    <3> HIDE DEF t
    <3> QED BY <1>8, <1>14 DEF ListsApart, t
  <2>2. DOMAIN ite_table'[w] \intersect DOMAIN deferred_ite_table'[w] = {}
    BY <1>8, <1>14 DEF KeptAt
  <2> HIDE DEF Rj
  <2> QED BY <1>13, <1>15, <2>1, <2>2 DEF Rejoins
<1>17. Passes(w, op, first \o more, Rj, {})
  <2> DEFINE X == {}   P == S \union W
  <2>1. P \subseteq O \union Rj /\ Rj \subseteq Held(Part)
    <3> HIDE DEF O, S, W
    <3> QED BY <1>5, <1>7, <1>11
  <2>2. ASSUME NEW y, NEW d, <<y, d>> \in W PROVE y = "src"
    <3> HIDE DEF waiting
    <3>1. <<y, d>> \in Held(WaiterF(waiting)) <=> y = "src" /\ \E n \in DOMAIN waiting : d = waiting[n].dest
      BY ListHas
    <3> QED BY <2>2, <3>1
  <2>3. \A y, d : <<y, d>> \in Rj <=> (y = "entry" /\ d = e) \/ <<y, d>> \in W
    <3> HIDE DEF W
    <3> QED BY Tags
  <2>4. Paired((O \union Rj) \ P)
    <3> HIDE DEF O, Rj, S, W, e
    <3> QED BY <1>3, <1>4, <1>11, <2>2, <2>3 DEF Paired, O
  <2>5. /\ <<"id", op.id>> \notin P
        /\ \A d : <<"ret", d>> \notin P \union X /\ <<"full", d>> \notin P \union X
    <3> HIDE DEF S, W
    <3> QED BY <1>11, <2>2
  <2>6. /\ P \intersect {} = {} /\ P \union {} = P \union X
        /\ X \intersect Held(Part) = {} /\ X \intersect O = {} /\ Paired(X)
    BY DEF Paired
  <2>7. Carries(first \o more, P)
    BY <1>12
  <2> HIDE DEF X, P, op, Rj, first, more
  <2> QED BY <2>1, <2>4, <2>5, <2>6, <2>7, NewPasses DEF O
<1>18. Emit(w, f, first \o more)
  BY <1>1 DEF k
<1> HIDE DEF Rj, first, more
<1> QED BY <1>2, <1>16, <1>17, <1>18, FireLin

-----------------------------------------------------------------------------
(* The identifiers of several operators, by the ranks of what they are for.*)
LEMMA RanksDiffer ==
    ASSUME NEW m \in Nat, NEW S \in SUBSET (1 .. m), NEW b \in S, NEW c \in S,
           Cardinality({j \in S : j =< b}) = Cardinality({j \in S : j =< c})
    PROVE  b = c
<1>1. IsFiniteSet(S)
  <2>1. IsFiniteSet(1 .. m)
    <3>1. 1 \in Int /\ m \in Int
      OBVIOUS
    <3> QED BY <3>1, FS_Interval
  <2> DEFINE I == 1 .. m
  <2>2. S \subseteq I
    OBVIOUS
  <2> HIDE DEF I
  <2> QED BY <2>1, <2>2, FS_Subset DEF I
<1>2. ASSUME NEW x \in S, NEW y \in S, x < y,
             Cardinality({j \in S : j =< x}) = Cardinality({j \in S : j =< y})
      PROVE  FALSE
  <2> DEFINE A == {j \in S : j =< x}   B == {j \in S : j =< y}
  <2>1. x \in Nat /\ y \in Nat /\ \A j \in S : j \in Nat
    OBVIOUS
  <2>2. A \subseteq B /\ y \in B /\ y \notin A /\ B \subseteq S
    <3>1. \A j \in S : j =< x => j =< y
      <4> SUFFICES ASSUME NEW j \in S, j =< x PROVE j =< y
        OBVIOUS
      <4>1. j \in Nat /\ x \in Nat /\ y \in Nat
        BY <2>1
      <4> QED BY <1>2, <4>1
    <3>2. A \subseteq B
      BY <3>1
    <3>3. y =< y /\ ~(y =< x)
      BY <1>2, <2>1
    <3>4. y \in B /\ y \notin A
      BY <3>3
    <3> QED BY <3>2, <3>4
  <2>3. Cardinality(A) = Cardinality(B)
    BY <1>2
  <2> HIDE DEF A, B
  <2>4. IsFiniteSet(B)
    BY <1>1, <2>2, FS_Subset
  <2>5. Cardinality(A) # Cardinality(B)
    BY <2>2, <2>4, FS_Subset
  <2> QED BY <2>3, <2>5
<1>3. b \in Nat /\ c \in Nat
  OBVIOUS
<1>4. CASE b < c
  BY <1>2, <1>4
<1>5. CASE c < b
  BY <1>2, <1>5
<1> QED BY <1>3, <1>4, <1>5

(* The tokens of operators as the handlers make them.                      *)
LEMMA MadeTokens ==
    ASSUME NEW a, NEW op, op.code # "RETRIEVE_LOOKUP", NEW D,
           \A d : d \in D <=> \E o \in Slots(op.code) \ DOMAIN op.data : d = Destination(a, op.id, o)
    PROVE  \A t, d : <<t, d>> \in OpTokens(a, op) <=>
               \/ t = "id" /\ d = op.id
               \/ t = "src" /\ d = op.dest
               \/ t = "snk" /\ d \in D
               \/ t = "store" /\ op.code = "ITE_STORE" /\ d = Entry(a, Key(op.arg))
<1>1. AnswerSlots(op) = {op.dest} /\ \A d : d \in Sinks(a, op) <=> d \in D
  BY DEF AnswerSlots, Sinks
<1>2. \A d : d \in Stores(a, op) <=> op.code = "ITE_STORE" /\ d = Entry(a, Key(op.arg))
  BY DEF Stores
<1>3. ASSUME NEW t, NEW d
      PROVE  <<t, d>> \in OpTokens(a, op) <=>
               \/ t = "id" /\ d = op.id
               \/ t = "src" /\ d = op.dest
               \/ t = "snk" /\ d \in D
               \/ t = "store" /\ op.code = "ITE_STORE" /\ d = Entry(a, Key(op.arg))
  <2>1. <<t, d>> \in OpTokens(a, op) <=>
               \/ t = "id" /\ d = op.id
               \/ t = "src" /\ d \in AnswerSlots(op)
               \/ t = "snk" /\ d \in Sinks(a, op)
               \/ t = "store" /\ d \in Stores(a, op)
    BY OpHas
  <2> QED BY <1>1, <1>2, <2>1
<1> QED BY <1>3

(* The tokens of an operator that waits for nothing.                       *)
LEMMA BareTokens ==
    ASSUME NEW a, NEW code \in Opcodes, code \notin {"RETRIEVE_LOOKUP", "ITE_STORE"},
           Slots(code) = {}, NEW id, NEW dest, NEW arg
    PROVE  LET m == Operation(a, Operator(code, id, dest, arg))
           IN  /\ Says(m) /\ m.kind = "operation"
               /\ MsgTokens(m) = {<<"id", id>>, <<"src", dest>>}
<1> DEFINE op == Operator(code, id, dest, arg)   m == Operation(a, op)
<1>1. op.code = code /\ op.id = id /\ op.dest = dest /\ op.data = <<>>
  BY DEF Operator
<1> HIDE DEF op
<1>2. Says(m) /\ m.kind = "operation" /\ MsgTokens(m) = OpTokens(a, op)
  BY <1>1, OperationSays
<1> DEFINE D == {Destination(a, op.id, o) : o \in Slots(op.code) \ DOMAIN op.data}
<1>3. D = {} /\ \A d : d \in D <=> \E o \in Slots(op.code) \ DOMAIN op.data : d = Destination(a, op.id, o)
  BY <1>1
<1> HIDE DEF D
<1>4. \A t, d : <<t, d>> \in OpTokens(a, op) <=>
               \/ t = "id" /\ d = op.id
               \/ t = "src" /\ d = op.dest
               \/ t = "snk" /\ d \in D
               \/ t = "store" /\ op.code = "ITE_STORE" /\ d = Entry(a, Key(op.arg))
  BY <1>1, <1>3, MadeTokens
<1>5. \A x : x \in OpTokens(a, op) => \E t, d : x = <<t, d>>
  BY Pairs
<1>6. OpTokens(a, op) = {<<"id", id>>, <<"src", dest>>}
  <2>1. \A x \in OpTokens(a, op) : x \in {<<"id", id>>, <<"src", dest>>}
    <3> SUFFICES ASSUME NEW t, NEW d, <<t, d>> \in OpTokens(a, op)
                 PROVE  <<t, d>> \in {<<"id", id>>, <<"src", dest>>}
      BY <1>5
    <3> QED BY <1>1, <1>3, <1>4
  <2>2. <<"id", id>> \in OpTokens(a, op) /\ <<"src", dest>> \in OpTokens(a, op)
    BY <1>1, <1>4
  <2> QED BY <2>1, <2>2
<1> HIDE DEF m
<1>7. Says(m) /\ m.kind = "operation" /\ MsgTokens(m) = {<<"id", id>>, <<"src", dest>>}
  BY <1>2, <1>6
<1> QED BY <1>7 DEF m, op

-----------------------------------------------------------------------------
(* The two branches of a triple, and the operator that puts them together. *)
LEMMA RecurseLin ==
    ASSUME LinInv, NEW C, DistIn(C), Rising, NEW w \in Worker, DoIteRecurse(w)
    PROVE  LinInv'
<1>1. PICK f \in Firings(w, "ITE_RECURSE") :
      \E branch \in {<<Branch(f.op.data, 1), Branch(f.op.data, 2)>>} :
        /\ LET op == f.op
               open == {b \in 1 .. 2 : ~branch[b].done}
               canonize == [Operator("CANONIZE", NewId(w, 0), op.dest, op.arg) EXCEPT !.data =
                               [b \in (1 .. 2) \ open |-> Signed(branch[b].t, branch[b].neg)]]
               Lookup(b) == build_ite_lookup(NewId(w, Cardinality({j \in open : j <= b})),
                                             Destination(w, NewId(w, 0), b),
                                             branch[b], branch[b].neg)
           IN
           /\ Emit(w, f, Only(1 \in open, Lookup(1)) \o Only(2 \in open, Lookup(2))
                         \o <<Operation(w, canonize)>>)
           /\ UseIds(w, 1 + Cardinality(open))
        /\ UNCHANGED <<tableVars, clientVars>>
  BY DEF DoIteRecurse
<1> DEFINE op == f.op   dest == op.dest   arg == op.arg
           branch == <<Branch(f.op.data, 1), Branch(f.op.data, 2)>>
           open == {b \in 1 .. 2 : ~branch[b].done}
           data == [b \in (1 .. 2) \ open |-> Signed(branch[b].t, branch[b].neg)]
           n0 == NewId(w, 0)
           canonize == [Operator("CANONIZE", n0, dest, arg) EXCEPT !.data = data]
           Rank(b) == Cardinality({j \in open : j <= b})
           I(b) == NewId(w, Rank(b))
           S(b) == Destination(w, n0, b)
           Lookup(b) == build_ite_lookup(I(b), S(b), branch[b], branch[b].neg)
           last == Operation(w, canonize)
           ms == Only(1 \in open, Lookup(1)) \o Only(2 \in open, Lookup(2)) \o <<last>>
           O == OpTokens(w, op)
<1>2. Emit(w, f, ms) /\ UseIds(w, 1 + Cardinality(open)) /\ UNCHANGED <<tableVars, clientVars>>
  BY <1>1
<1>3. /\ "ITE_RECURSE" \in Opcodes /\ RuntimeIn(C) /\ TablesIn(C) /\ ClientsIn(C)
      /\ Slots("CANONIZE") = 1 .. 2 /\ Slots("ITE_LOOKUP") = {} /\ "ITE_LOOKUP" \in Opcodes
  <2>1. Slots("CANONIZE") = {1, 2} /\ Slots("ITE_LOOKUP") = {}
    BY IteAssumption DEF Opcodes, IteSlots
  <2>2. {1, 2} = 1 .. 2
    OBVIOUS
  <2> QED BY <2>1, <2>2 DEF Opcodes, DistIn
<1>4. /\ op.code = "ITE_RECURSE" /\ OperatorIn(C, op, w) /\ Issued(C, dest.id)
      /\ \A t, d : <<t, d>> \in O <=>
                  \/ t = "id" /\ d = op.id
                  \/ t = "src" /\ d \in AnswerSlots(op)
                  \/ t = "store" /\ d \in Stores(w, op)
  BY <1>3, FiringHolds
<1>5. AnswerSlots(op) = {dest} /\ Stores(w, op) = {}
  BY <1>4 DEF AnswerSlots, Stores
<1>6. open \subseteq 1 .. 2 /\ open \in SUBSET (1 .. 2)
  OBVIOUS
<1> HIDE DEF branch, open
<1>7. Cardinality(open) \in 0 .. 2 /\ \A b \in open : Rank(b) \in 1 .. Cardinality(open)
  BY <1>6, Ranks
<1> DEFINE n == 1 + Cardinality(open)
<1>8. n \in 1 .. 5 /\ w \in Agent /\ UseIds(w, n) /\ 0 \in 0 .. (n - 1)
      /\ \A b \in open : Rank(b) \in 0 .. (n - 1) /\ Rank(b) # 0
  <2> HIDE DEF Rank
  <2> QED BY <1>2, <1>7 DEF Agent
<1>9. /\ ~Issued(C, n0) /\ \A b \in open : ~Issued(C, I(b)) /\ I(b) # n0
      /\ 1 \in open /\ 2 \in open => I(1) # I(2)
  <2>1. /\ \A k \in 0 .. (n - 1) : ~Issued(C, NewId(w, k))
        /\ \A j, k \in 0 .. (n - 1) : NewId(w, j) = NewId(w, k) => j = k
    <3> HIDE DEF n
    <3> QED BY <1>8, NewIds
  <2>2. 1 \in open /\ 2 \in open => Rank(1) # Rank(2)
    <3>1. 2 \in Nat
      OBVIOUS
    <3> SUFFICES ASSUME 1 \in open, 2 \in open, Rank(1) = Rank(2) PROVE FALSE
      OBVIOUS
    <3>2. 1 = 2
      BY <1>6, <3>1, RanksDiffer
    <3> QED BY <3>2
  <2> HIDE DEF n, Rank
  <2> QED BY <1>8, <2>1, <2>2
<1>10. \A b, c : S(b).id = n0 /\ (S(b) = S(c) => b = c)
  BY DEF Destination
<1> HIDE DEF n0, S, Rank, I
<1>11. \A b : /\ Says(Lookup(b)) /\ Lookup(b).kind = "operation"
              /\ MsgTokens(Lookup(b)) = {<<"id", I(b)>>, <<"src", S(b)>>}
  <2> SUFFICES ASSUME NEW b
               PROVE  /\ Says(Lookup(b)) /\ Lookup(b).kind = "operation"
                      /\ MsgTokens(Lookup(b)) = {<<"id", I(b)>>, <<"src", S(b)>>}
    OBVIOUS
  <2> DEFINE x == branch[b]
  <2> HIDE DEF x
  <2>1. Lookup(b) = Operation(HomeTriple(x.i, x.t, x.e),
                              Operator("ITE_LOOKUP", I(b), S(b),
                                       [i |-> x.i, t |-> x.t, e |-> x.e, neg |-> x.neg]))
    BY DEF build_ite_lookup, x
  <2> HIDE DEF Lookup
  <2> QED BY <1>3, <2>1, BareTokens
<1> HIDE DEF Lookup
<1> DEFINE V == {<<"snk", S(b)>> : b \in open}
           T(b) == IF b \in open THEN {<<"id", I(b)>>, <<"src", S(b)>>} ELSE {}
           L == {<<"id", n0>>, <<"src", dest>>} \union V
<1>12. Says(last) /\ last.kind = "operation" /\ MsgTokens(last) = L
  <2>1. /\ canonize.code = "CANONIZE" /\ canonize.id = n0 /\ canonize.dest = dest
        /\ DOMAIN canonize.data = (1 .. 2) \ open
    <3> HIDE DEF dest, arg
    <3> QED BY DEF Operator
  <2> HIDE DEF canonize
  <2>2. Says(last) /\ last.kind = "operation" /\ MsgTokens(last) = OpTokens(w, canonize)
    BY OperationSays
  <2> DEFINE D == {Destination(w, canonize.id, o) : o \in Slots(canonize.code) \ DOMAIN canonize.data}
  <2>3. D = {S(b) : b \in open}
    <3>1. Slots(canonize.code) \ DOMAIN canonize.data = open
      BY <1>3, <1>6, <2>1
    <3> QED BY <2>1, <3>1 DEF S
  <2>9. \A d : d \in D <=> \E o \in Slots(canonize.code) \ DOMAIN canonize.data :
                                d = Destination(w, canonize.id, o)
    OBVIOUS
  <2>4. \A t, d : <<t, d>> \in OpTokens(w, canonize) <=>
               \/ t = "id" /\ d = canonize.id
               \/ t = "src" /\ d = canonize.dest
               \/ t = "snk" /\ d \in D
               \/ t = "store" /\ canonize.code = "ITE_STORE" /\ d = Entry(w, Key(canonize.arg))
    <3> HIDE DEF D
    <3> QED BY <2>1, <2>9, MadeTokens
  <2>5. \A x : x \in OpTokens(w, canonize) => \E t, d : x = <<t, d>>
    BY Pairs
  <2> HIDE DEF D
  <2>6. \A x \in OpTokens(w, canonize) : x \in L
    <3> SUFFICES ASSUME NEW t, NEW d, <<t, d>> \in OpTokens(w, canonize) PROVE <<t, d>> \in L
      BY <2>5
    <3> QED BY <2>1, <2>3, <2>4
  <2>7. \A x \in L : x \in OpTokens(w, canonize)
    BY <2>1, <2>3, <2>4
  <2>8. OpTokens(w, canonize) = L
    <3> HIDE DEF L
    <3> QED BY <2>6, <2>7
  <2> HIDE DEF L, last
  <2> QED BY <2>2, <2>8
<1> HIDE DEF last, dest
<1>13. Carries(ms, T(1) \union T(2) \union L)
  <2>1. (1 \in open) \in BOOLEAN /\ (2 \in open) \in BOOLEAN
    OBVIOUS
  <2>2. Carries(Only(1 \in open, Lookup(1)), T(1)) /\ Carries(Only(2 \in open, Lookup(2)), T(2))
    <3>1. ASSUME NEW b PROVE Carries(Only(b \in open, Lookup(b)), T(b))
      <4>1. b \in open => Says(Lookup(b)) /\ Lookup(b).kind # "retire" /\ T(b) = MsgTokens(Lookup(b))
        BY <1>11
      <4>2. b \notin open => T(b) = {}
        OBVIOUS
      <4>3. (b \in open) \in BOOLEAN
        OBVIOUS
      <4> HIDE DEF T
      <4> QED BY <4>1, <4>2, <4>3, CarriesOnly
    <3> QED BY <3>1
  <2>3. Carries(<<last>>, L)
    <3> HIDE DEF L
    <3> QED BY <1>12, CarriesOne
  <2>4. T(1) \intersect T(2) = {}
    BY <1>9, <1>10
  <2>5. (T(1) \union T(2)) \intersect L = {}
    <3>1. \A b \in open : S(b) # dest
      BY <1>4, <1>9, <1>10
    <3> QED BY <1>9, <3>1
  <2> HIDE DEF T, L
  <2>6. Carries(Only(1 \in open, Lookup(1)) \o Only(2 \in open, Lookup(2)), T(1) \union T(2))
    BY <2>2, <2>4, CarriesCat
  <2> DEFINE s == Only(1 \in open, Lookup(1)) \o Only(2 \in open, Lookup(2))
             TT == T(1) \union T(2)
  <2> HIDE DEF s, TT
  <2>7. Carries(s \o <<last>>, TT \union L)
    BY <2>3, <2>5, <2>6, CarriesCat DEF s, TT
  <2> QED BY <2>7 DEF s, TT
<1>14. Passes(w, op, ms, {}, {})
  <2> DEFINE P == {<<"src", dest>>}   Y == T(1) \union T(2) \union L
             X == T(1) \union T(2) \union {<<"id", n0>>} \union V
  <2>1. Y \union {} = P \union X
    OBVIOUS
  <2>2. \A x \in X : \E t, d : x = <<t, d>> /\ ~Dated(C, t, d)
    <3>1. ASSUME NEW b \in open, NEW x \in {<<"id", I(b)>>, <<"src", S(b)>>}
          PROVE  \E t, d : x = <<t, d>> /\ ~Dated(C, t, d)
      BY <1>9, <1>10 DEF Dated
    <3>2. ASSUME NEW x \in V PROVE \E t, d : x = <<t, d>> /\ ~Dated(C, t, d)
      BY <1>9, <1>10 DEF Dated
    <3>3. \E t, d : <<"id", n0>> = <<t, d>> /\ ~Dated(C, t, d)
      BY <1>9 DEF Dated
    <3> QED BY <3>1, <3>2, <3>3
  <2>3. X \intersect Held(Part) = {} /\ X \intersect O = {}
    <3> HIDE DEF X, op
    <3> QED BY <1>3, <1>4, <2>2, FreshApart
  <2>4. P \subseteq O \union {} /\ Paired((O \union {}) \ P)
    <3> HIDE DEF O
    <3> QED BY <1>4, <1>5 DEF Paired, O
  <2>5. Paired(X)
    <3>1. \A d : <<"src", d>> \in X <=> \E b \in open : d = S(b)
      <4>1. ASSUME NEW d, <<"src", d>> \in X PROVE \E b \in open : d = S(b)
        BY <4>1
      <4>2. ASSUME NEW b \in open PROVE <<"src", S(b)>> \in X
        <5>1. b = 1 \/ b = 2
          BY <1>6
        <5> QED BY <5>1
      <4> QED BY <4>1, <4>2
    <3>2. \A d : <<"snk", d>> \in X <=> \E b \in open : d = S(b)
      OBVIOUS
    <3>3. \A d : /\ <<"ret", d>> \notin X /\ <<"full", d>> \notin X
                 /\ <<"store", d>> \notin X /\ <<"entry", d>> \notin X
      OBVIOUS
    <3> HIDE DEF X
    <3> QED BY <3>1, <3>2, <3>3 DEF Paired
  <2>6. /\ <<"id", op.id>> \notin P
        /\ \A d : <<"ret", d>> \notin P \union X /\ <<"full", d>> \notin P \union X
    OBVIOUS
  <2>7. Y \intersect {} = {} /\ {} \subseteq Held(Part) /\ Carries(ms, Y)
    BY <1>13
  <2> HIDE DEF Y, X, P, op, ms
  <2> QED BY <2>1, <2>3, <2>4, <2>5, <2>6, <2>7, NewPasses DEF O
<1>15. Rejoins(w, {}, {})
  BY <1>2, NoRejoin DEF tableVars
<1>16. Emit(w, f, ms)
  BY <1>2 DEF Lookup, last, I, S, Rank, n0, open, dest
<1> HIDE DEF ms
<1> QED BY <1>3, <1>14, <1>15, <1>16, FireLin

-----------------------------------------------------------------------------
(* The slots that the arguments of far workers fill, two for each.         *)
LEMMA FarSlots ==
    ASSUME NEW far \in SUBSET (1 .. 3), NEW near,
           near = UNION {{2 * n - 1, 2 * n} : n \in (1 .. 3) \ far}
    PROVE  \A o : o \in (1 .. 6) \ near <=> \E n \in far : o = 2 * n - 1 \/ o = 2 * n
<1>1. \A o : o \in near <=> \E n \in (1 .. 3) \ far : o = 2 * n - 1 \/ o = 2 * n
  OBVIOUS
<1>2. \A o \in 1 .. 6 : \E n \in 1 .. 3 : o = 2 * n - 1 \/ o = 2 * n
  <2> SUFFICES ASSUME NEW o \in 1 .. 6 PROVE \E n \in 1 .. 3 : o = 2 * n - 1 \/ o = 2 * n
    OBVIOUS
  <2>1. \/ o = 2 * 1 - 1 \/ o = 2 * 1 \/ o = 2 * 2 - 1 \/ o = 2 * 2 \/ o = 2 * 3 - 1 \/ o = 2 * 3
    OBVIOUS
  <2>2. 1 \in 1 .. 3 /\ 2 \in 1 .. 3 /\ 3 \in 1 .. 3
    OBVIOUS
  <2> QED BY <2>1, <2>2
<1>3. \A n, j \in 1 .. 3 : \A o : (o = 2 * n - 1 \/ o = 2 * n) /\ (o = 2 * j - 1 \/ o = 2 * j) => n = j
  <2> SUFFICES ASSUME NEW n \in 1 .. 3, NEW j \in 1 .. 3, NEW o,
                      o = 2 * n - 1 \/ o = 2 * n, o = 2 * j - 1 \/ o = 2 * j
               PROVE  n = j
    OBVIOUS
  <2>1. (o + 1) \div 2 = n /\ (o + 1) \div 2 = j
    BY SlotPairs
  <2> QED BY <2>1
<1>4. \A n \in 1 .. 3 : \A o : o = 2 * n - 1 \/ o = 2 * n => o \in 1 .. 6
  BY SlotPairs
<1>5. ASSUME NEW o \in (1 .. 6) \ near PROVE \E n \in far : o = 2 * n - 1 \/ o = 2 * n
  BY <1>1, <1>2
<1>6. ASSUME NEW o, NEW n \in far, o = 2 * n - 1 \/ o = 2 * n PROVE o \in (1 .. 6) \ near
  <2>1. o \in 1 .. 6 /\ n \in 1 .. 3
    BY <1>4, <1>6
  <2>2. o \notin near
    BY <1>1, <1>3, <1>6, <2>1
  <2> QED BY <2>1, <2>2
<1> QED BY <1>5, <1>6

(* The tokens of a request for the branches of a node.                     *)
LEMMA RetrieveTokens ==
    ASSUME NEW id, NEW dest, NEW next, next = [dest EXCEPT !.offset = @ + 1], NEW r
    PROVE  LET m == build_retrieve_lookup(id, dest, r)
           IN  /\ Says(m) /\ m.kind = "operation"
               /\ \A t, d : <<t, d>> \in MsgTokens(m) <=>
                      \/ t = "id" /\ d = id
                      \/ t = "src" /\ d \in {dest, next}
<1> DEFINE op == Operator("RETRIEVE_LOOKUP", id, dest, [ref |-> r])   a == HomeRef(r)
           m == Operation(a, op)
<1>1. /\ op.code = "RETRIEVE_LOOKUP" /\ op.id = id /\ op.dest = dest
      /\ Slots("RETRIEVE_LOOKUP") = {}
  BY IteAssumption DEF Operator, Opcodes, IteSlots
<1> HIDE DEF op, a
<1>2. Says(m) /\ m.kind = "operation" /\ MsgTokens(m) = OpTokens(a, op)
  BY <1>1, OperationSays
<1>3. /\ AnswerSlots(op) = {dest, next}
      /\ Sinks(a, op) = {} /\ Stores(a, op) = {}
  BY <1>1 DEF AnswerSlots, Sinks, Stores
<1>4. \A t, d : <<t, d>> \in OpTokens(a, op) <=>
          \/ t = "id" /\ d = id
          \/ t = "src" /\ d \in {dest, next}
  BY <1>1, <1>3, OpHas
<1>5. m = build_retrieve_lookup(id, dest, r)
  BY DEF build_retrieve_lookup, op, a
<1> HIDE DEF m
<1> QED BY <1>2, <1>4, <1>5

-----------------------------------------------------------------------------
(* A triple is split: the arguments of other workers are asked for, and    *)
(* the triple is marked as being computed.                                 *)
LEMMA SplitLin ==
    ASSUME LinInv, NEW C, DistIn(C), Rising, NEW w \in Worker, IteSplit(w)
    PROVE  LinInv'
<1>1. PICK f \in Firings(w, "ITE_LOOKUP") : \E split \in {Split[Key(f.op.arg)]} :
        /\ LET op   == f.op
               k    == Key(op.arg)
               near == UNION {{2 * n - 1, 2 * n} : n \in (1 .. 3) \ split.far}
               store   == Operator("ITE_STORE", NewId(w, 0), op.dest, op.arg)
               recurse == [Operator("ITE_RECURSE", NewId(w, 1),
                                    Destination(w, NewId(w, 0), 3), [var |-> split.var])
                           EXCEPT !.data = [o \in near |->
                                      split.branches[(o + 1) \div 2][2 - (o % 2)]]]
               Retrieve(n) == build_retrieve_lookup(
                                  NewId(w, 1 + Cardinality({j \in split.far : j <= n})),
                                  Destination(w, NewId(w, 1), 2 * n - 1), k[n])
           IN
           /\ ref_ite_lookup(w, k) = {}
           /\ k \notin DOMAIN deferred_ite_table[w]
           /\ deferred_ite_table' = [deferred_ite_table EXCEPT ![w] =
                                         keyvalue_insert(@, k, <<>>)]
           /\ Emit(w, f, Only(1 \in split.far, Retrieve(1)) \o Only(2 \in split.far, Retrieve(2))
                         \o Only(3 \in split.far, Retrieve(3))
                         \o <<Operation(w, store), Operation(w, recurse)>>)
           /\ UseIds(w, 2 + Cardinality(split.far))
        /\ UNCHANGED <<unique_table, ite_table, clientVars>>
  BY DEF IteSplit
<1> DEFINE op   == f.op
           k    == Key(op.arg)
           dest == op.dest
           split == Split[k]
           v    == split.var
           far  == split.far
           near == UNION {{2 * n - 1, 2 * n} : n \in (1 .. 3) \ far}
           data == [o \in near |-> split.branches[(o + 1) \div 2][2 - (o % 2)]]
           n0 == NewId(w, 0)   n1 == NewId(w, 1)
           D0 == Destination(w, n0, 3)
           D(o) == Destination(w, n1, o)
           store   == Operator("ITE_STORE", n0, dest, op.arg)
           recurse == [Operator("ITE_RECURSE", n1, D0, [var |-> v]) EXCEPT !.data = data]
           Rank(n) == Cardinality({j \in far : j =< n})
           I(n) == NewId(w, 1 + Rank(n))
           Retrieve(n) == build_retrieve_lookup(I(n), D(2 * n - 1), k[n])
           ms == Only(1 \in far, Retrieve(1)) \o Only(2 \in far, Retrieve(2))
                     \o Only(3 \in far, Retrieve(3)) \o <<Operation(w, store), Operation(w, recurse)>>
           e == Entry(w, k)
           t == deferred_ite_table[w]   i == <<"join", w>>
           O == OpTokens(w, op)
<1>2. /\ Emit(w, f, ms) /\ UseIds(w, 2 + Cardinality(far))
      /\ ref_ite_lookup(w, k) = {} /\ k \notin DOMAIN t
      /\ deferred_ite_table' = [deferred_ite_table EXCEPT ![w] = keyvalue_insert(@, k, <<>>)]
      /\ UNCHANGED <<unique_table, ite_table, clientVars>>
  BY <1>1
<1>3. /\ "ITE_LOOKUP" \in Opcodes \ {"ITE_STORE"} /\ RuntimeIn(C) /\ TablesIn(C) /\ ClientsIn(C)
      /\ DOMAIN deferred_ite_table = Worker
  BY DEF Opcodes, DistIn, TablesIn
<1>4. /\ op.code = "ITE_LOOKUP" /\ OperatorIn(C, op, w) /\ Issued(C, dest.id)
      /\ \A y, d : <<y, d>> \in O <=>
                  \/ y = "id" /\ d = op.id
                  \/ y = "src" /\ d \in AnswerSlots(op)
                  \/ y = "store" /\ d \in Stores(w, op)
  BY <1>3, FiringHolds
<1>5. AnswerSlots(op) = {dest} /\ Stores(w, op) = {}
  BY <1>4 DEF AnswerSlots, Stores
<1>6. far \in SUBSET (1 .. 3)
  <2>1. Task(C, op, w)
    BY <1>4 DEF OperatorIn
  <2>2. k \in Triples /\ k[1] # REF_ONE /\ k[1] # REF_ZERO
    <3>1. /\ k = <<op.arg.i, op.arg.t, op.arg.e>>
          /\ \A n \in 1 .. 3 : StoredIn(C, k[n]) /\ k[n] \in Ref
          /\ k[1] # REF_ONE /\ k[1] # REF_ZERO /\ k \in Triples
      BY <1>4, <2>1 DEF Task, Key, StoredIn, Triples
    <3> QED BY <3>1
  <2> HIDE DEF k
  <2> QED BY <2>2, SplitBranches DEF Triples
<1> HIDE DEF split
<1>7. Cardinality(far) \in 0 .. 3 /\ \A n \in far : Rank(n) \in 1 .. Cardinality(far)
  <2> HIDE DEF far
  <2> QED BY <1>6, Ranks
<1> DEFINE size == 2 + Cardinality(far)
<1>8. size \in 1 .. 5 /\ w \in Agent /\ UseIds(w, size) /\ 0 \in 0 .. (size - 1) /\ 1 \in 0 .. (size - 1)
      /\ \A n \in far : 1 + Rank(n) \in 0 .. (size - 1) /\ Rank(n) \in Nat /\ 1 + Rank(n) \notin {0, 1}
  <2> HIDE DEF Rank
  <2> QED BY <1>2, <1>7 DEF Agent
<1>9. /\ ~Issued(C, n0) /\ ~Issued(C, n1) /\ n0 # n1
      /\ \A n \in far : ~Issued(C, I(n)) /\ I(n) # n0 /\ I(n) # n1
      /\ \A n, j \in far : I(n) = I(j) => n = j
  <2>1. /\ \A j \in 0 .. (size - 1) : ~Issued(C, NewId(w, j))
        /\ \A j, n \in 0 .. (size - 1) : NewId(w, n) = NewId(w, j) => j = n
    <3> HIDE DEF size
    <3> QED BY <1>8, NewIds
  <2>2. ASSUME NEW n \in far, NEW j \in far, I(n) = I(j) PROVE n = j
    <3>1. 1 + Rank(n) = 1 + Rank(j)
      <4> HIDE DEF size, Rank
      <4> QED BY <1>8, <2>1, <2>2
    <3>2. Rank(n) = Rank(j)
      <4> HIDE DEF Rank
      <4> QED BY <1>8, <3>1
    <3>3. 3 \in Nat
      OBVIOUS
    <3> HIDE DEF far
    <3> QED BY <1>6, <3>2, <3>3, RanksDiffer
  <2>3. \A n \in far : ~Issued(C, I(n)) /\ I(n) # n0 /\ I(n) # n1
    <3> HIDE DEF size, Rank
    <3> QED BY <1>8, <2>1
  <2>4. ~Issued(C, n0) /\ ~Issued(C, n1) /\ n0 # n1
    <3>1. 0 # 1
      OBVIOUS
    <3> HIDE DEF size
    <3> QED BY <1>8, <2>1, <3>1
  <2> QED BY <2>2, <2>3, <2>4
<1>10. /\ D0.id = n0 /\ \A o : D(o).id = n1 /\ \A p : D(o) = D(p) => o = p
       /\ \A n \in far : [D(2 * n - 1) EXCEPT !.offset = @ + 1] = D(2 * n)
       /\ \A n, j \in far : \A d : (d = D(2 * n - 1) \/ d = D(2 * n)) /\ (d = D(2 * j - 1) \/ d = D(2 * j)) => n = j
  <2>1. D0.id = n0 /\ \A o : D(o).id = n1 /\ \A p : D(o) = D(p) => o = p
    BY DEF Destination
  <2>2. ASSUME NEW n \in far PROVE [D(2 * n - 1) EXCEPT !.offset = @ + 1] = D(2 * n)
    <3>1. n \in Nat
      BY <1>6
    <3>2. (2 * n - 1) + 1 = 2 * n
      BY <3>1
    <3>3. /\ D(2 * n - 1) = [agent |-> w, id |-> n1, offset |-> 2 * n - 1]
          /\ D(2 * n) = [agent |-> w, id |-> n1, offset |-> 2 * n]
      BY DEF Destination
    <3> HIDE DEF n1
    <3> QED BY <3>2, <3>3
  <2>3. ASSUME NEW n \in far, NEW j \in far, NEW d, d = D(2 * n - 1) \/ d = D(2 * n),
               d = D(2 * j - 1) \/ d = D(2 * j)
        PROVE  n = j
    <3>1. PICK o : d = D(o) /\ (o = 2 * n - 1 \/ o = 2 * n)
      BY <2>3
    <3>2. PICK p : d = D(p) /\ (p = 2 * j - 1 \/ p = 2 * j)
      BY <2>3
    <3>3. o = p
      <4> HIDE DEF D
      <4> QED BY <2>1, <3>1, <3>2
    <3>4. n \in 1 .. 3 /\ j \in 1 .. 3
      BY <1>6
    <3>5. (o + 1) \div 2 = n
      BY <3>1, <3>4, SlotPairs
    <3>6. (p + 1) \div 2 = j
      BY <3>2, <3>4, SlotPairs
    <3> QED BY <3>3, <3>5, <3>6
  <2> HIDE DEF D
  <2> QED BY <2>1, <2>2, <2>3
<1> HIDE DEF n0, n1, D, I, Rank, far, v, size, e
<1> DEFINE T(n) == IF n \in far THEN MsgTokens(Retrieve(n)) ELSE {}
           At(n, y, d) == (y = "id" /\ d = I(n)) \/ (y = "src" /\ (d = D(2 * n - 1) \/ d = D(2 * n)))
           F(d) == \E n \in far : d = D(2 * n - 1) \/ d = D(2 * n)
<1>11. ASSUME NEW n \in far
       PROVE  /\ Says(Retrieve(n)) /\ Retrieve(n).kind = "operation"
              /\ \A y, d : <<y, d>> \in MsgTokens(Retrieve(n)) <=> At(n, y, d)
  <2> DEFINE r == k[n]   d1 == D(2 * n - 1)   d2 == D(2 * n)   m == build_retrieve_lookup(I(n), d1, r)
  <2>1. d2 = [d1 EXCEPT !.offset = @ + 1]
    BY <1>10
  <2> HIDE DEF r, d1, d2
  <2>2. /\ Says(m) /\ m.kind = "operation"
        /\ \A y, d : <<y, d>> \in MsgTokens(m) <=>
                      \/ y = "id" /\ d = I(n)
                      \/ y = "src" /\ d \in {d1, d2}
    BY <2>1, RetrieveTokens
  <2> HIDE DEF m
  <2>4. \A y, d : <<y, d>> \in MsgTokens(m) <=>
                      (y = "id" /\ d = I(n)) \/ (y = "src" /\ (d = d1 \/ d = d2))
    <3> SUFFICES ASSUME NEW y, NEW d
                 PROVE  <<y, d>> \in MsgTokens(m) <=>
                            ((y = "id" /\ d = I(n)) \/ (y = "src" /\ (d = d1 \/ d = d2)))
      OBVIOUS
    <3>1. <<y, d>> \in MsgTokens(m) <=> ((y = "id" /\ d = I(n)) \/ (y = "src" /\ d \in {d1, d2}))
      BY <2>2
    <3>2. d \in {d1, d2} <=> (d = d1 \/ d = d2)
      OBVIOUS
    <3> QED BY <3>1, <3>2
  <2>3. Retrieve(n) = m
    BY DEF r, m, d1
  <2>5. \A y, d : <<y, d>> \in MsgTokens(m) <=> At(n, y, d)
    BY <2>4 DEF d1, d2
  <2> HIDE DEF Retrieve, At
  <2> QED BY <2>2, <2>3, <2>5
<1> DEFINE sm == Operation(w, store)   rm == Operation(w, recurse)
           LS == MsgTokens(sm)   LR == MsgTokens(rm)
<1>12. /\ Says(sm) /\ sm.kind = "operation"
       /\ \A y, d : <<y, d>> \in LS <=> \/ y = "id" /\ d = n0
                                        \/ y = "src" /\ d = dest
                                        \/ y = "snk" /\ d = D0
                                        \/ y = "store" /\ d = e
  <2>1. /\ store.code = "ITE_STORE" /\ store.id = n0 /\ store.dest = dest /\ store.data = <<>>
        /\ store.arg = op.arg /\ Slots("ITE_STORE") = {3}
    BY IteAssumption DEF Operator, Opcodes, IteSlots
  <2> HIDE DEF store, dest
  <2>2. Says(sm) /\ sm.kind = "operation" /\ LS = OpTokens(w, store)
    BY OperationSays
  <2>3. \A d : d \in {D0} <=> \E o \in Slots(store.code) \ DOMAIN store.data :
                                d = Destination(w, store.id, o)
    BY <2>1 DEF D0
  <2>4. store.code # "RETRIEVE_LOOKUP" /\ Entry(w, Key(store.arg)) = e
    BY <2>1 DEF e
  <2> HIDE DEF D0, op, k
  <2>5. \A y, d : <<y, d>> \in OpTokens(w, store) <=>
               \/ y = "id" /\ d = store.id
               \/ y = "src" /\ d = store.dest
               \/ y = "snk" /\ d \in {D0}
               \/ y = "store" /\ store.code = "ITE_STORE" /\ d = Entry(w, Key(store.arg))
    BY <2>3, <2>4, MadeTokens
  <2> HIDE DEF sm, LS
  <2> QED BY <2>1, <2>2, <2>4, <2>5
<1>13. /\ Says(rm) /\ rm.kind = "operation"
       /\ \A y, d : <<y, d>> \in LR <=> \/ y = "id" /\ d = n1
                                        \/ y = "src" /\ d = D0
                                        \/ y = "snk" /\ F(d)
  <2>1. /\ recurse.code = "ITE_RECURSE" /\ recurse.id = n1 /\ recurse.dest = D0
        /\ DOMAIN recurse.data = near /\ Slots("ITE_RECURSE") = 1 .. 6
    <3>1. /\ recurse.code = "ITE_RECURSE" /\ recurse.id = n1 /\ recurse.dest = D0
          /\ DOMAIN recurse.data = near
      <4> HIDE DEF D0, near
      <4> QED BY DEF Operator
    <3>2. Slots("ITE_RECURSE") = 1 .. 6
      BY IteAssumption DEF Opcodes, IteSlots
    <3> QED BY <3>1, <3>2
  <2> HIDE DEF recurse, D0
  <2>2. Says(rm) /\ rm.kind = "operation" /\ LR = OpTokens(w, recurse)
    BY OperationSays
  <2>3. \A o : o \in (1 .. 6) \ near <=> \E n \in far : o = 2 * n - 1 \/ o = 2 * n
    BY <1>6, FarSlots
  <2> DEFINE G == {d \in {D(o) : o \in 1 .. 6} : F(d)}
  <2>4. \A d : d \in G <=> F(d)
    <3>1. \A n \in far : 2 * n - 1 \in 1 .. 6 /\ 2 * n \in 1 .. 6
      BY <2>3
    <3> QED BY <3>1
  <2> HIDE DEF G
  <2>5. \A d : d \in G <=> \E o \in Slots(recurse.code) \ DOMAIN recurse.data :
                                d = Destination(w, recurse.id, o)
    <3>1. \A d : F(d) <=> \E o \in (1 .. 6) \ near : d = D(o)
      <4> HIDE DEF near
      <4> QED BY <2>3
    <3> HIDE DEF F, near
    <3> QED BY <2>1, <2>4, <3>1 DEF D
  <2>6. recurse.code # "RETRIEVE_LOOKUP" /\ recurse.code # "ITE_STORE"
    BY <2>1
  <2> HIDE DEF F
  <2>7. \A y, d : <<y, d>> \in OpTokens(w, recurse) <=>
               \/ y = "id" /\ d = recurse.id
               \/ y = "src" /\ d = recurse.dest
               \/ y = "snk" /\ d \in G
               \/ y = "store" /\ recurse.code = "ITE_STORE" /\ d = Entry(w, Key(recurse.arg))
    BY <2>5, <2>6, MadeTokens
  <2> HIDE DEF rm, LR
  <2> QED BY <2>1, <2>2, <2>4, <2>6, <2>7
<1> HIDE DEF Retrieve, sm, rm, k, store, recurse
<1>14. /\ \A n : \A x \in T(n) : \E y, d : x = <<y, d>>
       /\ \A x \in LS : \E y, d : x = <<y, d>>
       /\ \A x \in LR : \E y, d : x = <<y, d>>
       /\ \A n, y, d : <<y, d>> \in T(n) <=> n \in far /\ At(n, y, d)
  BY <1>11, Pairs
<1>15. D0 # dest /\ \A d : F(d) => d # dest /\ d # D0
  <2>1. D0 # dest
    BY <1>4, <1>9, <1>10
  <2>2. ASSUME NEW d, F(d) PROVE d.id = n1
    BY <1>10, <2>2
  <2> HIDE DEF F, D0, dest
  <2> QED BY <1>4, <1>9, <1>10, <2>1, <2>2
<1>16. /\ T(1) \intersect T(2) = {} /\ (T(1) \union T(2)) \intersect T(3) = {}
       /\ \A n : T(n) \intersect LS = {} /\ T(n) \intersect LR = {}
       /\ LS \intersect LR = {}
  <2>1. ASSUME NEW n, NEW j, n # j PROVE T(n) \intersect T(j) = {}
    <3>1. \A y, d : ~(n \in far /\ At(n, y, d) /\ j \in far /\ At(j, y, d))
      BY <1>9, <1>10, <2>1
    <3> HIDE DEF T, At
    <3> QED BY <1>14, <3>1
  <2>2. ASSUME NEW n PROVE T(n) \intersect LS = {} /\ T(n) \intersect LR = {}
    <3>1. \A y, d : n \in far /\ At(n, y, d) => (y = "id" /\ d # n0 /\ d # n1) \/ (y = "src" /\ F(d))
      BY <1>9
    <3> HIDE DEF T, At, F, LS, LR, dest, D0
    <3> QED BY <1>12, <1>13, <1>14, <1>15, <3>1
  <2>3. LS \intersect LR = {}
    <3> HIDE DEF F, LS, LR, dest, D0
    <3> QED BY <1>9, <1>12, <1>13, <1>14, <1>15
  <2>4. 1 # 2 /\ 1 # 3 /\ 2 # 3
    OBVIOUS
  <2> HIDE DEF T, LS, LR
  <2> QED BY <2>1, <2>2, <2>3, <2>4
<1> DEFINE U == T(1) \union T(2) \union T(3) \union (LS \union LR)
<1>17. Carries(ms, U)
  <2>1. ASSUME NEW n PROVE Carries(Only(n \in far, Retrieve(n)), T(n))
    <3>1. n \in far => Says(Retrieve(n)) /\ Retrieve(n).kind # "retire" /\ T(n) = MsgTokens(Retrieve(n))
      BY <1>11
    <3>2. (n \in far) \in BOOLEAN /\ (n \notin far => T(n) = {})
      OBVIOUS
    <3> HIDE DEF T
    <3> QED BY <3>1, <3>2, CarriesOnly
  <2> DEFINE o1 == Only(1 \in far, Retrieve(1))   o2 == Only(2 \in far, Retrieve(2))
             o3 == Only(3 \in far, Retrieve(3))
  <2>2. Carries(o1, T(1)) /\ Carries(o2, T(2)) /\ Carries(o3, T(3))
    BY <2>1
  <2>3. Carries(<<sm>>, LS) /\ Carries(<<rm>>, LR)
    BY <1>12, <1>13, CarriesOne
  <2> HIDE DEF o1, o2, o3, T, LS, LR
  <2>4. Carries(o1 \o o2, T(1) \union T(2))
    BY <1>16, <2>2, CarriesCat
  <2>5. Carries((o1 \o o2) \o o3, (T(1) \union T(2)) \union T(3))
    BY <1>16, <2>2, <2>4, CarriesCat
  <2>6. Carries(<<sm>> \o <<rm>>, LS \union LR)
    BY <1>16, <2>3, CarriesCat
  <2>7. ((T(1) \union T(2)) \union T(3)) \intersect (LS \union LR) = {}
    BY <1>16
  <2>8. Carries(((o1 \o o2) \o o3) \o (<<sm>> \o <<rm>>), ((T(1) \union T(2)) \union T(3)) \union (LS \union LR))
    BY <2>5, <2>6, <2>7, CarriesCat
  <2>9. <<sm>> \o <<rm>> = <<sm, rm>>
    <3> DEFINE A == {sm, rm}   a == <<sm>> \o <<rm>>   b == <<sm, rm>>
    <3>1. <<sm>> \in Seq(A) /\ <<rm>> \in Seq(A) /\ b \in Seq(A)
      OBVIOUS
    <3>2. a \in Seq(A) /\ Len(a) = 2 /\ Len(b) = 2 /\ a[1] = b[1] /\ a[2] = b[2]
      BY <3>1
    <3> HIDE DEF a, b
    <3>3. \A j \in 1 .. 2 : j = 1 \/ j = 2
      OBVIOUS
    <3>4. a = b
      BY <3>1, <3>2, <3>3, SeqEqual
    <3> QED BY <3>4 DEF a, b
  <2>10. Carries(((o1 \o o2) \o o3) \o <<sm, rm>>, U)
    BY <2>8, <2>9
  <2> HIDE DEF U
  <2> QED BY <2>10 DEF o1, o2, o3, sm, rm
<1> HIDE DEF ms
<1>18. \A y, d : <<y, d>> \in U <=>
             \/ y = "id" /\ (d = n0 \/ d = n1 \/ \E n \in far : d = I(n))
             \/ y = "src" /\ (d = dest \/ d = D0 \/ F(d))
             \/ y = "snk" /\ (d = D0 \/ F(d))
             \/ y = "store" /\ d = e
  <2>1. \A y, d : <<y, d>> \in T(1) \union T(2) \union T(3) <=>
             (y = "id" /\ \E n \in far : d = I(n)) \/ (y = "src" /\ F(d))
    <3>1. \A n \in far : n = 1 \/ n = 2 \/ n = 3
      BY <1>6
    <3>2. ASSUME NEW y, NEW d, NEW n, <<y, d>> \in T(n)
          PROVE  (y = "id" /\ \E j \in far : d = I(j)) \/ (y = "src" /\ F(d))
      BY <1>14, <3>2
    <3>3. ASSUME NEW y, NEW d, (y = "id" /\ \E j \in far : d = I(j)) \/ (y = "src" /\ F(d))
          PROVE  \E n \in far : <<y, d>> \in T(n)
      <4>1. \E n \in far : At(n, y, d)
        <5>1. CASE y = "id" /\ \E j \in far : d = I(j)
          BY <5>1
        <5>2. CASE y = "src" /\ F(d)
          BY <5>2
        <5> QED BY <3>3, <5>1, <5>2
      <4> HIDE DEF T, At, F
      <4> QED BY <1>14, <4>1
    <3> HIDE DEF T, F
    <3> QED BY <3>1, <3>2, <3>3
  <2> HIDE DEF T, F, LS, LR, dest, D0
  <2>2. \A y, d : <<y, d>> \in U <=> (<<y, d>> \in T(1) \union T(2) \union T(3)
                                     \/ <<y, d>> \in LS \/ <<y, d>> \in LR)
    OBVIOUS
  <2> HIDE DEF U
  <2> SUFFICES ASSUME NEW y, NEW d
               PROVE  <<y, d>> \in U <=>
             \/ y = "id" /\ (d = n0 \/ d = n1 \/ \E n \in far : d = I(n))
             \/ y = "src" /\ (d = dest \/ d = D0 \/ F(d))
             \/ y = "snk" /\ (d = D0 \/ F(d))
             \/ y = "store" /\ d = e
    OBVIOUS
  <2> DEFINE J == \E n \in far : d = I(n)
  <2>3. /\ <<y, d>> \in T(1) \union T(2) \union T(3) <=> (y = "id" /\ J) \/ (y = "src" /\ F(d))
        /\ <<y, d>> \in LS <=> (y = "id" /\ d = n0) \/ (y = "src" /\ d = dest)
                               \/ (y = "snk" /\ d = D0) \/ (y = "store" /\ d = e)
        /\ <<y, d>> \in LR <=> (y = "id" /\ d = n1) \/ (y = "src" /\ d = D0) \/ (y = "snk" /\ F(d))
    BY <1>12, <1>13, <2>1
  <2> HIDE DEF J
  <2>4. <<y, d>> \in U <=>
             \/ y = "id" /\ (d = n0 \/ d = n1 \/ J)
             \/ y = "src" /\ (d = dest \/ d = D0 \/ F(d))
             \/ y = "snk" /\ (d = D0 \/ F(d))
             \/ y = "store" /\ d = e
    BY <2>2, <2>3
  <2> QED BY <2>4 DEF J
<1>19. \A x \in U : \E y, d : x = <<y, d>>
  <2> HIDE DEF T, LS, LR
  <2> QED BY <1>14
<1> HIDE DEF U, F, D0, T, LS, LR
<1> DEFINE Nj == Tagged("entry", {e})   P == {<<"src", dest>>}   X == (U \union Nj) \ P
<1>20. /\ \A y, d : <<y, d>> \in Nj <=> y = "entry" /\ d = e
       /\ \A x \in Nj : x = <<"entry", e>>
  BY Tags
<1> HIDE DEF Nj
<1>21. /\ i \in Index /\ Family[i] = JoinF(w, t) /\ Family'[i] = JoinF(w, deferred_ite_table'[w])
       /\ Part[i] = Held(Family[i]) /\ Part[i] \subseteq Held(Part)
  <2>1. i \in Index
    BY IndexCases
  <2>2. Part[i] \subseteq Held(Part)
    BY <2>1, PartOf
  <2> QED BY <2>1, <2>2, FamilyIs, FamilyThen
<1>22. <<"entry", e>> \notin Held(Part) /\ <<"store", e>> \notin Held(Part)
  <2>1. ASSUME <<"entry", e>> \in Held(Part) PROVE FALSE
    <3>3. PICK j \in Index : \E a \in DOMAIN Family[j] : <<"entry", e>> \in Family[j][a]
      BY <2>1, Holding
    <3>4. PICK a \in DOMAIN Family[j] : <<"entry", e>> \in Family[j][a]
      BY <3>3
    <3>5. PICK u \in Worker : a \in DOMAIN deferred_ite_table[u] /\ e = Entry(u, a)
      BY <3>4, EntryHome
    <3>6. u = w /\ a = k
      BY <3>5 DEF Entry, e
    <3> QED BY <1>2, <3>5, <3>6
  <2> QED BY <2>1 DEF LinInv, Tokens, Paired
<1>23. X \intersect Held(Part) = {} /\ X \intersect O = {}
  <2> DEFINE Y == {x \in X : x # <<"entry", e>> /\ x # <<"store", e>>}
  <2>1. \A x \in Y : \E y, d : x = <<y, d>> /\ ~Dated(C, y, d)
    <3> SUFFICES ASSUME NEW x \in Y PROVE \E y, d : x = <<y, d>> /\ ~Dated(C, y, d)
      OBVIOUS
    <3>1. x \in U /\ x # <<"src", dest>> /\ x # <<"store", e>>
      <4> HIDE DEF dest
      <4> QED BY <1>20
    <3>2. PICK y, d : x = <<y, d>>
      BY <1>19, <3>1
    <3>3. F(d) => d.id = n1
      BY <1>10 DEF F
    <3>4. \/ y = "id" /\ (d = n0 \/ d = n1 \/ \E n \in far : d = I(n))
          \/ y \in {"src", "snk"} /\ (d.id = n0 \/ d.id = n1)
      <4> HIDE DEF dest
      <4> QED BY <1>10, <1>18, <3>1, <3>2, <3>3
    <3>5. ~Dated(C, y, d)
      BY <1>9, <3>4 DEF Dated
    <3> QED BY <3>2, <3>5
  <2> HIDE DEF Y, X
  <2>2. Y \intersect Held(Part) = {} /\ Y \intersect O = {}
    <3> HIDE DEF op
    <3> QED BY <1>3, <1>4, <2>1, FreshApart
  <2>3. <<"entry", e>> \notin O /\ <<"store", e>> \notin O
    <3> HIDE DEF O
    <3> QED BY <1>4, <1>5
  <2> HIDE DEF O
  <2> QED BY <1>22, <2>2, <2>3 DEF Y
<1>24. Passes(w, op, ms, {}, Nj)
  <2>1. U \union Nj = P \union X /\ U \intersect Nj = {}
    <3>1. P \subseteq U
      <4> HIDE DEF dest
      <4> QED BY <1>18
    <3>2. <<"entry", e>> \notin U
      BY <1>18
    <3> HIDE DEF P
    <3> QED BY <1>20, <3>1, <3>2
  <2>2. P \subseteq O \union {} /\ Paired((O \union {}) \ P)
    <3> HIDE DEF O
    <3> QED BY <1>4, <1>5 DEF Paired, O
  <2>3. \A y, d : <<y, d>> \in X <=>
             \/ y = "id" /\ (d = n0 \/ d = n1 \/ \E n \in far : d = I(n))
             \/ y \in {"src", "snk"} /\ (d = D0 \/ F(d))
             \/ y \in {"store", "entry"} /\ d = e
    <3>1. \A y, d : <<y, d>> \in X <=> (<<y, d>> \in U \/ (y = "entry" /\ d = e)) /\ ~(y = "src" /\ d = dest)
      <4> HIDE DEF dest
      <4> QED BY <1>20
    <3> HIDE DEF X, dest
    <3> SUFFICES ASSUME NEW y, NEW d
                 PROVE  <<y, d>> \in X <=>
             \/ y = "id" /\ (d = n0 \/ d = n1 \/ \E n \in far : d = I(n))
             \/ y \in {"src", "snk"} /\ (d = D0 \/ F(d))
             \/ y \in {"store", "entry"} /\ d = e
      OBVIOUS
    <3> DEFINE J == \E n \in far : d = I(n)
    <3>2. /\ <<y, d>> \in X <=> (<<y, d>> \in U \/ (y = "entry" /\ d = e)) /\ ~(y = "src" /\ d = dest)
          /\ <<y, d>> \in U <=>
             \/ y = "id" /\ (d = n0 \/ d = n1 \/ J)
             \/ y = "src" /\ (d = dest \/ d = D0 \/ F(d))
             \/ y = "snk" /\ (d = D0 \/ F(d))
             \/ y = "store" /\ d = e
          /\ D0 # dest
          /\ F(d) => d # dest
      BY <1>15, <1>18, <3>1
    <3> HIDE DEF J
    <3>3. <<y, d>> \in X <=>
             \/ y = "id" /\ (d = n0 \/ d = n1 \/ J)
             \/ y \in {"src", "snk"} /\ (d = D0 \/ F(d))
             \/ y \in {"store", "entry"} /\ d = e
      BY <3>2
    <3> QED BY <3>3 DEF J
  <2> HIDE DEF X
  <2>4. Paired(X)
    BY <2>3 DEF Paired
  <2>5. /\ <<"id", op.id>> \notin P
        /\ \A d : <<"ret", d>> \notin P \union X /\ <<"full", d>> \notin P \union X
    <3>1. \A y, d : <<y, d>> \in P => y = "src"
      OBVIOUS
    <3> HIDE DEF P
    <3> QED BY <2>3, <3>1
  <2>6. {} \subseteq Held(Part)
    OBVIOUS
  <2> HIDE DEF P, op
  <2> QED BY <1>17, <1>23, <2>1, <2>2, <2>4, <2>5, <2>6, NewPasses DEF O
<1>25. /\ deferred_ite_table'[w] = keyvalue_insert(t, k, <<>>)
       /\ \A u \in Worker \ {w} : /\ deferred_ite_table'[u] = deferred_ite_table[u]
                                  /\ ite_table'[u] = ite_table[u]
       /\ ite_table'[w] = ite_table[w] /\ k \notin DOMAIN ite_table[w]
  <2>1. k \notin DOMAIN ite_table[w]
    BY <1>2 DEF ref_ite_lookup
  <2> QED BY <1>2, <1>3, <2>1
<1>26. /\ DOMAIN deferred_ite_table'[w] = DOMAIN t \union {k}
       /\ deferred_ite_table'[w][k] = <<>>
       /\ \A y \in DOMAIN t \ {k} : deferred_ite_table'[w][y] = t[y]
  <2> HIDE DEF t
  <2> QED BY <1>25 DEF keyvalue_insert
<1>27. Held(WaiterF(<<>>)) = {} /\ Apart(WaiterF(<<>>))
  BY DEF Held, WaiterF, Apart
<1>28. Moves(i, {}, Nj)
  <2>1. DOMAIN Family'[i] = DOMAIN Family[i] \union {k} /\ k \notin DOMAIN Family[i]
    <3> HIDE DEF i, t
    <3> QED BY <1>2, <1>21, <1>26 DEF JoinF
  <2>2. Family'[i][k] = Nj
    <3>1. Family'[i][k] = Tagged("entry", {Entry(w, k)}) \union Held(WaiterF(deferred_ite_table'[w][k]))
      <4> HIDE DEF i, t
      <4> QED BY <1>21, <1>26 DEF JoinF
    <3> HIDE DEF i
    <3> QED BY <1>26, <1>27, <3>1 DEF Nj, e
  <2>3. \A y \in DOMAIN Family[i] \ {k} : Family'[i][y] = Family[i][y]
    <3> HIDE DEF i, t
    <3> QED BY <1>21, <1>26 DEF JoinF
  <2>4. {} = IF k \in DOMAIN Family[i] THEN Family[i][k] ELSE {}
    BY <2>1
  <2>5. Nj \intersect (Part[i] \ {}) = {}
    <3> HIDE DEF i
    <3> QED BY <1>20, <1>21, <1>22
  <2> DEFINE E == {}
  <2>6. E = IF k \in DOMAIN Family[i] THEN Family[i][k] ELSE {}
    BY <2>4
  <2>7. Nj \intersect (Part[i] \ E) = {}
    BY <2>5
  <2> HIDE DEF i, E
  <2>8. Moves(i, E, Nj)
    BY <1>21, <2>1, <2>2, <2>3, <2>6, <2>7, EntryMoves
  <2> QED BY <2>8 DEF E
<1>29. Rejoins(w, {}, Nj)
  <2>1. ListsApart(w) /\ KeptAt(w)
    BY DEF LinInv, Tokens, Kept
  <2>2. \A y \in DOMAIN deferred_ite_table'[w] : Apart(WaiterF(deferred_ite_table'[w][y]))
    <3>1. \A y \in DOMAIN t : Apart(WaiterF(t[y]))
      BY <2>1 DEF ListsApart
    <3> HIDE DEF t
    <3> QED BY <1>26, <1>27, <3>1
  <2>3. DOMAIN ite_table'[w] \intersect DOMAIN deferred_ite_table'[w] = {}
    BY <1>25, <1>26, <2>1 DEF KeptAt
  <2> HIDE DEF i
  <2> QED BY <1>25, <1>28, <2>2, <2>3 DEF Rejoins, i
<1>30. Emit(w, f, ms)
  BY <1>2 DEF Retrieve, ms, I, D, Rank, n0, n1, far, k, D0, v, recurse, store
<1> HIDE DEF i
<1> QED BY <1>3, <1>24, <1>29, <1>30, FireLin

-----------------------------------------------------------------------------
(* A step of a client touches the network and what the clients wait for.   *)
LEMMA ClientTokens ==
    ASSUME LinInv, NEW Rn, NEW Nn, NEW Rw, NEW Nw,
           Moves(<<"net", 0>>, Rn, Nn), Moves(<<"wait", 0>>, Rw, Nw), Nn \intersect Nw = {},
           Fair(Rn \union Rw, Nn \union Nw),
           UNCHANGED <<operator_table, deferred_operand_table, agenda, deferred_ite_table>>
    PROVE  Tokens'
<1> DEFINE R == [i \in Index |-> IF i = <<"net", 0>> THEN Rn ELSE IF i = <<"wait", 0>> THEN Rw ELSE {}]
           N == [i \in Index |-> IF i = <<"net", 0>> THEN Nn ELSE IF i = <<"wait", 0>> THEN Nw ELSE {}]
           a == <<"net", 0>>   b == <<"wait", 0>>
<1>1. a \in Index /\ b \in Index /\ a # b
  BY IndexCases
<1>2. /\ DOMAIN R = Index /\ R[a] = Rn /\ R[b] = Rw /\ \A i \in Index : i # a /\ i # b => R[i] = {}
      /\ DOMAIN N = Index /\ N[a] = Nn /\ N[b] = Nw /\ \A i \in Index : i # a /\ i # b => N[i] = {}
  BY <1>1
<1> HIDE DEF R, N
<1>3. Held(R) = Rn \union Rw /\ Held(N) = Nn \union Nw
  <2> HIDE DEF a, b
  <2> QED BY <1>1, <1>2 DEF Held
<1>4. Apart(N)
  <2> HIDE DEF a, b
  <2> QED BY <1>1, <1>2 DEF Apart
<1>5. ASSUME NEW i \in Index PROVE Moves(i, R[i], N[i])
  <2>1. CASE i = a
    BY <1>2, <2>1
  <2>2. CASE i = b
    BY <1>2, <2>2
  <2>3. CASE i # a /\ i # b
    <3>1. Family'[i] = Family[i]
      <4>1. PICK w \in Worker : \/ i = <<"agenda", w>> \/ i = <<"table", w>>
                                \/ i = <<"deferred", w>> \/ i = <<"join", w>>
        BY <2>3, IndexCases
      <4> QED BY <4>1, FamilyIs, FamilyThen
    <3>2. Moves(i, {}, {})
      BY <3>1, NotMoved
    <3> QED BY <1>2, <2>3, <3>2
  <2> QED BY <2>1, <2>2, <2>3
<1>6. \A w \in Worker : ListsApart(w)'
  BY DEF LinInv, Tokens, ListsApart
<1>7. Fair(Held(R), Held(N))
  BY <1>3
<1> QED BY <1>2, <1>4, <1>5, <1>6, <1>7, TokensMove

(* What a client waits for, and what one of its slots is.                  *)
LEMMA WaitIs ==
    ASSUME LinInv, NEW c \in Client, DOMAIN wait = Client
    PROVE  /\ <<"wait", 0>> \in Index
           /\ Family[<<"wait", 0>>] = WaitF(wait) /\ Family'[<<"wait", 0>>] = WaitF(wait')
           /\ DOMAIN WaitF(wait) = Client /\ DOMAIN WaitF(wait') = Client
           /\ \A x \in Client : WaitF(wait)[x] = IF wait[x] = None THEN {}
                                    ELSE Tagged("id", {wait[x].id}) \union Tagged("snk", {wait[x]})
           /\ \A x \in Client : WaitF(wait')[x] = IF wait'[x] = None THEN {}
                                    ELSE Tagged("id", {wait'[x].id}) \union Tagged("snk", {wait'[x]})
  BY IndexCases, FamilyIs, FamilyThen DEF WaitF

(* A client's step keeps messages where they belong.                       *)
LEMMA ClientKeeps ==
    ASSUME Kept, UNCHANGED <<deferred_operand_table, agenda, ite_table, deferred_ite_table>>,
           net' = [x \in DOMAIN net' |-> 1],
           \A x \in DOMAIN net' : x.kind # "retire" /\ Says(x)
    PROVE  Kept'
<1>1. \A w \in Worker : KeptAt(w)'
  BY DEF Kept, KeptAt
<1> QED BY <1>1 DEF Kept

(* A client asks.                                                          *)
LEMMA AskLin ==
    ASSUME LinInv, NEW C, DistIn(C), Rising, NEW c \in Client, Ask(c)
    PROVE  LinInv'
<1>2. PICK k \in Asks :
        LET r == ref_ite_local(k[1], k[2], k[3])
            m == build_ite_lookup(NewId(c, 1), Destination(c, NewId(c, 0), 0), r, r.neg)
        IN  /\ Asking(c, k)
            /\ ~r.done
            /\ FireAndWait(c, m.to, m.op)
            /\ asked' = [asked EXCEPT ![c] = k]
            /\ UNCHANGED <<tableVars, known>>
  BY DEF Ask
<1> DEFINE r == ref_ite_local(k[1], k[2], k[3])
           n0 == NewId(c, 0)   n1 == NewId(c, 1)
           to == Destination(c, n0, 0)
           m == build_ite_lookup(n1, to, r, r.neg)
<1>3. m = Operation(m.to, m.op) /\ m.op.dest = to
  BY DEF build_ite_lookup, Operation, Operator
<1>4. /\ wait[c] = None /\ wait' = [wait EXCEPT ![c] = to]
      /\ net' = net (+) SetToBag({m}) /\ UseIds(c, 2)
      /\ UNCHANGED <<operator_table, deferred_operand_table, agenda>>
      /\ UNCHANGED <<ite_table, deferred_ite_table>>
  BY <1>2, <1>3 DEF FireAndWait, tableVars
<1>5. Says(m) /\ m.kind = "operation" /\ MsgTokens(m) = {<<"id", n1>>, <<"src", to>>}
  <2>1. m = Operation(HomeTriple(r.i, r.t, r.e),
                      Operator("ITE_LOOKUP", n1, to, [i |-> r.i, t |-> r.t, e |-> r.e, neg |-> r.neg]))
    BY DEF build_ite_lookup
  <2>2. "ITE_LOOKUP" \in Opcodes /\ Slots("ITE_LOOKUP") = {}
    BY IteAssumption DEF Opcodes, IteSlots
  <2> HIDE DEF m, n1, to, r
  <2> QED BY <2>1, <2>2, BareTokens
<1>6. /\ ~Issued(C, n0) /\ ~Issued(C, n1) /\ n0 # n1
  <2>1. c \in Agent /\ 2 \in 1 .. 5 /\ UseIds(c, 2)
    BY <1>4 DEF Agent
  <2>2. /\ \A j \in 0 .. (2 - 1) : ~Issued(C, NewId(c, j))
        /\ \A j, n \in 0 .. (2 - 1) : NewId(c, n) = NewId(c, j) => j = n
    BY <2>1, NewIds
  <2>3. 0 \in 0 .. (2 - 1) /\ 1 \in 0 .. (2 - 1) /\ 0 # 1
    OBVIOUS
  <2> QED BY <2>2, <2>3
<1>7. to.id = n0
  BY DEF Destination
<1> HIDE DEF m, n0, n1, to
<1>8. RuntimeIn(C) /\ TablesIn(C) /\ ClientsIn(C) /\ DOMAIN wait = Client
  BY DEF DistIn, ClientsIn
<1> DEFINE Nn == MsgTokens(m)
           Nw == IF to = None THEN {} ELSE Tagged("id", {n0}) \union Tagged("snk", {to})
<1>9. to # None
  <2>1. seq_num \in [Agent -> 0 .. IdLimit - 1] /\ c \in Agent
    BY DEF DistIn, Worlds, Agent
  <2>2. 0 \in 0 .. (2 - 1) /\ 2 \in 1 .. 5
    OBVIOUS
  <2>3. NewId(c, 0) = [agent |-> c, seq |-> seq_num[c] + 0]
    BY <1>4, <2>1, <2>2, Numbers
  <2>4. seq_num[c] + 0 \in 0 .. IdLimit - 1
    BY <2>1, DataflowAssumption
  <2>5. to = [agent |-> c, id |-> n0, offset |-> 0]
    BY DEF to, Destination
  <2>6. n0 = [agent |-> c, seq |-> seq_num[c] + 0]
    BY <2>3 DEF n0
  <2>7. to \in [agent : Client, id : [agent : Client, seq : 0 .. IdLimit - 1], offset : {0}]
    BY <2>4, <2>5, <2>6
  <2> QED BY <2>7, IteAssumption
<1>10. \A x \in Nn \union Nw : \E t, d : x = <<t, d>> /\ ~Dated(C, t, d)
  <2>1. \A x \in Nw : x = <<"id", n0>> \/ x = <<"snk", to>>
    BY <1>9, Tags
  <2>2. \A x \in Nn \union Nw : x = <<"id", n1>> \/ x = <<"src", to>> \/ x = <<"id", n0>> \/ x = <<"snk", to>>
    <3> HIDE DEF Nw
    <3> QED BY <1>5, <2>1
  <2>3. ~Dated(C, "id", n1) /\ ~Dated(C, "id", n0) /\ ~Dated(C, "src", to) /\ ~Dated(C, "snk", to)
    BY <1>6, <1>7 DEF Dated
  <2> HIDE DEF Nn, Nw
  <2> QED BY <2>2, <2>3
<1>11. (Nn \union Nw) \intersect Held(Part) = {}
  <2> DEFINE X == Nn \union Nw
  <2>1. \A x \in X : \E t, d : x = <<t, d>> /\ ~Dated(C, t, d)
    BY <1>10
  <2> HIDE DEF X
  <2>2. X \intersect Held(Part) = {}
    BY <1>8, <2>1, FreshApart
  <2> QED BY <2>2 DEF X
<1>12. /\ <<"net", 0>> \in Index /\ Family[<<"net", 0>>] = NetF(DOMAIN net)
       /\ Family'[<<"net", 0>>] = NetF(DOMAIN net')
       /\ Part[<<"net", 0>>] \subseteq Held(Part) /\ Part[<<"net", 0>>] = Held(Family[<<"net", 0>>])
  BY IndexCases, FamilyIs, FamilyThen, PartOf
<1>13. m \notin DOMAIN net
  <2>1. <<"id", n1>> \in Nn
    BY <1>5
  <2> HIDE DEF Nn
  <2>2. m \in DOMAIN net => Nn \subseteq Part[<<"net", 0>>]
    BY <1>12 DEF NetF, Held, Nn
  <2> QED BY <1>11, <1>12, <2>1, <2>2
<1>14. net' = [x \in DOMAIN net \union {m} |-> 1]
  BY <1>4, <1>13, NetOnes DEF LinInv
<1>15. DOMAIN net' = DOMAIN net \union {m}
  BY <1>14
<1>16. Moves(<<"net", 0>>, {}, Nn)
  <2> DEFINE i == <<"net", 0>>   E == {}
  <2>1. DOMAIN Family'[i] = DOMAIN Family[i] \union {m} /\ Family'[i][m] = Nn
        /\ \A x \in DOMAIN Family[i] \ {m} : Family'[i][x] = Family[i][x]
    BY <1>12, <1>15 DEF NetF
  <2>2. E = IF m \in DOMAIN Family[i] THEN Family[i][m] ELSE {}
    BY <1>12, <1>13 DEF NetF
  <2> HIDE DEF Nn, Nw
  <2>3. Nn \intersect (Part[i] \ E) = {}
    BY <1>11, <1>12
  <2>4. i \in Index
    BY <1>12
  <2> HIDE DEF i, E
  <2>5. Moves(i, E, Nn)
    BY <2>1, <2>2, <2>3, <2>4, EntryMoves
  <2> QED BY <2>5 DEF i, E
<1>17. Moves(<<"wait", 0>>, {}, Nw)
  <2> DEFINE i == <<"wait", 0>>   E == {}
  <2>0. /\ i \in Index /\ Family[i] = WaitF(wait) /\ Family'[i] = WaitF(wait')
        /\ DOMAIN Family[i] = Client /\ DOMAIN Family'[i] = Client
        /\ \A x \in Client : WaitF(wait)[x] = IF wait[x] = None THEN {}
                                    ELSE Tagged("id", {wait[x].id}) \union Tagged("snk", {wait[x]})
        /\ \A x \in Client : WaitF(wait')[x] = IF wait'[x] = None THEN {}
                                    ELSE Tagged("id", {wait'[x].id}) \union Tagged("snk", {wait'[x]})
    BY <1>8, WaitIs
  <2>1. wait'[c] = to /\ \A x \in Client \ {c} : wait'[x] = wait[x]
    BY <1>4, <1>8
  <2> HIDE DEF i
  <2>2. /\ DOMAIN Family'[i] = DOMAIN Family[i] \union {c} /\ Family'[i][c] = Nw
        /\ \A x \in DOMAIN Family[i] \ {c} : Family'[i][x] = Family[i][x]
    BY <1>7, <2>0, <2>1
  <2>3. E = IF c \in DOMAIN Family[i] THEN Family[i][c] ELSE {}
    BY <1>4, <2>0
  <2>4. Part[i] \subseteq Held(Part)
    BY <2>0, PartOf
  <2> HIDE DEF Nn, Nw
  <2>5. Nw \intersect (Part[i] \ E) = {}
    BY <1>11, <2>4
  <2> HIDE DEF E
  <2>6. Moves(i, E, Nw)
    BY <2>0, <2>2, <2>3, <2>5, EntryMoves
  <2> QED BY <2>6 DEF i, E
<1>18. /\ \A x : x \in Nw <=> x = <<"id", n0>> \/ x = <<"snk", to>>
       /\ \A x : x \in Nn <=> x = <<"id", n1>> \/ x = <<"src", to>>
  BY <1>5, <1>9, Tags
<1> HIDE DEF Nn, Nw
<1>19. Nn \intersect Nw = {}
  BY <1>6, <1>18
<1>20. Fair({} \union {}, Nn \union Nw)
  <2> DEFINE X == (Nn \union Nw) \ ({} \union {})
  <2>1. \A x : x \in X <=> x = <<"id", n1>> \/ x = <<"src", to>> \/ x = <<"id", n0>> \/ x = <<"snk", to>>
    BY <1>18
  <2>2. (Nn \union Nw) \intersect (Held(Part) \ ({} \union {})) = {}
    BY <1>11
  <2>3. Paired(({} \union {}) \ (Nn \union Nw))
    BY DEF Paired
  <2> HIDE DEF X
  <2>4. Paired(X)
    BY <2>1 DEF Paired
  <2> QED BY <2>2, <2>3, <2>4 DEF X, Fair
<1>21. Tokens'
  BY <1>4, <1>16, <1>17, <1>19, <1>20, ClientTokens
<1>22. net' = [x \in DOMAIN net' |-> 1] /\ \A x \in DOMAIN net' : x.kind # "retire" /\ Says(x)
  BY <1>5, <1>14, <1>15 DEF LinInv, Kept
<1>23. Kept'
  BY <1>4, <1>22, ClientKeeps DEF LinInv
<1> QED BY <1>21, <1>23 DEF LinInv

-----------------------------------------------------------------------------
(* What a client receives is the operand it waits for.                     *)
LEMMA AnswerIs ==
    ASSUME LinInv, NEW C, ClientsIn(C), NEW c \in Client, NEW m \in DOMAIN net,
           m.kind = "operand", m.to = c
    PROVE  /\ wait[c] # None /\ m.id = wait[c].id /\ DOMAIN m.data = {0}
           /\ OperandSlots(m) = {wait[c]}
<1>1. Says(m) /\ MsgTokens(m) = Tagged("src", OperandSlots(m)) /\ DOMAIN m.data # {}
  BY DEF LinInv, Kept, Says, MsgTokens
<1>2. ASSUME NEW o \in DOMAIN m.data
      PROVE  wait[c] # None /\ m.id = wait[c].id /\ o = 0 /\ Destination(m.to, m.id, o) = wait[c]
  <2> DEFINE d == Destination(m.to, m.id, o)
  <2>1. d \in OperandSlots(m) /\ d.agent = c /\ d.id = m.id /\ d.offset = o
    BY DEF OperandSlots, Destination
  <2> HIDE DEF d
  <2>2. <<"src", d>> \in Held(Part)
    <3>1. <<"src", d>> \in MsgTokens(m)
      BY <1>1, <2>1, Tags
    <3>2. /\ <<"net", 0>> \in Index /\ m \in DOMAIN Family[<<"net", 0>>]
          /\ Family[<<"net", 0>>][m] = MsgTokens(m)
      BY IndexCases, FamilyIs DEF NetF
    <3> QED BY <3>1, <3>2, Holding
  <2>3. <<"snk", d>> \in Held(Part)
    BY <2>2 DEF LinInv, Tokens, Paired
  <2>4. PICK i \in Index : \E a \in DOMAIN Family[i] : <<"snk", d>> \in Family[i][a]
    BY <2>3, Holding
  <2>5. PICK a \in DOMAIN Family[i] : <<"snk", d>> \in Family[i][a]
    BY <2>4
  <2>6. \/ d.agent \in Worker
        \/ i = <<"wait", 0>> /\ a \in Client /\ wait[a] = d /\ d # None
    BY <2>5, SinkAgent DEF LinInv
  <2>7. c \notin Worker
    BY DataflowAssumption
  <2>8. a \in Client /\ wait[a] = d /\ d # None
    BY <2>1, <2>6, <2>7
  <2>9. wait[a].agent = a /\ wait[a].offset = 0
    BY <2>8 DEF ClientsIn
  <2>10. a = c /\ o = 0
    BY <2>1, <2>8, <2>9
  <2> QED BY <2>1, <2>8, <2>10 DEF d
<1>3. PICK o \in DOMAIN m.data : TRUE
  BY <1>1
<1>4. o = 0 /\ wait[c] # None /\ m.id = wait[c].id
  BY <1>2
<1>5. DOMAIN m.data = {0}
  BY <1>2, <1>4
<1>6. OperandSlots(m) = {wait[c]}
  BY <1>2, <1>5 DEF OperandSlots
<1> QED BY <1>4, <1>5, <1>6

(* A client takes its answer.                                              *)
LEMMA AnswerLin ==
    ASSUME LinInv, NEW C, DistIn(C), NEW c \in Client, Answer(c)
    PROVE  LinInv'
<1>1. PICK m \in BagToSet(net) : TakeAnswer(c, m) /\ UNCHANGED tableVars
  BY DEF Answer
<1>2. /\ m \in DOMAIN net /\ m.to = c /\ m.kind = "operand" /\ wait[c] # None
      /\ wait' = [wait EXCEPT ![c] = None] /\ net' = net (-) SetToBag({m})
      /\ UNCHANGED <<operator_table, deferred_operand_table, agenda>>
      /\ UNCHANGED <<ite_table, deferred_ite_table>>
  BY <1>1 DEF TakeAnswer, BagToSet, tableVars
<1>3. ClientsIn(C) /\ DOMAIN wait = Client
  BY DEF DistIn, ClientsIn
<1>4. OperandSlots(m) = {wait[c]}
  BY <1>2, <1>3, AnswerIs
<1>5. MsgTokens(m) = Tagged("src", {wait[c]})
  BY <1>2, <1>4 DEF MsgTokens
<1> DEFINE Rn == MsgTokens(m)
           Rw == Tagged("id", {wait[c].id}) \union Tagged("snk", {wait[c]})
           E == {}
<1>6. net' = [x \in DOMAIN net \ {m} |-> 1]
  BY <1>2, NetOnes DEF LinInv
<1>7. DOMAIN net' = DOMAIN net \ {m}
  BY <1>6
<1>8. Moves(<<"net", 0>>, Rn, E)
  <2> DEFINE i == <<"net", 0>>
  <2>0. i \in Index /\ Family[i] = NetF(DOMAIN net) /\ Family'[i] = NetF(DOMAIN net')
    BY IndexCases, FamilyIs, FamilyThen
  <2> HIDE DEF i
  <2>1. /\ DOMAIN Family'[i] = DOMAIN Family[i] \ {m}
        /\ \A x \in DOMAIN Family'[i] : Family'[i][x] = Family[i][x]
        /\ m \in DOMAIN Family[i] /\ Family[i][m] = Rn
    BY <1>2, <1>7, <2>0 DEF NetF
  <2> HIDE DEF Rn
  <2>2. Rn = IF m \in DOMAIN Family[i] THEN Family[i][m] ELSE {}
    BY <2>1
  <2>3. Moves(i, Rn, {})
    BY <2>0, <2>1, <2>2, EntryGoes
  <2> QED BY <2>3 DEF i
<1>9. Moves(<<"wait", 0>>, Rw, E)
  <2> DEFINE i == <<"wait", 0>>
  <2>0. /\ i \in Index /\ Family[i] = WaitF(wait) /\ Family'[i] = WaitF(wait')
        /\ DOMAIN Family[i] = Client /\ DOMAIN Family'[i] = Client
        /\ \A x \in Client : WaitF(wait)[x] = IF wait[x] = None THEN {}
                                    ELSE Tagged("id", {wait[x].id}) \union Tagged("snk", {wait[x]})
        /\ \A x \in Client : WaitF(wait')[x] = IF wait'[x] = None THEN {}
                                    ELSE Tagged("id", {wait'[x].id}) \union Tagged("snk", {wait'[x]})
    BY <1>3, WaitIs
  <2>1. wait'[c] = None /\ \A x \in Client \ {c} : wait'[x] = wait[x]
    BY <1>2, <1>3
  <2> HIDE DEF i
  <2>2. /\ DOMAIN Family'[i] = DOMAIN Family[i] \union {c} /\ Family'[i][c] = E
        /\ \A x \in DOMAIN Family[i] \ {c} : Family'[i][x] = Family[i][x]
    BY <2>0, <2>1
  <2>3. Rw = IF c \in DOMAIN Family[i] THEN Family[i][c] ELSE {}
    BY <1>2, <2>0
  <2>4. E \intersect (Part[i] \ Rw) = {}
    OBVIOUS
  <2> HIDE DEF E, Rw
  <2>5. Moves(i, Rw, E)
    BY <2>0, <2>2, <2>3, <2>4, EntryMoves
  <2> QED BY <2>5 DEF i
<1>10. Fair(Rn \union Rw, E \union E)
  <2> DEFINE X == Rn \union Rw
  <2>1. \A x : x \in X <=> x = <<"src", wait[c]>> \/ x = <<"id", wait[c].id>> \/ x = <<"snk", wait[c]>>
    BY <1>5, Tags
  <2> HIDE DEF X
  <2>2. Paired(X)
    BY <2>1 DEF Paired
  <2>3. Paired({}) /\ X \ (E \union E) = X /\ (E \union E) \ X = {}
        /\ (E \union E) \intersect (Held(Part) \ X) = {}
    BY DEF Paired
  <2>4. Fair(X, E \union E)
    BY <2>2, <2>3 DEF Fair
  <2> QED BY <2>4 DEF X
<1>11. E \intersect E = {}
  OBVIOUS
<1> HIDE DEF Rn, Rw, E
<1>12. Tokens'
  BY <1>2, <1>8, <1>9, <1>10, <1>11, ClientTokens
<1>13. net' = [x \in DOMAIN net' |-> 1] /\ \A x \in DOMAIN net' : x.kind # "retire" /\ Says(x)
  BY <1>6, <1>7 DEF LinInv, Kept
<1>14. Kept'
  BY <1>2, <1>13, ClientKeeps DEF LinInv
<1> QED BY <1>12, <1>14 DEF LinInv

-----------------------------------------------------------------------------
(* At first there are no tokens.                                           *)
LEMMA InitLin == Init => LinInv
<1> SUFFICES ASSUME Init PROVE LinInv
  OBVIOUS
<1>1. /\ net = EmptyBag
      /\ operator_table = [w \in Worker |-> <<>>] /\ deferred_operand_table = [w \in Worker |-> <<>>]
      /\ agenda = [w \in Worker |-> <<>>] /\ wait = [c \in Client |-> None]
      /\ ite_table = [w \in Worker |-> <<>>] /\ deferred_ite_table = [w \in Worker |-> <<>>]
  BY DEF Init, DataflowInit
<1>2. DOMAIN net = {} /\ net = [m \in {} |-> 1]
  BY <1>1 DEF EmptyBag, SetToBag
<1>3. ASSUME NEW i \in Index, NEW a \in DOMAIN Family[i] PROVE Family[i][a] = {}
  <2>1. CASE i = <<"net", 0>>
    BY <1>2, <1>3, <2>1, FamilyIs DEF NetF
  <2>2. CASE i = <<"wait", 0>>
    BY <1>1, <1>3, <2>2, FamilyIs DEF WaitF
  <2>3. ASSUME NEW w \in Worker, i \in {<<"agenda", w>>, <<"table", w>>, <<"deferred", w>>, <<"join", w>>}
        PROVE  Family[i][a] = {}
    <3>1. DOMAIN agenda[w] = {} /\ DOMAIN operator_table[w] = {}
          /\ DOMAIN deferred_operand_table[w] = {} /\ DOMAIN deferred_ite_table[w] = {}
      BY <1>1
    <3>2. DOMAIN Family[i] = {}
      BY <2>3, <3>1, FamilyIs DEF ListF, TableF, DeferredF, JoinF
    <3> QED BY <1>3, <3>2
  <2> QED BY <2>1, <2>2, <2>3, IndexCases
<1>4. \A i \in Index : Apart(Family[i]) /\ Part[i] = {}
  BY <1>3, FamilyIs DEF Apart, Held
<1>5. Apart(Part) /\ Held(Part) = {}
  BY <1>4, FamilyIs DEF Apart, Held
<1>6. \A w \in Worker : ListsApart(w) /\ KeptAt(w)
  BY <1>1 DEF ListsApart, KeptAt
<1>7. Tokens
  BY <1>4, <1>5, <1>6 DEF Tokens, Paired
<1>8. Kept
  BY <1>2, <1>6 DEF Kept
<1> QED BY <1>7, <1>8 DEF LinInv

(* What changes no table and no message changes no token.                  *)
LEMMA LinStays ==
    ASSUME LinInv, UNCHANGED runtimeVars, UNCHANGED tableVars
    PROVE  LinInv'
<1>1. UNCHANGED <<net, operator_table, deferred_operand_table, agenda, wait>>
      /\ UNCHANGED <<ite_table, deferred_ite_table>>
  BY DEF runtimeVars, tableVars
<1>2. Moves(<<"net", 0>>, {}, {}) /\ Moves(<<"wait", 0>>, {}, {})
  BY <1>1, IndexCases, FamilyIs, FamilyThen, NotMoved
<1>3. Fair({} \union {}, {} \union {}) /\ {} \intersect {} = {}
  BY DEF Fair, Paired
<1> DEFINE E == {}
<1>4. Moves(<<"net", 0>>, E, E) /\ Moves(<<"wait", 0>>, E, E) /\ Fair(E \union E, E \union E)
      /\ E \intersect E = {}
  BY <1>2, <1>3
<1> HIDE DEF E
<1>5. Tokens'
  BY <1>1, <1>4, ClientTokens
<1>6. net' = [x \in DOMAIN net' |-> 1] /\ \A x \in DOMAIN net' : x.kind # "retire" /\ Says(x)
  BY <1>1 DEF LinInv, Kept
<1>7. Kept'
  BY <1>1, <1>6, ClientKeeps DEF LinInv
<1> QED BY <1>5, <1>7 DEF LinInv

(* Every step keeps the tokens apart and in pairs.                         *)
LEMMA StepLin == DistInv /\ LinInv /\ [Next]_vars /\ [Rising]_vars => LinInv'
<1> SUFFICES ASSUME DistInv, LinInv, [Next]_vars, [Rising]_vars PROVE LinInv'
  OBVIOUS
<1>0. PICK C : DistIn(C)
  BY DEF DistInv
<1>1. CASE UNCHANGED vars
  BY <1>1, LinStays DEF vars, runtimeVars, tableVars
<1>2. ASSUME Rising, NEW w \in Worker, WorkerStep(w) PROVE LinInv'
  <2>1. RuntimeIn(C)
    BY <1>0 DEF DistIn
  <2> QED BY <1>0, <1>2, <2>1, QueueLin, SendLin, FinishLin, HitLin, JoinLin, SplitLin, RetrieveLin,
             RecurseLin, CanonizeLin, CanonizeLookupLin, StoreLin DEF WorkerStep
<1>3. ASSUME Rising, NEW c \in Client, Ask(c) \/ AskLocally(c) \/ Answer(c) PROVE LinInv'
  <2>1. CASE AskLocally(c)
    BY <2>1, LinStays DEF AskLocally
  <2> QED BY <1>0, <1>3, <2>1, AskLin, AnswerLin
<1> QED BY <1>1, <1>2, <1>3 DEF Next

(* The tokens of a state: identifiers, slots and entries, each held once,  *)
(* each slot that waits with the one thing that will fill it.              *)
THEOREM AlwaysLinear == Spec /\ NeverWraps => [](DistInv /\ LinInv)
<1>1. Init => DistInv /\ LinInv
  BY InitRight, InitLin
<1>2. (DistInv /\ LinInv) /\ [Next]_vars /\ [Rising]_vars => (DistInv /\ LinInv)'
  BY StepRight, StepLin
<1> QED BY <1>1, <1>2, PTL DEF Spec, NeverWraps

-----------------------------------------------------------------------------
(* The places of the properties, and the holders of the tokens they are.   *)
PlaceOf(p, i, a) ==
    \/ i = <<"net", 0>> /\ p = <<"net", a>>
    \/ \E w \in Worker : \/ i = <<"agenda", w>> /\ p = <<"agenda", w, a>>
                         \/ i = <<"table", w>> /\ p = <<"table", w, a>>
                         \/ i = <<"deferred", w>> /\ \E n : p = <<"deferred", w, a, n>>
                         \/ i = <<"join", w>> /\ \E n : p = <<"join", w, a, n>>

(* The places, by where they are.                                          *)
LEMMA PlacesAre ==
    /\ \A p : p \in Places <=>
           \/ \E m \in DOMAIN net : m.kind = "operation" /\ p = <<"net", m>>
           \/ \E w \in Worker : \E n \in DOMAIN agenda[w] :
                  agenda[w][n].kind = "operation" /\ p = <<"agenda", w, n>>
           \/ \E w \in Worker : \E id \in DOMAIN operator_table[w] :
                  ~op_check_full(operator_table[w][id]) /\ p = <<"table", w, id>>
    /\ \A p : p \in OperandPlaces <=>
           \/ \E m \in DOMAIN net : m.kind = "operand" /\ p = <<"net", m>>
           \/ \E w \in Worker : \E n \in DOMAIN agenda[w] :
                  agenda[w][n].kind = "operand" /\ p = <<"agenda", w, n>>
           \/ \E w \in Worker : \E id \in DOMAIN deferred_operand_table[w] :
                  \E n \in DOMAIN deferred_operand_table[w][id] : p = <<"deferred", w, id, n>>
    /\ \A p : p \in JoinPlaces <=>
           \E w \in Worker : \E k \in DOMAIN deferred_ite_table[w] :
               \E n \in DOMAIN deferred_ite_table[w][k] : p = <<"join", w, k, n>>
<1>1. \A p : p \in Places <=>
           \/ \E m \in DOMAIN net : m.kind = "operation" /\ p = <<"net", m>>
           \/ \E w \in Worker : \E n \in DOMAIN agenda[w] :
                  agenda[w][n].kind = "operation" /\ p = <<"agenda", w, n>>
           \/ \E w \in Worker : \E id \in DOMAIN operator_table[w] :
                  ~op_check_full(operator_table[w][id]) /\ p = <<"table", w, id>>
  BY DEF Places, Operations, BagToSet
<1>2. \A p : p \in OperandPlaces <=>
           \/ \E m \in DOMAIN net : m.kind = "operand" /\ p = <<"net", m>>
           \/ \E w \in Worker : \E n \in DOMAIN agenda[w] :
                  agenda[w][n].kind = "operand" /\ p = <<"agenda", w, n>>
           \/ \E w \in Worker : \E id \in DOMAIN deferred_operand_table[w] :
                  \E n \in DOMAIN deferred_operand_table[w][id] : p = <<"deferred", w, id, n>>
  BY DEF OperandPlaces, BagToSet, Deferred
<1>3. \A p : p \in JoinPlaces <=>
           \E w \in Worker : \E k \in DOMAIN deferred_ite_table[w] :
               \E n \in DOMAIN deferred_ite_table[w][k] : p = <<"join", w, k, n>>
  BY DEF JoinPlaces, Waiting
<1> QED BY <1>1, <1>2, <1>3

(* The holders of each part of the state, one by one.                      *)
LEMMA HoldersAre ==
    /\ <<"net", 0>> \in Index /\ <<"wait", 0>> \in Index
    /\ DOMAIN Family[<<"net", 0>>] = DOMAIN net
    /\ \A m \in DOMAIN net : Family[<<"net", 0>>][m] = MsgTokens(m)
    /\ DOMAIN Family[<<"wait", 0>>] = Client
    /\ \A c \in Client : Family[<<"wait", 0>>][c] =
           IF wait[c] = None THEN {} ELSE Tagged("id", {wait[c].id}) \union Tagged("snk", {wait[c]})
    /\ \A w \in Worker :
        /\ <<"agenda", w>> \in Index /\ <<"table", w>> \in Index
        /\ <<"deferred", w>> \in Index /\ <<"join", w>> \in Index
        /\ DOMAIN Family[<<"agenda", w>>] = DOMAIN agenda[w]
        /\ \A n \in DOMAIN agenda[w] : Family[<<"agenda", w>>][n] = MsgTokens(agenda[w][n])
        /\ DOMAIN Family[<<"table", w>>] = DOMAIN operator_table[w]
        /\ \A id \in DOMAIN operator_table[w] :
               Family[<<"table", w>>][id] = QueuedTokens(w, operator_table[w][id])
        /\ DOMAIN Family[<<"deferred", w>>] = DOMAIN deferred_operand_table[w]
        /\ \A id \in DOMAIN deferred_operand_table[w] :
               Family[<<"deferred", w>>][id] = Held(ListF(deferred_operand_table[w][id]))
        /\ DOMAIN Family[<<"join", w>>] = DOMAIN deferred_ite_table[w]
        /\ \A k \in DOMAIN deferred_ite_table[w] : Family[<<"join", w>>][k] =
               Tagged("entry", {Entry(w, k)}) \union Held(WaiterF(deferred_ite_table[w][k]))
<1>1. /\ <<"net", 0>> \in Index /\ <<"wait", 0>> \in Index
      /\ Family[<<"net", 0>>] = NetF(DOMAIN net) /\ Family[<<"wait", 0>>] = WaitF(wait)
  BY IndexCases, FamilyIs
<1>2. /\ DOMAIN NetF(DOMAIN net) = DOMAIN net
      /\ \A m \in DOMAIN net : NetF(DOMAIN net)[m] = MsgTokens(m)
  BY DEF NetF
<1>3. /\ DOMAIN WaitF(wait) = Client
      /\ \A c \in Client : WaitF(wait)[c] =
           IF wait[c] = None THEN {} ELSE Tagged("id", {wait[c].id}) \union Tagged("snk", {wait[c]})
  BY DEF WaitF
<1>4. ASSUME NEW w \in Worker
      PROVE  /\ <<"agenda", w>> \in Index /\ <<"table", w>> \in Index
             /\ <<"deferred", w>> \in Index /\ <<"join", w>> \in Index
             /\ DOMAIN Family[<<"agenda", w>>] = DOMAIN agenda[w]
             /\ \A n \in DOMAIN agenda[w] : Family[<<"agenda", w>>][n] = MsgTokens(agenda[w][n])
             /\ DOMAIN Family[<<"table", w>>] = DOMAIN operator_table[w]
             /\ \A id \in DOMAIN operator_table[w] :
                   Family[<<"table", w>>][id] = QueuedTokens(w, operator_table[w][id])
             /\ DOMAIN Family[<<"deferred", w>>] = DOMAIN deferred_operand_table[w]
             /\ \A id \in DOMAIN deferred_operand_table[w] :
                   Family[<<"deferred", w>>][id] = Held(ListF(deferred_operand_table[w][id]))
             /\ DOMAIN Family[<<"join", w>>] = DOMAIN deferred_ite_table[w]
             /\ \A k \in DOMAIN deferred_ite_table[w] : Family[<<"join", w>>][k] =
                   Tagged("entry", {Entry(w, k)}) \union Held(WaiterF(deferred_ite_table[w][k]))
  <2>1. /\ <<"agenda", w>> \in Index /\ <<"table", w>> \in Index
        /\ <<"deferred", w>> \in Index /\ <<"join", w>> \in Index
        /\ Family[<<"agenda", w>>] = ListF(agenda[w])
        /\ Family[<<"table", w>>] = TableF(w, operator_table[w])
        /\ Family[<<"deferred", w>>] = DeferredF(deferred_operand_table[w])
        /\ Family[<<"join", w>>] = JoinF(w, deferred_ite_table[w])
    BY IndexCases, FamilyIs
  <2>2. /\ DOMAIN ListF(agenda[w]) = DOMAIN agenda[w]
        /\ \A n \in DOMAIN agenda[w] : ListF(agenda[w])[n] = MsgTokens(agenda[w][n])
    BY DEF ListF
  <2>3. /\ DOMAIN TableF(w, operator_table[w]) = DOMAIN operator_table[w]
        /\ \A id \in DOMAIN operator_table[w] :
               TableF(w, operator_table[w])[id] = QueuedTokens(w, operator_table[w][id])
    BY DEF TableF
  <2>4. /\ DOMAIN DeferredF(deferred_operand_table[w]) = DOMAIN deferred_operand_table[w]
        /\ \A id \in DOMAIN deferred_operand_table[w] :
               DeferredF(deferred_operand_table[w])[id] = Held(ListF(deferred_operand_table[w][id]))
    BY DEF DeferredF
  <2>5. /\ DOMAIN JoinF(w, deferred_ite_table[w]) = DOMAIN deferred_ite_table[w]
        /\ \A k \in DOMAIN deferred_ite_table[w] : JoinF(w, deferred_ite_table[w])[k] =
               Tagged("entry", {Entry(w, k)}) \union Held(WaiterF(deferred_ite_table[w][k]))
    BY DEF JoinF
  <2> QED BY <2>1, <2>2, <2>3, <2>4, <2>5
<1> QED BY <1>1, <1>2, <1>3, <1>4

(* An operator that has not fired is the holder of its tokens.             *)
LEMMA OperatorHolds ==
    ASSUME NEW p \in Places
    PROVE  \E i \in Index : \E a \in DOMAIN Family[i] :
               PlaceOf(p, i, a) /\ Family[i][a] = OpTokens(AgentAt(p), OperatorAt(p))
<1>1. ASSUME NEW m \in DOMAIN net, m.kind = "operation", p = <<"net", m>>
      PROVE  \E i \in Index : \E a \in DOMAIN Family[i] :
               PlaceOf(p, i, a) /\ Family[i][a] = OpTokens(AgentAt(p), OperatorAt(p))
  <2> DEFINE i == <<"net", 0>>
  <2>1. i \in Index /\ m \in DOMAIN Family[i] /\ Family[i][m] = MsgTokens(m)
    BY HoldersAre
  <2>2. AgentAt(p) = m.to /\ OperatorAt(p) = m.op /\ PlaceOf(p, i, m)
    BY <1>1 DEF AgentAt, OperatorAt, PlaceOf
  <2>3. MsgTokens(m) = OpTokens(m.to, m.op)
    BY <1>1 DEF MsgTokens
  <2> QED BY <2>1, <2>2, <2>3
<1>2. ASSUME NEW w \in Worker, NEW n \in DOMAIN agenda[w], agenda[w][n].kind = "operation",
             p = <<"agenda", w, n>>
      PROVE  \E i \in Index : \E a \in DOMAIN Family[i] :
               PlaceOf(p, i, a) /\ Family[i][a] = OpTokens(AgentAt(p), OperatorAt(p))
  <2> DEFINE i == <<"agenda", w>>   m == agenda[w][n]
  <2>1. i \in Index /\ n \in DOMAIN Family[i] /\ Family[i][n] = MsgTokens(m)
    BY HoldersAre
  <2>2. AgentAt(p) = m.to /\ OperatorAt(p) = m.op /\ PlaceOf(p, i, n)
    BY <1>2 DEF AgentAt, OperatorAt, PlaceOf
  <2>3. MsgTokens(m) = OpTokens(m.to, m.op)
    BY <1>2 DEF MsgTokens
  <2> QED BY <2>1, <2>2, <2>3
<1>3. ASSUME NEW w \in Worker, NEW id \in DOMAIN operator_table[w],
             ~op_check_full(operator_table[w][id]), p = <<"table", w, id>>
      PROVE  \E i \in Index : \E a \in DOMAIN Family[i] :
               PlaceOf(p, i, a) /\ Family[i][a] = OpTokens(AgentAt(p), OperatorAt(p))
  <2> DEFINE i == <<"table", w>>   op == operator_table[w][id]
  <2>1. i \in Index /\ id \in DOMAIN Family[i] /\ Family[i][id] = QueuedTokens(w, op)
    BY HoldersAre
  <2>2. AgentAt(p) = w /\ OperatorAt(p) = op /\ PlaceOf(p, i, id)
    BY <1>3 DEF AgentAt, OperatorAt, PlaceOf
  <2>3. QueuedTokens(w, op) = OpTokens(w, op)
    BY <1>3 DEF QueuedTokens
  <2> QED BY <2>1, <2>2, <2>3
<1> QED BY <1>1, <1>2, <1>3, PlacesAre

(* An operand holds what its slots wait for, ...                           *)
LEMMA OperandHolds ==
    ASSUME Kept, NEW p \in OperandPlaces, NEW d \in OperandSlots(OperandAt(p))
    PROVE  \E i \in Index : \E a \in DOMAIN Family[i] :
               PlaceOf(p, i, a) /\ <<"src", d>> \in Family[i][a]
<1>0. \A m : m.kind = "operand" /\ d \in OperandSlots(m) => <<"src", d>> \in MsgTokens(m)
  BY Tags DEF MsgTokens
<1>1. ASSUME NEW m \in DOMAIN net, m.kind = "operand", p = <<"net", m>>
      PROVE  \E i \in Index : \E a \in DOMAIN Family[i] : PlaceOf(p, i, a) /\ <<"src", d>> \in Family[i][a]
  <2> DEFINE i == <<"net", 0>>
  <2>1. i \in Index /\ m \in DOMAIN Family[i] /\ Family[i][m] = MsgTokens(m)
    BY HoldersAre
  <2>2. OperandAt(p) = m /\ PlaceOf(p, i, m)
    BY <1>1 DEF OperandAt, PlaceOf
  <2> QED BY <1>0, <1>1, <2>1, <2>2
<1>2. ASSUME NEW w \in Worker, NEW n \in DOMAIN agenda[w], agenda[w][n].kind = "operand",
             p = <<"agenda", w, n>>
      PROVE  \E i \in Index : \E a \in DOMAIN Family[i] : PlaceOf(p, i, a) /\ <<"src", d>> \in Family[i][a]
  <2> DEFINE i == <<"agenda", w>>   m == agenda[w][n]
  <2>1. i \in Index /\ n \in DOMAIN Family[i] /\ Family[i][n] = MsgTokens(m)
    BY HoldersAre
  <2>2. OperandAt(p) = m /\ PlaceOf(p, i, n)
    BY <1>2 DEF OperandAt, PlaceOf
  <2> QED BY <1>0, <1>2, <2>1, <2>2
<1>3. ASSUME NEW w \in Worker, NEW id \in DOMAIN deferred_operand_table[w],
             NEW n \in DOMAIN deferred_operand_table[w][id], p = <<"deferred", w, id, n>>
      PROVE  \E i \in Index : \E a \in DOMAIN Family[i] : PlaceOf(p, i, a) /\ <<"src", d>> \in Family[i][a]
  <2> DEFINE i == <<"deferred", w>>   s == deferred_operand_table[w][id]   m == s[n]
  <2>1. i \in Index /\ id \in DOMAIN Family[i] /\ Family[i][id] = Held(ListF(s))
    BY HoldersAre
  <2>2. OperandAt(p) = m /\ PlaceOf(p, i, id)
    BY <1>3 DEF OperandAt, Deferred, PlaceOf
  <2>3. m.kind = "operand"
    BY DEF Kept, KeptAt
  <2>4. <<"src", d>> \in MsgTokens(m)
    BY <1>0, <2>2, <2>3
  <2>5. <<"src", d>> \in Held(ListF(s))
    <3>1. n \in DOMAIN s /\ <<"src", d>> \in MsgTokens(s[n])
      BY <2>4
    <3> HIDE DEF s, m
    <3> QED BY <3>1, ListHas
  <2> QED BY <2>1, <2>2, <2>5
<1> QED BY <1>1, <1>2, <1>3, PlacesAre

(* ... and so does who waits for a triple.                                 *)
LEMMA JoinHolds ==
    ASSUME NEW p \in JoinPlaces, NEW d, d = Waiting(p[2], p[3])[p[4]].dest
    PROVE  \E i \in Index : \E a \in DOMAIN Family[i] :
               PlaceOf(p, i, a) /\ <<"src", d>> \in Family[i][a]
<1>0. PICK w \in Worker : \E k \in DOMAIN deferred_ite_table[w] :
          \E n \in DOMAIN deferred_ite_table[w][k] : p = <<"join", w, k, n>>
  BY PlacesAre
<1>1. PICK k \in DOMAIN deferred_ite_table[w] :
          \E n \in DOMAIN deferred_ite_table[w][k] : p = <<"join", w, k, n>>
  BY <1>0
<1>2. PICK n \in DOMAIN deferred_ite_table[w][k] : p = <<"join", w, k, n>>
  BY <1>1
<1> DEFINE i == <<"join", w>>   s == deferred_ite_table[w][k]
<1>3. /\ i \in Index /\ k \in DOMAIN Family[i]
      /\ Family[i][k] = Tagged("entry", {Entry(w, k)}) \union Held(WaiterF(s))
  BY HoldersAre
<1>4. d = s[n].dest /\ PlaceOf(p, i, k)
  BY <1>2 DEF Waiting, PlaceOf
<1>5. <<"src", d>> \in Held(WaiterF(s))
  <2> HIDE DEF s
  <2> QED BY <1>2, <1>4, ListHas DEF s
<1> QED BY <1>3, <1>4, <1>5

-----------------------------------------------------------------------------
(* What feeds a slot.                                                      *)
LEMMA FeedsAre ==
    /\ DOMAIN Feeds = OperandPlaces \union Places \union JoinPlaces
    /\ \A p \in OperandPlaces : Feeds[p] = OperandSlots(OperandAt(p))
    /\ \A p \in Places : Feeds[p] = AnswerSlots(OperatorAt(p))
    /\ \A p \in JoinPlaces : Feeds[p] = {Waiting(p[2], p[3])[p[4]].dest}
<1>1. \A p \in Places : p \notin OperandPlaces
  <2>1. ASSUME NEW m, NEW p, p = <<"net", m>> PROVE p[1] = "net" /\ p[2] = m
    BY <2>1
  <2>2. ASSUME NEW w, NEW n, NEW p, p = <<"agenda", w, n>> PROVE p[1] = "agenda" /\ p[2] = w /\ p[3] = n
    BY <2>2
  <2>3. ASSUME NEW w, NEW id, NEW p, p = <<"table", w, id>> PROVE p[1] = "table"
    BY <2>3
  <2>4. ASSUME NEW w, NEW id, NEW n, NEW p, p = <<"deferred", w, id, n>> PROVE p[1] = "deferred"
    BY <2>4
  <2>5. ASSUME NEW p \in Places
        PROVE  \/ p[1] = "net" /\ p[2].kind = "operation"
               \/ p[1] = "agenda" /\ agenda[p[2]][p[3]].kind = "operation"
               \/ p[1] = "table"
    BY <2>1, <2>2, <2>3, PlacesAre
  <2>6. ASSUME NEW p \in OperandPlaces
        PROVE  \/ p[1] = "net" /\ p[2].kind = "operand"
               \/ p[1] = "agenda" /\ agenda[p[2]][p[3]].kind = "operand"
               \/ p[1] = "deferred"
    BY <2>1, <2>2, <2>4, PlacesAre
  <2> QED BY <2>5, <2>6
<1>2. \A p \in JoinPlaces : p \notin OperandPlaces /\ p \notin Places
  <2>1. \A p \in JoinPlaces : p[1] = "join"
    BY PlacesAre
  <2>2. \A p \in Places : p[1] \in {"net", "agenda", "table"}
    BY PlacesAre
  <2>3. \A p \in OperandPlaces : p[1] \in {"net", "agenda", "deferred"}
    BY PlacesAre
  <2> QED BY <2>1, <2>2, <2>3
<1> QED BY <1>1, <1>2 DEF Feeds

-----------------------------------------------------------------------------
(* The place that a token comes from: an operator that has not fired, an   *)
(* operand, one who waits for a triple, a client or an operator that fired. *)
Whose(i, a, t, d) ==
    \/ \E p \in Places : /\ PlaceOf(p, i, a)
                         /\ <<t, d>> \in OpTokens(AgentAt(p), OperatorAt(p))
    \/ /\ t = "src"
       /\ \E p \in OperandPlaces : PlaceOf(p, i, a) /\ d \in OperandSlots(OperandAt(p))
    \/ /\ t = "src"
       /\ \E p \in JoinPlaces : PlaceOf(p, i, a) /\ d = Waiting(p[2], p[3])[p[4]].dest
    \/ i = <<"wait", 0>> /\ a \in Client /\ wait[a] # None /\ (t = "snk" => d = wait[a])

(* Where one of the tokens is that operators, operands and those who wait  *)
(* hold.                                                                   *)
LEMMA Whence ==
    ASSUME Kept, NEW i \in Index, NEW a \in DOMAIN Family[i], NEW t \in {"src", "snk", "store"},
           NEW d, <<t, d>> \in Family[i][a]
    PROVE  Whose(i, a, t, d)
<1>1. CASE i = <<"net", 0>> /\ a \in DOMAIN net /\ Family[i][a] = MsgTokens(a)
  <2> DEFINE p == <<"net", a>>
  <2>1. /\ PlaceOf(p, i, a) /\ OperatorAt(p) = a.op /\ AgentAt(p) = a.to
        /\ OperandAt(p) = a
    BY <1>1 DEF PlaceOf, OperatorAt, AgentAt, OperandAt
  <2>2. /\ a.kind = "operation" => p \in Places
        /\ a.kind = "operand" => p \in OperandPlaces
    BY <1>1, PlacesAre
  <2>3. \/ a.kind = "operation" /\ <<t, d>> \in OpTokens(a.to, a.op)
        \/ a.kind = "operand" /\ t = "src" /\ d \in OperandSlots(a)
    BY <1>1, MsgHas
  <2> QED BY <2>1, <2>2, <2>3 DEF Whose
<1>2. CASE /\ i = <<"wait", 0>> /\ a \in Client
           /\ Family[i][a] = IF wait[a] = None THEN {}
                             ELSE Tagged("id", {wait[a].id}) \union Tagged("snk", {wait[a]})
  BY <1>2, Tags DEF Whose
<1>3. ASSUME NEW w \in Worker, AtWorker(w, i, a) PROVE Whose(i, a, t, d)
  <2>1. CASE /\ i = <<"agenda", w>> /\ a \in DOMAIN agenda[w]
             /\ Family[i][a] = MsgTokens(agenda[w][a])
    <3> DEFINE p == <<"agenda", w, a>>   m == agenda[w][a]
    <3>1. /\ PlaceOf(p, i, a) /\ OperatorAt(p) = m.op /\ AgentAt(p) = m.to
          /\ OperandAt(p) = m
      BY <2>1 DEF PlaceOf, OperatorAt, AgentAt, OperandAt
    <3>2. /\ m.kind = "operation" => p \in Places
          /\ m.kind = "operand" => p \in OperandPlaces
      BY <2>1, PlacesAre
    <3>3. \/ m.kind = "operation" /\ <<t, d>> \in OpTokens(m.to, m.op)
          \/ m.kind = "operand" /\ t = "src" /\ d \in OperandSlots(m)
      <4>1. <<t, d>> \in MsgTokens(m)
        BY <2>1
      <4> HIDE DEF m
      <4> QED BY <4>1, MsgHas
    <3> QED BY <3>1, <3>2, <3>3 DEF Whose
  <2>2. CASE /\ i = <<"table", w>> /\ a \in DOMAIN operator_table[w]
             /\ Family[i][a] = QueuedTokens(w, operator_table[w][a])
    <3> DEFINE p == <<"table", w, a>>   op == operator_table[w][a]
    <3>1. PlaceOf(p, i, a) /\ OperatorAt(p) = op /\ AgentAt(p) = w
      BY <2>2 DEF PlaceOf, OperatorAt, AgentAt
    <3>2. ~op_check_full(op) /\ <<t, d>> \in OpTokens(w, op)
      <4>1. <<t, d>> \in QueuedTokens(w, op)
        BY <2>2
      <4> HIDE DEF op
      <4> QED BY <4>1, QueuedHas
    <3>3. p \in Places
      BY <2>2, <3>2, PlacesAre
    <3> QED BY <3>1, <3>2, <3>3 DEF Whose
  <2>3. CASE /\ i = <<"deferred", w>> /\ a \in DOMAIN deferred_operand_table[w]
             /\ Family[i][a] = Held(ListF(deferred_operand_table[w][a]))
    <3> DEFINE s == deferred_operand_table[w][a]
    <3>1. PICK n \in DOMAIN s : <<t, d>> \in MsgTokens(s[n])
      <4>1. <<t, d>> \in Held(ListF(s))
        BY <2>3
      <4> HIDE DEF s
      <4> QED BY <4>1, ListHas
    <3> DEFINE p == <<"deferred", w, a, n>>   m == s[n]
    <3>2. m.kind = "operand"
      BY <2>3 DEF Kept, KeptAt
    <3>3. t = "src" /\ d \in OperandSlots(m)
      <4> HIDE DEF m
      <4> QED BY <3>1, <3>2, MsgHas DEF m
    <3>4. PlaceOf(p, i, a) /\ OperandAt(p) = m /\ p \in OperandPlaces
      BY <2>3, PlacesAre DEF PlaceOf, OperandAt, Deferred
    <3> QED BY <3>3, <3>4 DEF Whose
  <2>4. CASE /\ i = <<"join", w>> /\ a \in DOMAIN deferred_ite_table[w]
             /\ Family[i][a] = Tagged("entry", {Entry(w, a)})
                               \union Held(WaiterF(deferred_ite_table[w][a]))
    <3> DEFINE s == deferred_ite_table[w][a]
    <3>1. t = "src" /\ \E n \in DOMAIN s : d = s[n].dest
      <4>1. <<t, d>> \in Held(WaiterF(s))
        BY <2>4, Tags
      <4> HIDE DEF s
      <4> QED BY <4>1, ListHas
    <3>2. PICK n \in DOMAIN s : d = s[n].dest
      BY <3>1
    <3> DEFINE p == <<"join", w, a, n>>
    <3>3. PlaceOf(p, i, a) /\ p \in JoinPlaces /\ d = Waiting(p[2], p[3])[p[4]].dest
      BY <2>4, <3>2, PlacesAre DEF PlaceOf, Waiting
    <3> QED BY <3>1, <3>3 DEF Whose
  <2> QED BY <1>3, <2>1, <2>2, <2>3, <2>4 DEF AtWorker
<1> QED BY <1>1, <1>2, <1>3, Holders

(* The slots that wait are those of the tokens.                            *)
LEMMA EmptyIs ==
    ASSUME Kept, NEW d
    PROVE  d \in EmptySlots <=> <<"snk", d>> \in Held(Part)
<1>0. \A p \in Places : Empty(p) = Sinks(AgentAt(p), OperatorAt(p))
  BY DEF Empty, Sinks
<1>1. ASSUME NEW p \in Places, d \in Empty(p) PROVE <<"snk", d>> \in Held(Part)
  <2>1. PICK i \in Index : \E a \in DOMAIN Family[i] :
            PlaceOf(p, i, a) /\ Family[i][a] = OpTokens(AgentAt(p), OperatorAt(p))
    BY OperatorHolds
  <2>2. PICK a \in DOMAIN Family[i] : Family[i][a] = OpTokens(AgentAt(p), OperatorAt(p))
    BY <2>1
  <2>3. <<"snk", d>> \in Family[i][a]
    BY <1>0, <1>1, <2>2, OpHas
  <2> QED BY <2>3, Holding
<1>2. ASSUME NEW c \in Client, wait[c] # None, d = wait[c] PROVE <<"snk", d>> \in Held(Part)
  <2>1. <<"snk", d>> \in Family[<<"wait", 0>>][c]
    <3>1. Family[<<"wait", 0>>][c] = Tagged("id", {wait[c].id}) \union Tagged("snk", {wait[c]})
      BY <1>2, HoldersAre
    <3>2. <<"snk", d>> \in Tagged("snk", {wait[c]})
      BY <1>2, Tags
    <3> QED BY <3>1, <3>2
  <2> QED BY <2>1, HoldersAre, Holding
<1>3. ASSUME <<"snk", d>> \in Held(Part) PROVE d \in EmptySlots
  <2>1. PICK i \in Index : \E a \in DOMAIN Family[i] : <<"snk", d>> \in Family[i][a]
    BY <1>3, Holding
  <2>2. PICK a \in DOMAIN Family[i] : <<"snk", d>> \in Family[i][a]
    BY <2>1
  <2>3. Whose(i, a, "snk", d)
    BY <2>2, Whence
  <2>4. ASSUME NEW p \in Places, <<"snk", d>> \in OpTokens(AgentAt(p), OperatorAt(p))
        PROVE  d \in Empty(p)
    BY <1>0, <2>4, OpHas
  <2> QED BY <2>3, <2>4 DEF Whose, EmptySlots
<1> QED BY <1>1, <1>2, <1>3 DEF EmptySlots

-----------------------------------------------------------------------------
(* What feeds a slot holds the token of that.                              *)
LEMMA Feeding ==
    ASSUME Kept, NEW p \in DOMAIN Feeds, NEW d \in Feeds[p]
    PROVE  \E i \in Index : \E a \in DOMAIN Family[i] :
               PlaceOf(p, i, a) /\ <<"src", d>> \in Family[i][a]
<1>1. CASE p \in OperandPlaces
  BY <1>1, FeedsAre, OperandHolds
<1>2. CASE p \in Places
  <2>1. PICK i \in Index : \E a \in DOMAIN Family[i] :
            PlaceOf(p, i, a) /\ Family[i][a] = OpTokens(AgentAt(p), OperatorAt(p))
    BY <1>2, OperatorHolds
  <2>2. PICK a \in DOMAIN Family[i] :
            PlaceOf(p, i, a) /\ Family[i][a] = OpTokens(AgentAt(p), OperatorAt(p))
    BY <2>1
  <2>3. <<"src", d>> \in Family[i][a]
    BY <1>2, <2>2, FeedsAre, OpHas
  <2> QED BY <2>2, <2>3
<1>3. CASE p \in JoinPlaces
  BY <1>3, FeedsAre, JoinHolds
<1> QED BY <1>1, <1>2, <1>3, FeedsAre

(* The token of what feeds a slot is at a place that does.                 *)
LEMMA FedBy ==
    ASSUME Kept, NEW d, <<"src", d>> \in Held(Part)
    PROVE  \E p \in DOMAIN Feeds : d \in Feeds[p]
<1>1. PICK i \in Index : \E a \in DOMAIN Family[i] : <<"src", d>> \in Family[i][a]
  BY Holding
<1>2. PICK a \in DOMAIN Family[i] : <<"src", d>> \in Family[i][a]
  BY <1>1
<1>3. Whose(i, a, "src", d)
  BY <1>2, Whence
<1>4. ASSUME NEW p \in Places, <<"src", d>> \in OpTokens(AgentAt(p), OperatorAt(p))
      PROVE  p \in DOMAIN Feeds /\ d \in Feeds[p]
  BY <1>4, OpHas, FeedsAre
<1>5. ASSUME NEW p \in OperandPlaces, d \in OperandSlots(OperandAt(p))
      PROVE  p \in DOMAIN Feeds /\ d \in Feeds[p]
  BY <1>5, FeedsAre
<1>6. ASSUME NEW p \in JoinPlaces, d = Waiting(p[2], p[3])[p[4]].dest
      PROVE  p \in DOMAIN Feeds /\ d \in Feeds[p]
  BY <1>6, FeedsAre
<1>7. ~(i = <<"wait", 0>> /\ a \in Client)
  <2>1. ASSUME i = <<"wait", 0>>, a \in Client PROVE FALSE
    <3>1. Family[i][a] \subseteq Tagged("id", {wait[a].id}) \union Tagged("snk", {wait[a]})
      BY <2>1, HoldersAre
    <3>2. /\ <<"src", d>> \notin Tagged("id", {wait[a].id})
          /\ <<"src", d>> \notin Tagged("snk", {wait[a]})
      BY Tags
    <3> QED BY <1>2, <3>1, <3>2
  <2> QED BY <2>1
<1> QED BY <1>3, <1>4, <1>5, <1>6, <1>7 DEF Whose

-----------------------------------------------------------------------------
(* A holder is one place, except for what waits in the lists of a table.   *)
LEMMA SamePlace ==
    ASSUME NEW p, NEW q, NEW i, NEW a, PlaceOf(p, i, a), PlaceOf(q, i, a)
    PROVE  \/ p = q
           \/ \E w \in Worker : \E n, k : \/ p = <<"deferred", w, a, n>> /\ q = <<"deferred", w, a, k>>
                                          \/ p = <<"join", w, a, n>> /\ q = <<"join", w, a, k>>
<1>1. CASE i = <<"net", 0>> /\ p = <<"net", a>>
  BY <1>1 DEF PlaceOf
<1>2. CASE \E w \in Worker : i = <<"agenda", w>> /\ p = <<"agenda", w, a>>
  BY <1>2 DEF PlaceOf
<1>3. CASE \E w \in Worker : i = <<"table", w>> /\ p = <<"table", w, a>>
  BY <1>3 DEF PlaceOf
<1>4. ASSUME NEW w \in Worker, i = <<"deferred", w>>, NEW n, p = <<"deferred", w, a, n>>
      PROVE  \E k : q = <<"deferred", w, a, k>>
  BY <1>4 DEF PlaceOf
<1>5. ASSUME NEW w \in Worker, i = <<"join", w>>, NEW n, p = <<"join", w, a, n>>
      PROVE  \E k : q = <<"join", w, a, k>>
  BY <1>5 DEF PlaceOf
<1> QED BY <1>1, <1>2, <1>3, <1>4, <1>5 DEF PlaceOf

(* Those share no slot either.                                             *)
LEMMA DeferredOne ==
    ASSUME LinInv, NEW w \in Worker, NEW id, NEW n, NEW k, NEW d,
           <<"deferred", w, id, n>> \in DOMAIN Feeds, <<"deferred", w, id, k>> \in DOMAIN Feeds,
           d \in Feeds[<<"deferred", w, id, n>>], d \in Feeds[<<"deferred", w, id, k>>]
    PROVE  n = k
<1> DEFINE s == deferred_operand_table[w][id]
<1>1. ASSUME NEW o, <<"deferred", w, id, o>> \in DOMAIN Feeds, d \in Feeds[<<"deferred", w, id, o>>]
      PROVE  /\ id \in DOMAIN deferred_operand_table[w] /\ o \in DOMAIN s
             /\ <<"src", d>> \in MsgTokens(s[o])
  <2> DEFINE p == <<"deferred", w, id, o>>
  <2>1. p \in OperandPlaces
    <3>1. p \notin Places /\ p \notin JoinPlaces
      <4>1. p[1] = "deferred"
        OBVIOUS
      <4>2. ASSUME NEW q, q \in Places \/ q \in JoinPlaces PROVE q[1] # "deferred"
        BY <4>2, PlacesAre
      <4> HIDE DEF p
      <4> QED BY <4>1, <4>2
    <3> QED BY <1>1, <3>1, FeedsAre
  <2>2. id \in DOMAIN deferred_operand_table[w] /\ o \in DOMAIN s
    <3>1. \/ \E m \in DOMAIN net : p = <<"net", m>>
          \/ \E v \in Worker : \E x \in DOMAIN agenda[v] : p = <<"agenda", v, x>>
          \/ \E v \in Worker : \E x \in DOMAIN deferred_operand_table[v] :
                 \E y \in DOMAIN deferred_operand_table[v][x] : p = <<"deferred", v, x, y>>
      BY <2>1, PlacesAre
    <3>2. PICK v \in Worker : \E x \in DOMAIN deferred_operand_table[v] :
                 \E y \in DOMAIN deferred_operand_table[v][x] : p = <<"deferred", v, x, y>>
      BY <3>1
    <3> QED BY <3>2
  <2>3. OperandAt(p) = s[o]
    BY <2>2 DEF OperandAt, Deferred
  <2>4. d \in OperandSlots(s[o])
    BY <1>1, <2>1, <2>3, FeedsAre
  <2>5. s[o].kind = "operand"
    BY <2>2 DEF LinInv, Kept, KeptAt
  <2>6. <<"src", d>> \in MsgTokens(s[o])
    <3> DEFINE m == s[o]
    <3>1. m.kind = "operand" /\ d \in OperandSlots(m)
      BY <2>4, <2>5
    <3> HIDE DEF m
    <3>2. <<"src", d>> \in MsgTokens(m)
      BY <3>1, MsgHas
    <3> QED BY <3>2 DEF m
  <2> QED BY <2>2, <2>6
<1>2. /\ id \in DOMAIN deferred_operand_table[w] /\ n \in DOMAIN s /\ k \in DOMAIN s
      /\ <<"src", d>> \in MsgTokens(s[n]) /\ <<"src", d>> \in MsgTokens(s[k])
  BY <1>1
<1>3. Apart(ListF(s))
  BY <1>2 DEF LinInv, Tokens, ListsApart
<1> HIDE DEF s
<1>4. /\ n \in DOMAIN ListF(s) /\ k \in DOMAIN ListF(s)
      /\ <<"src", d>> \in ListF(s)[n] /\ <<"src", d>> \in ListF(s)[k]
  BY <1>2 DEF ListF
<1> QED BY <1>3, <1>4 DEF Apart

(* Nor do two that wait for one triple.                                    *)
LEMMA JoinOne ==
    ASSUME LinInv, NEW w \in Worker, NEW x, NEW n, NEW k, NEW d,
           <<"join", w, x, n>> \in DOMAIN Feeds, <<"join", w, x, k>> \in DOMAIN Feeds,
           d \in Feeds[<<"join", w, x, n>>], d \in Feeds[<<"join", w, x, k>>]
    PROVE  n = k
<1> DEFINE s == deferred_ite_table[w][x]
<1>1. ASSUME NEW o, <<"join", w, x, o>> \in DOMAIN Feeds, d \in Feeds[<<"join", w, x, o>>]
      PROVE  x \in DOMAIN deferred_ite_table[w] /\ o \in DOMAIN s /\ d = s[o].dest
  <2> DEFINE p == <<"join", w, x, o>>
  <2>1. p \in JoinPlaces
    <3>1. p \notin Places /\ p \notin OperandPlaces
      <4>1. p[1] = "join"
        OBVIOUS
      <4>2. ASSUME NEW q, q \in Places \/ q \in OperandPlaces PROVE q[1] # "join"
        BY <4>2, PlacesAre
      <4> HIDE DEF p
      <4> QED BY <4>1, <4>2
    <3> QED BY <1>1, <3>1, FeedsAre
  <2>2. x \in DOMAIN deferred_ite_table[w] /\ o \in DOMAIN s
    <3>1. PICK v \in Worker : \E y \in DOMAIN deferred_ite_table[v] :
                 \E z \in DOMAIN deferred_ite_table[v][y] : p = <<"join", v, y, z>>
      BY <2>1, PlacesAre
    <3> QED BY <3>1
  <2>3. Waiting(p[2], p[3])[p[4]] = s[o]
    BY <2>2 DEF Waiting
  <2>4. Feeds[p] = {Waiting(p[2], p[3])[p[4]].dest}
    <3> HIDE DEF p
    <3> QED BY <2>1, FeedsAre
  <2> QED BY <1>1, <2>2, <2>3, <2>4
<1>2. /\ x \in DOMAIN deferred_ite_table[w] /\ n \in DOMAIN s /\ k \in DOMAIN s
      /\ d = s[n].dest /\ d = s[k].dest
  BY <1>1
<1>3. Apart(WaiterF(s))
  BY <1>2 DEF LinInv, Tokens, ListsApart
<1> HIDE DEF s
<1>4. /\ n \in DOMAIN WaiterF(s) /\ k \in DOMAIN WaiterF(s)
      /\ <<"src", d>> \in WaiterF(s)[n] /\ <<"src", d>> \in WaiterF(s)[k]
  BY <1>2, Tags DEF WaiterF
<1> QED BY <1>3, <1>4 DEF Apart

(* So one place feeds a slot.                                              *)
LEMMA OnePlace ==
    ASSUME LinInv, NEW p \in DOMAIN Feeds, NEW q \in DOMAIN Feeds, NEW d,
           d \in Feeds[p], d \in Feeds[q]
    PROVE  p = q
<1>1. PICK i \in Index : \E a \in DOMAIN Family[i] : PlaceOf(p, i, a) /\ <<"src", d>> \in Family[i][a]
  BY Feeding DEF LinInv
<1>2. PICK a \in DOMAIN Family[i] : PlaceOf(p, i, a) /\ <<"src", d>> \in Family[i][a]
  BY <1>1
<1>3. PICK j \in Index : \E b \in DOMAIN Family[j] : PlaceOf(q, j, b) /\ <<"src", d>> \in Family[j][b]
  BY Feeding DEF LinInv
<1>4. PICK b \in DOMAIN Family[j] : PlaceOf(q, j, b) /\ <<"src", d>> \in Family[j][b]
  BY <1>3
<1>5. i = j /\ a = b
  BY <1>2, <1>4, OneHolder DEF LinInv
<1>6. ASSUME NEW w \in Worker, NEW n, NEW k,
             p = <<"deferred", w, a, n>>, q = <<"deferred", w, a, k>>
      PROVE  p = q
  BY <1>6, DeferredOne
<1>7. ASSUME NEW w \in Worker, NEW n, NEW k, p = <<"join", w, a, n>>, q = <<"join", w, a, k>>
      PROVE  p = q
  BY <1>7, JoinOne
<1> QED BY <1>2, <1>4, <1>5, <1>6, <1>7, SamePlace

(***************************************************************************)
(* Every slot that waits is fed from one place.                            *)
(***************************************************************************)
LEMMA SourceIsOne ==
    ASSUME LinInv
    PROVE  OneSource
<1>1. \A m \in BagToSet(net) : net[m] = 1
  <2>1. net = [m \in DOMAIN net |-> 1]
    BY DEF LinInv, Kept
  <2> QED BY <2>1 DEF BagToSet
<1>2. ASSUME NEW d \in EmptySlots
      PROVE  Cardinality({p \in DOMAIN Feeds : d \in Feeds[p]}) = 1
  <2>1. <<"src", d>> \in Held(Part)
    BY EmptyIs DEF LinInv, Tokens, Paired
  <2>2. PICK p \in DOMAIN Feeds : d \in Feeds[p]
    BY <2>1, FedBy DEF LinInv
  <2>3. {q \in DOMAIN Feeds : d \in Feeds[q]} = {p}
    BY <2>2, OnePlace
  <2> QED BY <2>3, FS_Singleton
<1>3. ASSUME NEW p \in DOMAIN Feeds, NEW d \in Feeds[p]
      PROVE  d \in EmptySlots
  <2>1. PICK i \in Index : \E a \in DOMAIN Family[i] : <<"src", d>> \in Family[i][a]
    BY Feeding DEF LinInv
  <2>2. <<"src", d>> \in Held(Part)
    BY <2>1, Holding
  <2> QED BY <2>2, EmptyIs DEF LinInv, Tokens, Paired
<1> QED BY <1>1, <1>2, <1>3 DEF OneSource

-----------------------------------------------------------------------------
(* An operator that has not fired is at one place.                         *)
LEMMA OperatorOnce ==
    ASSUME LinInv, NEW p \in Places, NEW q \in Places, NEW x,
           x \in OpTokens(AgentAt(p), OperatorAt(p)), x \in OpTokens(AgentAt(q), OperatorAt(q))
    PROVE  p = q
<1>1. PICK i \in Index : \E a \in DOMAIN Family[i] :
          PlaceOf(p, i, a) /\ Family[i][a] = OpTokens(AgentAt(p), OperatorAt(p))
  BY OperatorHolds
<1>2. PICK a \in DOMAIN Family[i] :
          PlaceOf(p, i, a) /\ Family[i][a] = OpTokens(AgentAt(p), OperatorAt(p))
  BY <1>1
<1>3. PICK j \in Index : \E b \in DOMAIN Family[j] :
          PlaceOf(q, j, b) /\ Family[j][b] = OpTokens(AgentAt(q), OperatorAt(q))
  BY OperatorHolds
<1>4. PICK b \in DOMAIN Family[j] :
          PlaceOf(q, j, b) /\ Family[j][b] = OpTokens(AgentAt(q), OperatorAt(q))
  BY <1>3
<1>5. i = j /\ a = b
  BY <1>2, <1>4, OneHolder DEF LinInv
<1>6. p[1] # "deferred" /\ p[1] # "join"
  BY PlacesAre
<1>7. ~\E w, n : p = <<"deferred", w, a, n>> \/ p = <<"join", w, a, n>>
  BY <1>6
<1> QED BY <1>2, <1>4, <1>5, <1>7, SamePlace

(* No two operators that have not fired share an identifier.               *)
LEMMA IdsAreApart ==
    ASSUME LinInv
    PROVE  IdsDiffer
<1> SUFFICES ASSUME NEW p \in Places, NEW q \in Places, OperatorAt(p).id = OperatorAt(q).id
             PROVE  p = q
  BY DEF IdsDiffer
<1>1. <<"id", OperatorAt(p).id>> \in OpTokens(AgentAt(p), OperatorAt(p))
  BY OpHas
<1>2. <<"id", OperatorAt(p).id>> \in OpTokens(AgentAt(q), OperatorAt(q))
  BY OpHas
<1> QED BY <1>1, <1>2, OperatorOnce

(***************************************************************************)
(* A triple that is computed has one store operator.                       *)
(***************************************************************************)
LEMMA StoreIs ==
    ASSUME NEW p \in Places, NEW w, NEW k
    PROVE  p \in StorePlaces(w, k) <=> <<"store", Entry(w, k)>> \in OpTokens(AgentAt(p), OperatorAt(p))
<1>1. \A v, x : Entry(v, x) = Entry(w, k) <=> v = w /\ x = k
  BY DEF Entry
<1>2. <<"store", Entry(w, k)>> \in OpTokens(AgentAt(p), OperatorAt(p))
      <=> Entry(w, k) \in Stores(AgentAt(p), OperatorAt(p))
  BY OpHas
<1> QED BY <1>1, <1>2 DEF Stores, StorePlaces

(* A triple is marked while it has a store operator, and only then.        *)
LEMMA OnceComputed ==
    ASSUME LinInv
    PROVE  ComputedOnce
<1> SUFFICES ASSUME NEW w \in Worker
             PROVE  /\ DOMAIN ite_table[w] \intersect DOMAIN deferred_ite_table[w] = {}
                    /\ \A k \in DOMAIN deferred_ite_table[w] : Cardinality(StorePlaces(w, k)) = 1
                    /\ \A p \in Places : OperatorAt(p).code = "ITE_STORE" /\ AgentAt(p) = w =>
                           Key(OperatorAt(p).arg) \in DOMAIN deferred_ite_table[w]
  BY DEF ComputedOnce
<1>1. DOMAIN ite_table[w] \intersect DOMAIN deferred_ite_table[w] = {}
  BY DEF LinInv, Kept, KeptAt
<1>2. ASSUME NEW k \in DOMAIN deferred_ite_table[w]
      PROVE  Cardinality(StorePlaces(w, k)) = 1
  <2> DEFINE e == Entry(w, k)
  <2>1. <<"entry", e>> \in Held(Part)
    <3>1. Family[<<"join", w>>][k] =
              Tagged("entry", {Entry(w, k)}) \union Held(WaiterF(deferred_ite_table[w][k]))
      BY HoldersAre
    <3>2. <<"entry", e>> \in Tagged("entry", {Entry(w, k)})
      BY Tags
    <3>3. <<"join", w>> \in Index /\ k \in DOMAIN Family[<<"join", w>>]
      BY HoldersAre
    <3>4. <<"entry", e>> \in Family[<<"join", w>>][k]
      BY <3>1, <3>2
    <3> QED BY <3>3, <3>4, Holding
  <2> HIDE DEF e
  <2>2. <<"store", e>> \in Held(Part)
    BY <2>1 DEF LinInv, Tokens, Paired
  <2>3. PICK i \in Index : \E a \in DOMAIN Family[i] : <<"store", e>> \in Family[i][a]
    BY <2>2, Holding
  <2>4. PICK a \in DOMAIN Family[i] : <<"store", e>> \in Family[i][a]
    BY <2>3
  <2>5. Whose(i, a, "store", e)
    BY <2>4, Whence DEF LinInv
  <2>6. ~(i = <<"wait", 0>> /\ a \in Client)
    <3>1. ASSUME i = <<"wait", 0>>, a \in Client PROVE FALSE
      <4>1. Family[i][a] \subseteq Tagged("id", {wait[a].id}) \union Tagged("snk", {wait[a]})
        BY <3>1, HoldersAre
      <4>2. /\ <<"store", e>> \notin Tagged("id", {wait[a].id})
            /\ <<"store", e>> \notin Tagged("snk", {wait[a]})
        BY Tags
      <4> QED BY <2>4, <4>1, <4>2
    <3> QED BY <3>1
  <2>7. PICK p \in Places : <<"store", e>> \in OpTokens(AgentAt(p), OperatorAt(p))
    BY <2>5, <2>6 DEF Whose
  <2>8. \A q \in StorePlaces(w, k) : q \in Places
    BY DEF StorePlaces
  <2>9. StorePlaces(w, k) = {p}
    BY <2>7, <2>8, StoreIs, OperatorOnce DEF e
  <2> QED BY <2>9, FS_Singleton
<1>3. ASSUME NEW p \in Places, OperatorAt(p).code = "ITE_STORE", AgentAt(p) = w
      PROVE  Key(OperatorAt(p).arg) \in DOMAIN deferred_ite_table[w]
  <2> DEFINE k == Key(OperatorAt(p).arg)   e == Entry(w, k)
  <2>1. p \in StorePlaces(w, k)
    BY <1>3 DEF StorePlaces
  <2>2. <<"store", e>> \in OpTokens(AgentAt(p), OperatorAt(p))
    <3> HIDE DEF k
    <3> QED BY <2>1, StoreIs
  <2>3. PICK i \in Index : \E a \in DOMAIN Family[i] :
            Family[i][a] = OpTokens(AgentAt(p), OperatorAt(p))
    BY OperatorHolds
  <2> HIDE DEF e
  <2>4. <<"store", e>> \in Held(Part)
    BY <2>2, <2>3, Holding
  <2>5. <<"entry", e>> \in Held(Part)
    BY <2>4 DEF LinInv, Tokens, Paired
  <2>6. PICK j \in Index : \E b \in DOMAIN Family[j] : <<"entry", e>> \in Family[j][b]
    BY <2>5, Holding
  <2>7. PICK b \in DOMAIN Family[j] : <<"entry", e>> \in Family[j][b]
    BY <2>6
  <2>8. PICK v \in Worker : b \in DOMAIN deferred_ite_table[v] /\ e = Entry(v, b)
    BY <2>7, EntryHome
  <2>9. v = w /\ b = k
    <3> HIDE DEF k
    <3> QED BY <2>8 DEF Entry, e
  <2> QED BY <2>8, <2>9
<1> QED BY <1>1, <1>2, <1>3

-----------------------------------------------------------------------------
(* Every slot that waits is fed from exactly one place, and everything on  *)
(* its way feeds one: no operand is lost or comes twice.                   *)
THEOREM AlwaysOneSource == Spec /\ NeverWraps => []OneSource
<1>1. LinInv => OneSource
  BY SourceIsOne
<1> QED BY <1>1, AlwaysLinear, PTL

(* No two operators that have not fired share an identifier, so that       *)
(* receive_operation drops none for a collision.                           *)
THEOREM AlwaysIdsDiffer == Spec /\ NeverWraps => []IdsDiffer
<1>1. LinInv => IdsDiffer
  BY IdsAreApart
<1> QED BY <1>1, AlwaysLinear, PTL

(* A triple is marked in the deferred table exactly while one operator     *)
(* that will store it has not fired.                                       *)
THEOREM AlwaysComputedOnce == Spec /\ NeverWraps => []ComputedOnce
<1>1. LinInv => ComputedOnce
  BY OnceComputed
<1> QED BY <1>1, AlwaysLinear, PTL

-----------------------------------------------------------------------------
(* A table is a function from its keys.                                    *)
IsTable(t) == t = [k \in DOMAIN t |-> t[k]]
Tabled(f) == DOMAIN f = Worker /\ \A w \in Worker : IsTable(f[w])

(* What is done to a table leaves one, and the empty table is this.        *)
LEMMA TableFacts ==
    /\ IsTable(<<>>)
    /\ \A t : IsTable(t) /\ DOMAIN t = {} => t = <<>>
    /\ \A t, k, x : IsTable(keyvalue_insert(t, k, x))
    /\ \A t, k, x : IsTable([t EXCEPT ![k] = x])
    /\ \A t, S : IsTable(Restrict(t, S))
<1>1. IsTable(<<>>)
  BY DEF IsTable
<1>2. \A t : IsTable(t) /\ DOMAIN t = {} => t = <<>>
  BY DEF IsTable
<1>3. \A t, k, x : IsTable(keyvalue_insert(t, k, x))
  BY DEF IsTable, keyvalue_insert
<1>4. ASSUME NEW t, NEW k, NEW x PROVE IsTable([t EXCEPT ![k] = x])
  <2> DEFINE u == [t EXCEPT ![k] = x]
  <2>1. u = [j \in DOMAIN t |-> IF j = k THEN x ELSE t[j]]
    OBVIOUS
  <2> QED BY <2>1 DEF IsTable
<1>5. \A t, S : IsTable(Restrict(t, S))
  BY DEF IsTable, Restrict
<1> QED BY <1>1, <1>2, <1>3, <1>4, <1>5

(* So is a family of tables in which one changes.                          *)
LEMMA TabledNext ==
    ASSUME NEW f, Tabled(f), NEW w \in Worker, NEW t, IsTable(t), NEW g, g = [f EXCEPT ![w] = t]
    PROVE  Tabled(g)
  BY DEF Tabled

(* The runtime's tables, and the one of those that wait for a triple.      *)
RuntimeTables == Tabled(operator_table) /\ Tabled(deferred_operand_table)
TablesAre == RuntimeTables /\ Tabled(deferred_ite_table)

(* Removing a deferred list leaves tables.                                 *)
LEMMA ForgetTables ==
    ASSUME Tabled(deferred_operand_table), NEW w \in Worker, NEW id, ForgetDeferred(w, id)
    PROVE  Tabled(deferred_operand_table)'
<1> DEFINE t == Restrict(deferred_operand_table[w], DOMAIN deferred_operand_table[w] \ {id})
<1>1. deferred_operand_table' = [deferred_operand_table EXCEPT ![w] = t]
  BY DEF ForgetDeferred
<1>2. IsTable(t)
  BY TableFacts
<1>3. Tabled(deferred_operand_table')
  <2> HIDE DEF t
  <2> QED BY <1>1, <1>2, TabledNext
<1> QED BY <1>3 DEF Tabled, IsTable

(* So does queueing a message, ...                                         *)
LEMMA QueueTables ==
    ASSUME RuntimeTables, NEW w \in Worker, Queue(w)
    PROVE  RuntimeTables'
<1>1. PICK m \in Arrival(w) :
        /\ IF Matched(w, m)
           THEN operator_table' = [operator_table EXCEPT ![w] =
                                      keyvalue_insert(@, Accepted(w, m).id, Accepted(w, m))]
           ELSE UNCHANGED operator_table
        /\ CASE m.kind = "operand" /\ ~Matched(w, m) -> add_deferred_operand(w, m)
             [] m.kind = "operation" /\ Matched(w, m) -> ForgetDeferred(w, Accepted(w, m).id)
             [] OTHER -> UNCHANGED deferred_operand_table
  BY DEF Queue
<1>2. Tabled(operator_table')
  <2> DEFINE t == keyvalue_insert(operator_table[w], Accepted(w, m).id, Accepted(w, m))
  <2>1. IsTable(t)
    BY TableFacts
  <2>2. operator_table' = [operator_table EXCEPT ![w] = t] \/ operator_table' = operator_table
    BY <1>1
  <2> HIDE DEF t
  <2> QED BY <2>1, <2>2, TabledNext DEF RuntimeTables
<1>3. Tabled(deferred_operand_table)'
  <2>1. CASE add_deferred_operand(w, m)
    <3> DEFINE t == keyvalue_insert(deferred_operand_table[w], m.id,
                        IF Deferred(w, m.id) = <<>> THEN <<m>>
                        ELSE <<Head(Deferred(w, m.id)), m>> \o Tail(Deferred(w, m.id)))
    <3>1. IsTable(t)
      BY TableFacts
    <3>2. deferred_operand_table' = [deferred_operand_table EXCEPT ![w] = t]
      BY <2>1 DEF add_deferred_operand
    <3>3. Tabled(deferred_operand_table')
      <4> HIDE DEF t
      <4> QED BY <3>1, <3>2, TabledNext DEF RuntimeTables
    <3> QED BY <3>3 DEF Tabled, IsTable
  <2>2. CASE ForgetDeferred(w, Accepted(w, m).id)
    BY <2>2, ForgetTables DEF RuntimeTables
  <2>3. CASE UNCHANGED deferred_operand_table
    BY <2>3 DEF RuntimeTables, Tabled, IsTable
  <2> QED BY <1>1, <2>1, <2>2, <2>3
<1> QED BY <1>2, <1>3 DEF RuntimeTables, Tabled, IsTable

(* ... firing an operator, ...                                             *)
LEMMA EmitTables ==
    ASSUME RuntimeTables, NEW w \in Worker, NEW f, NEW msgs, Emit(w, f, msgs)
    PROVE  RuntimeTables'
<1>1. CASE f.msg.kind = "operand"
  <2>1. /\ operator_table' = [operator_table EXCEPT ![w][f.msg.id] = f.op]
        /\ UNCHANGED deferred_operand_table
    BY <1>1 DEF Emit
  <2> DEFINE t == [operator_table[w] EXCEPT ![f.msg.id] = f.op]
  <2>2. operator_table' = [operator_table EXCEPT ![w] = t] /\ IsTable(t)
    BY <2>1, TableFacts
  <2>3. Tabled(operator_table')
    <3> HIDE DEF t
    <3> QED BY <2>2, TabledNext DEF RuntimeTables
  <2> QED BY <2>1, <2>3 DEF RuntimeTables, Tabled, IsTable
<1>2. CASE f.msg.kind # "operand"
  <2>1. UNCHANGED operator_table /\ ForgetDeferred(w, f.op.id)
    BY <1>2 DEF Emit
  <2>2. Tabled(deferred_operand_table)'
    BY <2>1, ForgetTables DEF RuntimeTables
  <2> QED BY <2>1, <2>2 DEF RuntimeTables, Tabled, IsTable
<1> QED BY <1>1, <1>2

(* ... removing one that has fired, ...                                    *)
LEMMA FinishTables ==
    ASSUME RuntimeTables, NEW w \in Worker, Finish(w)
    PROVE  RuntimeTables'
<1> DEFINE id == Head(agenda[w]).id
           t == Restrict(operator_table[w], DOMAIN operator_table[w] \ {id})
<1>1. operator_table' = [operator_table EXCEPT ![w] = t] /\ UNCHANGED deferred_operand_table
  BY DEF Finish
<1>2. IsTable(t)
  BY TableFacts
<1>3. Tabled(operator_table')
  <2> HIDE DEF t
  <2> QED BY <1>1, <1>2, TabledNext DEF RuntimeTables
<1> QED BY <1>1, <1>3 DEF RuntimeTables, Tabled, IsTable

(* ... and a step that changes neither.                                    *)
LEMMA StayTables ==
    ASSUME RuntimeTables, UNCHANGED <<operator_table, deferred_operand_table>>
    PROVE  RuntimeTables'
  BY DEF RuntimeTables, Tabled, IsTable

-----------------------------------------------------------------------------
(* A request waits for a triple.                                           *)
LEMMA JoinTables ==
    ASSUME TablesAre, NEW w \in Worker, IteJoin(w)
    PROVE  TablesAre'
<1>1. PICK f \in Firings(w, "ITE_LOOKUP") :
          /\ deferred_ite_table' = [deferred_ite_table EXCEPT ![w][Key(f.op.arg)] =
                 <<[dest |-> f.op.dest, neg |-> f.op.arg.neg]>> \o @]
          /\ Emit(w, f, <<>>)
  BY DEF IteJoin
<1> DEFINE k == Key(f.op.arg)
           t == [deferred_ite_table[w] EXCEPT ![k] =
                    <<[dest |-> f.op.dest, neg |-> f.op.arg.neg]>> \o @]
<1>2. deferred_ite_table' = [deferred_ite_table EXCEPT ![w] = t]
  BY <1>1
<1>3. IsTable(t)
  <2> DEFINE x == <<[dest |-> f.op.dest, neg |-> f.op.arg.neg]>> \o deferred_ite_table[w][k]
  <2>1. t = [deferred_ite_table[w] EXCEPT ![k] = x]
    OBVIOUS
  <2> HIDE DEF x, k, t
  <2> QED BY <2>1, TableFacts
<1>4. Tabled(deferred_ite_table')
  <2> HIDE DEF t
  <2> QED BY <1>2, <1>3, TabledNext DEF TablesAre
<1>5. RuntimeTables'
  BY <1>1, EmitTables DEF TablesAre
<1> QED BY <1>4, <1>5 DEF TablesAre, Tabled, IsTable

(* A triple is marked.                                                     *)
LEMMA SplitTables ==
    ASSUME TablesAre, NEW w \in Worker, IteSplit(w)
    PROVE  TablesAre'
<1>1. \E f, msgs : /\ deferred_ite_table' = [deferred_ite_table EXCEPT ![w] =
                                              keyvalue_insert(@, Key(f.op.arg), <<>>)]
                   /\ Emit(w, f, msgs)
  BY DEF IteSplit
<1>2. PICK f, msgs : /\ deferred_ite_table' = [deferred_ite_table EXCEPT ![w] =
                                              keyvalue_insert(@, Key(f.op.arg), <<>>)]
                     /\ Emit(w, f, msgs)
  BY <1>1
<1> DEFINE t == keyvalue_insert(deferred_ite_table[w], Key(f.op.arg), <<>>)
<1>3. deferred_ite_table' = [deferred_ite_table EXCEPT ![w] = t] /\ IsTable(t)
  BY <1>2, TableFacts
<1>4. Tabled(deferred_ite_table')
  <2> HIDE DEF t
  <2> QED BY <1>3, TabledNext DEF TablesAre
<1>5. RuntimeTables'
  BY <1>2, EmitTables DEF TablesAre
<1> QED BY <1>4, <1>5 DEF TablesAre, Tabled, IsTable

(* A triple is stored.                                                     *)
LEMMA StoreTables ==
    ASSUME TablesAre, NEW w \in Worker, DoIteStore(w)
    PROVE  TablesAre'
<1>1. \E f, msgs, k : RemoveDeferredIte(w, k) /\ Emit(w, f, msgs)
  BY DEF DoIteStore
<1>2. PICK f, msgs, k : RemoveDeferredIte(w, k) /\ Emit(w, f, msgs)
  BY <1>1
<1> DEFINE t == Restrict(deferred_ite_table[w], DOMAIN deferred_ite_table[w] \ {k})
<1>3. deferred_ite_table' = [deferred_ite_table EXCEPT ![w] = t] /\ IsTable(t)
  BY <1>2, TableFacts DEF RemoveDeferredIte
<1>4. Tabled(deferred_ite_table')
  <2> HIDE DEF t
  <2> QED BY <1>3, TabledNext DEF TablesAre
<1>5. RuntimeTables'
  BY <1>2, EmitTables DEF TablesAre
<1> QED BY <1>4, <1>5 DEF TablesAre, Tabled, IsTable

(* Another operator fires.                                                 *)
LEMMA FireTables ==
    ASSUME TablesAre, NEW w \in Worker, NEW f, NEW msgs, Emit(w, f, msgs),
           UNCHANGED deferred_ite_table
    PROVE  TablesAre'
<1>1. RuntimeTables'
  BY EmitTables DEF TablesAre
<1> QED BY <1>1 DEF TablesAre, Tabled, IsTable

(* Only the runtime's tables change.                                       *)
LEMMA RuntimeStep ==
    ASSUME TablesAre, RuntimeTables', UNCHANGED deferred_ite_table
    PROVE  TablesAre'
  BY DEF TablesAre, Tabled, IsTable

(* Every step leaves tables.                                               *)
LEMMA StepTables ==
    ASSUME TablesAre, [Next]_vars
    PROVE  TablesAre'
<1>1. CASE UNCHANGED vars
  <2>1. UNCHANGED <<operator_table, deferred_operand_table, deferred_ite_table>>
    BY <1>1 DEF vars, runtimeVars, tableVars
  <2> QED BY <2>1, StayTables, RuntimeStep DEF TablesAre
<1>2. ASSUME NEW w \in Worker, WorkerStep(w) PROVE TablesAre'
  <2>0. UNCHANGED tableVars => UNCHANGED deferred_ite_table
    BY DEF tableVars
  <2>1. CASE Queue(w) /\ UNCHANGED <<tableVars, clientVars>>
    BY <2>0, <2>1, QueueTables, RuntimeStep DEF TablesAre
  <2>2. CASE send_op(w) /\ UNCHANGED <<tableVars, clientVars>>
    BY <2>0, <2>2, StayTables, RuntimeStep DEF TablesAre, send_op
  <2>3. CASE Finish(w) /\ UNCHANGED <<tableVars, clientVars>>
    BY <2>0, <2>3, FinishTables, RuntimeStep DEF TablesAre
  <2>4. CASE IteHit(w)
    <3>1. \E f, msgs : Emit(w, f, msgs) /\ UNCHANGED deferred_ite_table
      BY <2>0, <2>4 DEF IteHit
    <3> QED BY <3>1, FireTables
  <2>5. CASE DoRetrieveLookup(w)
    <3>1. \E f, msgs : Emit(w, f, msgs) /\ UNCHANGED deferred_ite_table
      BY <2>0, <2>5 DEF DoRetrieveLookup
    <3> QED BY <3>1, FireTables
  <2>6. CASE DoIteRecurse(w)
    <3>1. \E f, msgs : Emit(w, f, msgs) /\ UNCHANGED deferred_ite_table
      BY <2>0, <2>6 DEF DoIteRecurse
    <3> QED BY <3>1, FireTables
  <2>7. CASE DoCanonize(w)
    <3>1. \E f, msgs : Emit(w, f, msgs) /\ UNCHANGED deferred_ite_table
      BY <2>0, <2>7 DEF DoCanonize
    <3> QED BY <3>1, FireTables
  <2>8. CASE DoCanonizeLookup(w)
    <3>1. \E f, msgs : Emit(w, f, msgs) /\ UNCHANGED deferred_ite_table
      BY <2>8 DEF DoCanonizeLookup
    <3> QED BY <3>1, FireTables
  <2> QED BY <1>2, <2>1, <2>2, <2>3, <2>4, <2>5, <2>6, <2>7, <2>8,
             JoinTables, SplitTables, StoreTables DEF WorkerStep
<1>3. ASSUME NEW c \in Client, Ask(c) \/ AskLocally(c) \/ Answer(c) PROVE TablesAre'
  <2>1. UNCHANGED <<operator_table, deferred_operand_table, deferred_ite_table>>
    BY <1>3 DEF Ask, AskLocally, Answer, FireAndWait, TakeAnswer, tableVars, runtimeVars
  <2> QED BY <2>1, StayTables, RuntimeStep DEF TablesAre
<1> QED BY <1>1, <1>2, <1>3 DEF Next

(* The tables are there at first.                                          *)
LEMMA InitTables == Init => TablesAre
<1>1. IsTable(<<>>)
  BY TableFacts
<1>2. \A f : f = [w \in Worker |-> <<>>] => Tabled(f)
  BY <1>1 DEF Tabled
<1> QED BY <1>2 DEF Init, DataflowInit, TablesAre, RuntimeTables

-----------------------------------------------------------------------------
(* No client waits and no worker is within a handler.                      *)
Quiet == /\ \A c \in Client : wait[c] = None
         /\ \A w \in Worker : agenda[w] = <<>>

(* Then nothing is about to remove an operator that has fired, ...         *)
LEMMA NoRetire ==
    ASSUME NEW C, RuntimeIn(C), Kept, Quiet, NEW d
    PROVE  <<"ret", d>> \notin Held(Part)
<1> SUFFICES ASSUME <<"ret", d>> \in Held(Part) PROVE FALSE
  OBVIOUS
<1>1. PICK i \in Index : \E a \in DOMAIN Family[i] : <<"ret", d>> \in Family[i][a]
  BY Holding
<1>2. PICK a \in DOMAIN Family[i] : <<"ret", d>> \in Family[i][a]
  BY <1>1
<1>3. \A b, op : <<"ret", d>> \notin OpTokens(b, op)
  BY OpHas
<1>4. \A m : m.kind = "operation" \/ m.kind = "operand" => <<"ret", d>> \notin MsgTokens(m)
  BY <1>3, MsgHas
<1>5. CASE i = <<"net", 0>> /\ a \in DOMAIN net /\ Family[i][a] = MsgTokens(a)
  <2>1. a.kind = "operation" \/ a.kind = "operand"
    BY <1>5 DEF RuntimeIn, MessageIn
  <2> QED BY <1>2, <1>4, <1>5, <2>1
<1>6. CASE /\ i = <<"wait", 0>> /\ a \in Client
           /\ Family[i][a] = IF wait[a] = None THEN {}
                             ELSE Tagged("id", {wait[a].id}) \union Tagged("snk", {wait[a]})
  BY <1>2, <1>6 DEF Quiet
<1>7. ASSUME NEW w \in Worker, AtWorker(w, i, a) PROVE FALSE
  <2>1. CASE a \in DOMAIN agenda[w]
    BY <2>1 DEF Quiet
  <2>2. CASE Family[i][a] = QueuedTokens(w, operator_table[w][a])
    <3> DEFINE op == operator_table[w][a]
    <3>1. <<"ret", d>> \notin QueuedTokens(w, op)
      <4> HIDE DEF op
      <4> QED BY <1>3, QueuedHas
    <3> QED BY <1>2, <2>2, <3>1
  <2>3. CASE /\ a \in DOMAIN deferred_operand_table[w]
             /\ Family[i][a] = Held(ListF(deferred_operand_table[w][a]))
    <3> DEFINE s == deferred_operand_table[w][a]
    <3>1. \A n \in DOMAIN s : s[n].kind = "operand"
      BY <2>3 DEF Kept, KeptAt
    <3>2. <<"ret", d>> \notin Held(ListF(s))
      <4> HIDE DEF s
      <4> QED BY <1>4, <3>1, ListHas
    <3> QED BY <1>2, <2>3, <3>2
  <2>4. CASE Family[i][a] = Tagged("entry", {Entry(w, a)})
                            \union Held(WaiterF(deferred_ite_table[w][a]))
    <3> DEFINE s == deferred_ite_table[w][a]
    <3>1. <<"ret", d>> \notin Held(WaiterF(s))
      <4> HIDE DEF s
      <4> QED BY ListHas
    <3>2. <<"ret", d>> \notin Tagged("entry", {Entry(w, a)})
      BY Tags
    <3> QED BY <1>2, <2>4, <3>1, <3>2
  <2> QED BY <1>7, <2>1, <2>2, <2>3, <2>4 DEF AtWorker
<1> QED BY <1>2, <1>5, <1>6, <1>7, Holders

(* ... no operator is left: one of least rank would have to answer one of  *)
(* lower rank, ...                                                         *)
LEMMA NoOperator ==
    ASSUME NEW C, C \in Worlds, RuntimeIn(C), LinInv, Quiet
    PROVE  Places = {}
<1> SUFFICES ASSUME Places # {} PROVE FALSE
  OBVIOUS
<1> DEFINE RankOf(p) == C.rank[OperatorAt(p).id]
           S == {RankOf(p) : p \in Places}
<1>1. ASSUME NEW p \in Places
      PROVE  /\ RankOf(p) \in Nat
             /\ C.rank[OperatorAt(p).dest.id] < RankOf(p)
  <2>1. PICK op, a : OperatorAt(p) = op /\ OperatorIn(C, op, a)
    BY PlacedRight
  <2> QED BY <2>1 DEF OperatorIn, Issued, Worlds
<1>2. S \in SUBSET Nat /\ S # {}
  BY <1>1
<1>3. PICK x \in S : \A y \in S : x =< y
  <2> HIDE DEF S
  <2> QED BY <1>2, NatMin
<1>4. PICK p \in Places : x = RankOf(p)
  BY <1>3
<1> DEFINE d == OperatorAt(p).dest
<1>5. <<"src", d>> \in Held(Part)
  <2>1. PICK i \in Index : \E a \in DOMAIN Family[i] : Family[i][a] = OpTokens(AgentAt(p), OperatorAt(p))
    BY OperatorHolds
  <2>2. d \in AnswerSlots(OperatorAt(p))
    BY DEF AnswerSlots
  <2>3. <<"src", d>> \in OpTokens(AgentAt(p), OperatorAt(p))
    <3> HIDE DEF d
    <3> QED BY <2>2, OpHas
  <2> QED BY <2>1, <2>3, Holding
<1>6. d \in EmptySlots
  <2> HIDE DEF d
  <2> QED BY <1>5, EmptyIs DEF LinInv, Tokens, Paired
<1>7. PICK q \in Places : d \in Empty(q)
  BY <1>6 DEF EmptySlots, Quiet
<1>8. d.id = OperatorAt(q).id
  <2> HIDE DEF d
  <2> QED BY <1>7 DEF Empty, Destination
<1>9. RankOf(q) < x
  BY <1>1, <1>4, <1>8
<1>10. RankOf(q) \in S /\ RankOf(q) \in Nat /\ x \in Nat
  BY <1>1, <1>4
<1> HIDE DEF RankOf, S
<1> QED BY <1>3, <1>9, <1>10

(* ... no slot waits, and so nothing is left that would fill one.          *)
LEMMA NothingFeeds ==
    ASSUME NEW C, C \in Worlds, RuntimeIn(C), LinInv, Quiet
    PROVE  \A d : <<"src", d>> \notin Held(Part)
<1>1. EmptySlots = {}
  BY NoOperator DEF EmptySlots, Quiet
<1> QED BY <1>1, EmptyIs DEF LinInv, Tokens, Paired

(* ... no message is under way, ...                                        *)
LEMMA NoMessage ==
    ASSUME NEW C, C \in Worlds, RuntimeIn(C), LinInv, Quiet
    PROVE  net = EmptyBag
<1>1. ASSUME NEW m \in DOMAIN net PROVE FALSE
  <2>1. CASE m.kind = "operation"
    <3>1. <<"net", m>> \in Places
      BY <2>1, PlacesAre
    <3> QED BY <3>1, NoOperator
  <2>2. CASE m.kind = "operand"
    <3>1. Says(m)
      BY DEF LinInv, Kept
    <3>2. PICK o : o \in DOMAIN m.data
      BY <2>2, <3>1 DEF Says
    <3>3. Destination(m.to, m.id, o) \in OperandSlots(m)
      BY <3>2 DEF OperandSlots
    <3>4. PICK d : d \in OperandSlots(m)
      BY <3>3
    <3>5. <<"src", d>> \in MsgTokens(m)
      BY <2>2, <3>4, MsgHas
    <3>6. <<"src", d>> \in Held(Part)
      BY <3>5, HoldersAre, Holding
    <3> QED BY <3>6, NothingFeeds
  <2> QED BY <2>1, <2>2 DEF RuntimeIn, MessageIn
<1>2. net = [m \in DOMAIN net |-> 1] /\ DOMAIN net = {}
  BY <1>1 DEF LinInv, Kept
<1> QED BY <1>2 DEF EmptyBag, SetToBag

(* ... no operator is in a table, ...                                      *)
LEMMA NoQueued ==
    ASSUME NEW C, C \in Worlds, RuntimeIn(C), LinInv, Quiet, TablesAre, NEW w \in Worker
    PROVE  operator_table[w] = <<>>
<1>1. ASSUME NEW id \in DOMAIN operator_table[w] PROVE FALSE
  <2> DEFINE op == operator_table[w][id]
  <2>1. CASE ~op_check_full(op)
    <3>1. <<"table", w, id>> \in Places
      BY <2>1, PlacesAre
    <3> QED BY <3>1, NoOperator
  <2>2. CASE op_check_full(op)
    <3> DEFINE d == Destination(w, op.id, 0)
    <3>1. <<"full", d>> \in QueuedTokens(w, op)
      <4>1. op_check_full(op)
        BY <2>2
      <4> HIDE DEF op
      <4> QED BY <4>1, QueuedHas
    <3>2. <<"full", d>> \in Held(Part)
      <4>1. Family[<<"table", w>>][id] = QueuedTokens(w, op)
        BY HoldersAre
      <4>2. <<"table", w>> \in Index /\ id \in DOMAIN Family[<<"table", w>>]
        BY HoldersAre
      <4> HIDE DEF op, d
      <4> QED BY <3>1, <4>1, <4>2, Holding
    <3> HIDE DEF d
    <3>3. <<"ret", d>> \in Held(Part)
      BY <3>2 DEF LinInv, Tokens, Paired
    <3> QED BY <3>3, NoRetire DEF LinInv
  <2> QED BY <2>1, <2>2
<1>2. IsTable(operator_table[w])
  BY DEF TablesAre, RuntimeTables, Tabled
<1> QED BY <1>1, <1>2, TableFacts

(* ... no operand is deferred, ...                                         *)
LEMMA NoDeferred ==
    ASSUME NEW C, C \in Worlds, RuntimeIn(C), LinInv, Quiet, TablesAre, NEW w \in Worker
    PROVE  deferred_operand_table[w] = <<>>
<1>1. ASSUME NEW id \in DOMAIN deferred_operand_table[w] PROVE FALSE
  <2> DEFINE s == deferred_operand_table[w][id]
  <2>1. /\ s # <<>>
        /\ \A n \in DOMAIN s : s[n].kind = "operand" /\ DOMAIN s[n].data # {}
    BY DEF LinInv, Kept, KeptAt
  <2>2. PICK n : n \in DOMAIN s
    <3>1. ListIn(C, id, s)
      BY DEF RuntimeIn
    <3>2. \E S : s \in Seq(S)
      <4> HIDE DEF s
      <4> QED BY <3>1 DEF ListIn
    <3> HIDE DEF s
    <3> QED BY <2>1, <3>2
  <2> DEFINE m == s[n]
  <2>3. m.kind = "operand" /\ DOMAIN m.data # {}
    BY <2>1, <2>2
  <2>4. n \in DOMAIN s /\ m = s[n]
    BY <2>2
  <2> HIDE DEF m
  <2>5. PICK o : o \in DOMAIN m.data
    BY <2>3
  <2>6. PICK d : d \in OperandSlots(m)
    BY <2>5 DEF OperandSlots
  <2>7. <<"src", d>> \in MsgTokens(m)
    BY <2>3, <2>6, MsgHas
  <2>8. <<"src", d>> \in Held(ListF(s))
    <3> HIDE DEF s
    <3> QED BY <2>4, <2>7, ListHas
  <2>9. Family[<<"deferred", w>>][id] = Held(ListF(s))
    BY HoldersAre
  <2>10. <<"deferred", w>> \in Index /\ id \in DOMAIN Family[<<"deferred", w>>]
    BY HoldersAre
  <2>11. <<"src", d>> \in Held(Part)
    <3> HIDE DEF s
    <3> QED BY <2>8, <2>9, <2>10, Holding
  <2> QED BY <2>11, NothingFeeds
<1>2. IsTable(deferred_operand_table[w])
  BY DEF TablesAre, RuntimeTables, Tabled
<1> QED BY <1>1, <1>2, TableFacts

(* ... and nobody waits for a triple.                                      *)
LEMMA NoJoined ==
    ASSUME NEW C, C \in Worlds, RuntimeIn(C), LinInv, Quiet, TablesAre, NEW w \in Worker
    PROVE  deferred_ite_table[w] = <<>>
<1>1. ASSUME NEW k \in DOMAIN deferred_ite_table[w] PROVE FALSE
  <2>1. Cardinality(StorePlaces(w, k)) = 1
    BY OnceComputed DEF ComputedOnce
  <2>2. StorePlaces(w, k) = {}
    BY NoOperator DEF StorePlaces
  <2> QED BY <2>1, <2>2, FS_EmptySet
<1>2. IsTable(deferred_ite_table[w])
  BY DEF TablesAre, Tabled
<1> QED BY <1>1, <1>2, TableFacts

(* Nothing is left when all is quiet.                                      *)
LEMMA QuietIsEmpty ==
    ASSUME DistInv, LinInv, TablesAre
    PROVE  NothingLeft
<1>1. PICK C : C \in Worlds /\ RuntimeIn(C)
  BY DEF DistInv, DistIn
<1>2. ASSUME Quiet
      PROVE  /\ net = EmptyBag
             /\ \A w \in Worker : /\ operator_table[w] = <<>>
                                  /\ deferred_operand_table[w] = <<>>
                                  /\ deferred_ite_table[w] = <<>>
  BY <1>1, <1>2, NoMessage, NoQueued, NoDeferred, NoJoined
<1> QED BY <1>2 DEF NothingLeft, Quiet

(* When no client waits and no worker is within a handler, nothing is left *)
(* behind: no message, operator, deferred operand or pending triple.       *)
THEOREM AlwaysNothingLeft == Spec /\ NeverWraps => []NothingLeft
<1>1. Init => TablesAre
  BY InitTables
<1>2. TablesAre /\ [Next]_vars => TablesAre'
  BY StepTables
<1>3. DistInv /\ LinInv /\ TablesAre => NothingLeft
  BY QuietIsEmpty
<1> QED BY <1>1, <1>2, <1>3, AlwaysLinear, PTL DEF Spec

-----------------------------------------------------------------------------
(***************************************************************************)
(* The service.  Only the clients' steps change what its variables hold.   *)
(***************************************************************************)
LEMMA AskServed ==
    ASSUME DistInv, NEW c \in Client, Ask(c)
    PROVE  Service!Ask(c)
<1>1. PICK C : DistIn(C)
  BY DEF DistInv
<1>2. PICK k \in Asks : Asking(c, k) /\ asked' = [asked EXCEPT ![c] = k] /\ UNCHANGED known
  BY DEF Ask
<1>3. asked[c] = None /\ \A n \in 1 .. 3 : k[n] \in known[c]
  BY <1>1, <1>2 DEF Asking, DistIn, ClientsIn
<1> QED BY <1>2, <1>3 DEF Service!Ask

(* What a client settles by itself is the ITE it asks for.                 *)
LEMMA LocallyServed ==
    ASSUME DistInv, NEW c \in Client, AskLocally(c)
    PROVE  Service!AnswerLocally(c)
<1>1. PICK C : DistIn(C)
  BY DEF DistInv
<1>2. PICK k \in Asks :
        /\ Asking(c, k)
        /\ ref_ite_local(k[1], k[2], k[3]).done
        /\ known' = [known EXCEPT ![c] = @ \union Both(Signed(ref_ite_local(k[1], k[2], k[3]).t,
                                                              ref_ite_local(k[1], k[2], k[3]).neg))]
        /\ UNCHANGED asked
  BY DEF AskLocally
<1>3. asked[c] = None /\ \A n \in 1 .. 3 : k[n] \in known[c]
  BY <1>1, <1>2 DEF Asking, DistIn, ClientsIn
<1> DEFINE a == ref_ite_local(k[1], k[2], k[3])
<1>4. StoredIn(C, k[1]) /\ StoredIn(C, k[2]) /\ StoredIn(C, k[3])
  BY <1>1, <1>2 DEF Asking, DistIn, ClientsIn
<1>5. Signed(a.t, a.neg) = Ite(k[1], k[2], k[3])
  BY <1>2, <1>4, LocalIn
<1>6. known' = [known EXCEPT ![c] = @ \union Both(Ite(k[1], k[2], k[3]))]
  BY <1>2, <1>5
<1> QED BY <1>2, <1>3, <1>6 DEF Service!AnswerLocally, Service!Both, Both

(* The operand a client takes for its answer is the ITE of what it asked   *)
(* for, since the only one on its way to it is for its destination.        *)
LEMMA AnswerServed ==
    ASSUME DistInv, LinInv, NEW c \in Client, Answer(c)
    PROVE  Service!Answer(c)
<1>1. PICK C : DistIn(C)
  BY DEF DistInv
<1>2. PICK m \in BagToSet(net) :
        /\ TakeAnswer(c, m)
        /\ known' = [known EXCEPT ![c] = @ \union IF m.data[0] = REF_INVALID THEN {REF_INVALID}
                                                       ELSE Both(m.data[0])]
        /\ asked' = [asked EXCEPT ![c] = None]
  BY DEF Answer
<1>3. m \in DOMAIN net /\ m.to = c /\ m.kind = "operand"
  BY <1>2 DEF TakeAnswer, BagToSet
<1>4. RuntimeIn(C) /\ ClientsIn(C)
  BY <1>1 DEF DistIn
<1>5. wait[c] # None /\ m.id = wait[c].id /\ DOMAIN m.data = {0}
  BY <1>3, <1>4, AnswerIs
<1> DEFINE r == m.data[0]   R == Ite(asked[c][1], asked[c][2], asked[c][3])
<1>6. r = C.meaning[m.id][0] /\ r \in Ref
  <2>1. OperandIn(C, m)
    BY <1>3, <1>4 DEF RuntimeIn, MessageIn
  <2> QED BY <1>5, <2>1 DEF OperandIn, Right, StoredIn
<1>7. C.meaning[wait[c].id][0] = R /\ asked[c] # None
  <2>1. wait[c].offset = 0 /\ Awaits(C, wait[c], R) /\ asked[c] # None
    BY <1>4, <1>5 DEF ClientsIn
  <2> HIDE DEF R
  <2> QED BY <2>1 DEF Awaits
<1>8. r = R /\ r # REF_INVALID
  BY <1>5, <1>6, <1>7, IteAssumption
<1>9. known' = [known EXCEPT ![c] = @ \union Both(R)]
  BY <1>2, <1>8
<1> QED BY <1>2, <1>7, <1>9 DEF Service!Answer, Service!Both, Both

(* Every step is one of the service, or leaves its variables alone.        *)
LEMMA StepServed == DistInv /\ LinInv /\ [Next]_vars => [Service!Next]_Service!vars
<1> SUFFICES ASSUME DistInv, LinInv, [Next]_vars PROVE [Service!Next]_Service!vars
  OBVIOUS
<1>1. CASE UNCHANGED vars
  BY <1>1 DEF vars, clientVars, Service!vars
<1>2. ASSUME NEW w \in Worker, WorkerStep(w) PROVE UNCHANGED <<asked, known>>
  BY <1>2 DEF WorkerStep, IteHit, IteJoin, IteSplit, DoRetrieveLookup, DoIteRecurse, DoCanonize,
              DoCanonizeLookup, DoIteStore, clientVars
<1>3. ASSUME NEW c \in Client, Ask(c) \/ AskLocally(c) \/ Answer(c) PROVE Service!Next
  BY <1>3, AskServed, LocallyServed, AnswerServed DEF Service!Next
<1> QED BY <1>1, <1>2, <1>3 DEF Next, Service!vars

(* Distributed ITE implements the service, but for what must happen        *)
(* eventually: whatever the interleaving, a client gets the ITE of what it *)
(* asked for, although it takes the first operand that comes.              *)
THEOREM ImplementsServiceSafely ==
    Spec /\ NeverWraps => Service!Init /\ [][Service!Next]_Service!vars
<1>1. Init => Service!Init
  BY DEF Init, Service!Init
<1> QED BY <1>1, StepServed, AlwaysLinear, PTL DEF Spec
=============================================================================
