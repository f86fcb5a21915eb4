----------------------------- MODULE SweepProofs -----------------------------
(***************************************************************************)
(* Theorems about running the program over files and modes: for any number *)
(* of clients, files and modes, and any losses and failures, no log has    *)
(* two writers, and without losses no pair is forgotten.                   *)
(***************************************************************************)
EXTENDS Sweep, FiniteSetTheorems, TLAPS

(* The pairs that a rest of the two lists still stands for.                *)
PairsOf(left, right, all) ==
    IF left = <<>> THEN {}
    ELSE ({Head(left)} \X ToSet(right)) \union (ToSet(Tail(left)) \X ToSet(all))
Remaining == PairsOf(rest.left, rest.right, Modes)

(* Clients that were handed a pair, those pairs, and the pairs seen to.    *)
Holding(c) == pc[c] \in {"reply", "check", "start", "run"} /\ work[c] # <<>>
Held == {work[c] : c \in {d \in Clients : Holding(d)}}
Settled == (Wanted \ Remaining) \ Held
Unfinished == {x \in Settled : log[x] # "full"}
Active(c) == role = "server" \/ c = OnlyClient

IsList(s, S) == s \in Seq(S) /\ IsInjective(s)

SweepTypeOK ==
    /\ role \in {"server", "alone", "files"}
    /\ redo \in [Clients -> {"no", "soft", "hard"}]
    /\ pc \in [Clients -> {"ask", "wait", "reply", "check", "start", "run", "end"}]
    /\ work \in [Clients -> AllPairs \union {<<>>}]
    /\ log \in [AllPairs -> {"none", "part", "full"}]
    /\ lost \in Nat /\ failed \in Nat

(* The two lists, and the options that all clients share.                  *)
ListsOK ==
    /\ rest = [left |-> rest.left, right |-> rest.right]
    /\ IsList(rest.left, ToSet(Paths)) /\ IsList(rest.right, ToSet(Modes))
    /\ role = "files" => rest.right = <<NoMode>>
OptionsOK ==
    /\ \A c, d \in Clients : redo[c] = redo[d]
    /\ role = "files" => \A c \in Clients : redo[c] # "hard"

(* Where a client is, and what it holds.                                   *)
ClientsOK == \A c \in Clients :
    /\ pc[c] \in {"wait", "reply"} => role = "server"
    /\ pc[c] \in {"check", "start", "run"} => work[c] # <<>>
    /\ Holding(c) => work[c] \in Wanted \ Remaining
    /\ pc[c] = "run" => log[work[c]] # "none"

(* A pair has one holder.                                                  *)
OneHolder == \A c, d \in Clients :
    (c # d /\ Holding(c) /\ Holding(d)) => work[c] # work[d]

(* No client leaves before the pairs have run out, unless it is lost.      *)
LeavesLast == lost = 0 => \A c \in Clients :
    \/ pc[c] = "end" /\ Active(c)
    \/ pc[c] = "reply" /\ work[c] = <<>>
    => Remaining = {}

(* What became of the pairs seen to.                                       *)
SettledRan == lost = 0 => \A x \in Settled : log[x] # "none"
UnfinishedFailed ==
    (lost = 0 /\ \E c \in Clients : redo[c] # "no") =>
        IsFiniteSet(Unfinished) /\ Cardinality(Unfinished) <= failed

SweepInv == /\ SweepTypeOK /\ ListsOK /\ OptionsOK /\ ClientsOK
            /\ OneHolder /\ LeavesLast /\ SettledRan /\ UnfinishedFailed

-----------------------------------------------------------------------------
(* What is left of a list, when its first element is taken.                *)
LEMMA TailOfList ==
    ASSUME NEW S, NEW s, IsList(s, S), s # <<>>
    PROVE  /\ Head(s) \in ToSet(s) /\ ToSet(s) \subseteq S
           /\ IsList(Tail(s), S) /\ ToSet(Tail(s)) = ToSet(s) \ {Head(s)}
<1> USE DEF IsList
<1>1. /\ s \in [1..Len(s) -> S] /\ Len(s) \in Nat \ {0}
      /\ Tail(s) \in Seq(S) /\ Len(Tail(s)) = Len(s) - 1
      /\ DOMAIN s = 1..Len(s) /\ DOMAIN Tail(s) = 1..(Len(s) - 1)
      /\ \A i \in 1..(Len(s) - 1) : Tail(s)[i] = s[i + 1]
      /\ Head(s) = s[1]
  OBVIOUS
<1>2. IsInjective(Tail(s))
  <2> SUFFICES ASSUME NEW i \in 1..(Len(s) - 1), NEW j \in 1..(Len(s) - 1),
                      Tail(s)[i] = Tail(s)[j]
               PROVE  i = j
    BY <1>1 DEF IsInjective
  <2>1. i + 1 \in DOMAIN s /\ j + 1 \in DOMAIN s /\ s[i + 1] = s[j + 1]
    BY <1>1
  <2> QED BY <2>1 DEF IsInjective
<1>3. ToSet(Tail(s)) \subseteq ToSet(s) \ {Head(s)}
  <2> SUFFICES ASSUME NEW i \in 1..(Len(s) - 1)
               PROVE  Tail(s)[i] \in ToSet(s) \ {Head(s)}
    BY <1>1 DEF ToSet
  <2>1. i + 1 \in DOMAIN s /\ 1 \in DOMAIN s /\ i + 1 # 1
    BY <1>1
  <2>2. s[i + 1] # s[1]
    BY <2>1 DEF IsInjective
  <2> QED BY <1>1, <2>1, <2>2 DEF ToSet
<1>4. ToSet(s) \ {Head(s)} \subseteq ToSet(Tail(s))
  <2> SUFFICES ASSUME NEW i \in 1..Len(s), s[i] # s[1]
               PROVE  s[i] \in ToSet(Tail(s))
    BY <1>1 DEF ToSet
  <2>1. i - 1 \in 1..(Len(s) - 1) /\ Tail(s)[i - 1] = s[(i - 1) + 1] /\ (i - 1) + 1 = i
    BY <1>1
  <2>2. s[i] = Tail(s)[i - 1] /\ i - 1 \in DOMAIN Tail(s)
    BY <2>1, <1>1
  <2> QED BY <2>2 DEF ToSet
<1>5. Head(s) \in ToSet(s) /\ ToSet(s) \subseteq S
  BY <1>1 DEF ToSet
<1> QED BY <1>1, <1>2, <1>3, <1>4, <1>5

LEMMA EmptyList == \A s : s = <<>> => ToSet(s) = {}
  BY DEF ToSet

LEMMA ModesList == IsList(Modes, ToSet(Modes))
<1>1. IsList(<<NoMode>>, ToSet(<<NoMode>>))
  BY DEF IsList, IsInjective, ToSet
<1> QED BY <1>1, ListsAssumption DEF Modes, IsList

LEMMA WantedPairs == Wanted \subseteq AllPairs /\ <<>> \notin AllPairs
  BY DEF Wanted, AllPairs, Modes, ToSet

LEMMA RemainingWanted == ASSUME ListsOK PROVE Remaining \subseteq Wanted
<1>1. CASE rest.left = <<>>
  BY <1>1 DEF Remaining, PairsOf
<1>2. CASE rest.left # <<>>
  <2>1. Head(rest.left) \in ToSet(Paths) /\ ToSet(Tail(rest.left)) \subseteq ToSet(Paths)
    BY <1>2, TailOfList DEF ListsOK
  <2>2. ToSet(rest.right) \subseteq ToSet(Modes)
    BY TailOfList, EmptyList DEF ListsOK
  <2> QED BY <1>2, <2>1, <2>2 DEF Remaining, PairsOf, Wanted
<1> QED BY <1>1, <1>2

(* All that is wanted is still to come at first.                           *)
LEMMA AllRemaining == PairsOf(Paths, Modes, Modes) = Wanted
<1>1. CASE Paths = <<>>
  BY <1>1, EmptyList DEF PairsOf, Wanted
<1>2. CASE Paths # <<>>
  <2>1. ToSet(Paths) = {Head(Paths)} \union ToSet(Tail(Paths))
    BY <1>2, TailOfList, ListsAssumption DEF IsList
  <2> QED BY <1>2, <2>1 DEF PairsOf, Wanted
<1> QED BY <1>1, <1>2

(* The first pair of two lists, neither of them empty, is taken once.      *)
LEMMA FirstPair ==
    ASSUME NEW S, NEW T, NEW left, NEW right, NEW all,
           IsList(left, S), left # <<>>, IsList(right, T), right # <<>>
    PROVE  /\ <<Head(left), Head(right)>> \in PairsOf(left, right, all)
           /\ PairsOf(left, Tail(right), all) =
                PairsOf(left, right, all) \ {<<Head(left), Head(right)>>}
<1>1. Head(left) \notin ToSet(Tail(left))
  BY TailOfList
<1>2. Head(right) \in ToSet(right) /\ ToSet(Tail(right)) = ToSet(right) \ {Head(right)}
  BY TailOfList
<1> QED BY <1>1, <1>2 DEF PairsOf

(* The server starts the second list again, which leaves the same pairs.   *)
LEMMA RefillKeeps ==
    ASSUME ListsOK, role # "files"
    PROVE  /\ Refilled = [left |-> Refilled.left, right |-> Refilled.right]
           /\ IsList(Refilled.left, ToSet(Paths)) /\ IsList(Refilled.right, ToSet(Modes))
           /\ PairsOf(Refilled.left, Refilled.right, Modes) = Remaining
           /\ Exhausted => Remaining = {}
<1>1. CASE rest.left # <<>> /\ rest.right = <<>>
  <2>1. Refilled = [left |-> Tail(rest.left), right |-> Modes]
    BY <1>1 DEF Refilled
  <2>2. IsList(Tail(rest.left), ToSet(Paths)) /\ IsList(Modes, ToSet(Modes))
    BY <1>1, TailOfList, ModesList DEF ListsOK
  <2>3. Remaining = ToSet(Tail(rest.left)) \X ToSet(Modes)
    BY <1>1, EmptyList DEF Remaining, PairsOf
  <2>4. CASE Tail(rest.left) = <<>>
    BY <2>1, <2>2, <2>3, <2>4, EmptyList DEF PairsOf, Exhausted
  <2>5. CASE Tail(rest.left) # <<>>
    <3> DEFINE t == Tail(rest.left)
    <3>1. ToSet(t) = {Head(t)} \union ToSet(Tail(t))
      BY <2>2, <2>5, TailOfList
    <3>2. PairsOf(t, Modes, Modes) = Remaining
      BY <2>3, <2>5, <3>1 DEF PairsOf
    <3>3. Modes = <<>> => Remaining = {}
      BY <2>3, EmptyList
    <3> QED BY <2>1, <2>2, <2>5, <3>2, <3>3 DEF Exhausted
  <2> QED BY <2>4, <2>5
<1>2. CASE ~(rest.left # <<>> /\ rest.right = <<>>)
  BY <1>2 DEF Refilled, ListsOK, Remaining, PairsOf, Exhausted
<1> QED BY <1>1, <1>2

(* A pair is taken out of the remaining ones; or none remains.             *)
Takes(x) ==
    \/ x = <<>> /\ Remaining = {} /\ Remaining' = {}
    \/ x \in Remaining /\ Remaining' = Remaining \ {x}

LEMMA NextPair ==
    ASSUME ListsOK, role # "files", role' = role, NEW c \in Clients, nextOrEmpty(c)
    PROVE  /\ ListsOK'
           /\ \E x : /\ work' = [work EXCEPT ![c] = x] /\ Takes(x)
                     /\ Exhausted <=> x = <<>>
<1>1. Modes' = Modes
  BY DEF Modes
<1>2. CASE Exhausted
  <2>1. rest' = Refilled /\ work' = [work EXCEPT ![c] = <<>>]
    BY <1>2 DEF nextOrEmpty
  <2>2. Remaining' = Remaining
    BY <1>1, <2>1, RefillKeeps DEF Remaining
  <2>3. ListsOK'
    BY <1>1, <2>1, RefillKeeps DEF ListsOK
  <2> QED BY <1>2, <2>1, <2>2, <2>3, RefillKeeps DEF Takes
<1>3. CASE ~Exhausted
  <2> DEFINE x == <<Head(Refilled.left), Head(Refilled.right)>>
  <2>1. /\ rest' = [left |-> Refilled.left, right |-> Tail(Refilled.right)]
        /\ work' = [work EXCEPT ![c] = x]
    BY <1>3, RefillKeeps DEF nextOrEmpty
  <2>2. Refilled.left # <<>> /\ Refilled.right # <<>>
    BY <1>3 DEF Exhausted
  <2>3. ListsOK'
    BY <1>1, <2>1, <2>2, RefillKeeps, TailOfList DEF ListsOK
  <2>4. x \in Remaining /\ Remaining' = Remaining \ {x}
    BY <1>1, <2>1, <2>2, RefillKeeps, FirstPair DEF Remaining
  <2>5. x # <<>>
    OBVIOUS
  <2> QED BY <1>3, <2>1, <2>3, <2>4, <2>5 DEF Takes
<1> QED BY <1>2, <1>3

LEMMA NextFile ==
    ASSUME ListsOK, NEW c \in Clients, TakeFile(c)
    PROVE  /\ ListsOK'
           /\ \E x : /\ work' = [work EXCEPT ![c] = x] /\ Takes(x)
                     /\ rest.left = <<>> <=> x = <<>>
<1>1. Modes' = Modes /\ Modes = <<NoMode>> /\ rest.right = <<NoMode>> /\ role' = role
  BY DEF Modes, TakeFile, ListsOK
<1>2. CASE rest.left = <<>>
  <2>1. rest' = rest /\ work' = [work EXCEPT ![c] = <<>>]
    BY <1>2 DEF TakeFile, ListsOK
  <2>2. Remaining = {} /\ Remaining' = {}
    BY <1>2, <2>1 DEF Remaining, PairsOf
  <2>3. ListsOK'
    BY <1>1, <2>1 DEF ListsOK
  <2> QED BY <1>2, <2>1, <2>2, <2>3 DEF Takes
<1>3. CASE rest.left # <<>>
  <2> DEFINE x == <<Head(rest.left), NoMode>>
  <2>1. /\ rest' = [left |-> Tail(rest.left), right |-> <<NoMode>>]
        /\ work' = [work EXCEPT ![c] = x]
    BY <1>1, <1>3 DEF TakeFile, ListsOK
  <2>2. ToSet(<<NoMode>>) = {NoMode}
    BY DEF ToSet
  <2>3. ListsOK'
    BY <1>1, <1>3, <2>1, TailOfList DEF ListsOK
  <2>4. \A s, S : IsList(s, S) =>
            PairsOf(s, <<NoMode>>, <<NoMode>>) = ToSet(s) \X {NoMode}
    <3> SUFFICES ASSUME NEW s, NEW S, IsList(s, S)
                 PROVE  PairsOf(s, <<NoMode>>, <<NoMode>>) = ToSet(s) \X {NoMode}
      OBVIOUS
    <3>1. CASE s = <<>>
      BY <3>1, EmptyList DEF PairsOf
    <3>2. CASE s # <<>>
      <4>1. ToSet(s) = {Head(s)} \union ToSet(Tail(s))
        BY <3>2, TailOfList
      <4> QED BY <2>2, <3>2, <4>1 DEF PairsOf
    <3> QED BY <3>1, <3>2
  <2>5. Remaining = ToSet(rest.left) \X {NoMode}
    BY <1>1, <2>4 DEF Remaining, ListsOK
  <2>6. Remaining' = ToSet(Tail(rest.left)) \X {NoMode}
    BY <1>1, <2>1, <2>3, <2>4 DEF Remaining, ListsOK
  <2>7. x \in Remaining /\ Remaining' = Remaining \ {x}
    <3>1. /\ Head(rest.left) \in ToSet(rest.left)
          /\ ToSet(Tail(rest.left)) = ToSet(rest.left) \ {Head(rest.left)}
      BY <1>3, TailOfList DEF ListsOK
    <3> HIDE DEF ListsOK
    <3> QED BY <2>5, <2>6, <3>1
  <2>8. x # <<>>
    OBVIOUS
  <2> QED BY <1>3, <2>1, <2>3, <2>7, <2>8 DEF Takes
<1> QED BY <1>2, <1>3

-----------------------------------------------------------------------------
LEMMA SweepInvInit == Init => SweepInv
<1> SUFFICES ASSUME Init PROVE SweepInv
  OBVIOUS
<1> USE DEF Init
<1>1. SweepTypeOK
  BY DEF SweepTypeOK
<1>2. ListsOK
  BY ListsAssumption, ModesList DEF ListsOK, IsList, Modes
<1>3. Remaining = Wanted
  BY AllRemaining DEF Remaining
<1>4. Settled = {} /\ Unfinished = {}
  BY <1>3 DEF Settled, Unfinished
<1>5. \A c \in Clients : ~Holding(c)
  BY DEF Holding
<1>6. OptionsOK /\ ClientsOK /\ OneHolder
  BY <1>5 DEF OptionsOK, ClientsOK, OneHolder
<1>7. LeavesLast
  BY ClientsAssumption DEF LeavesLast, Active, OnlyClient
<1>8. SettledRan /\ UnfinishedFailed
  BY <1>4, FS_EmptySet DEF SettledRan, UnfinishedFailed
<1> QED BY <1>1, <1>2, <1>6, <1>7, <1>8 DEF SweepInv

(* A client moves on, and may write the log of the pair it holds.  When it *)
(* lets go of the pair, the log is there, and is complete if unfinished    *)
(* runs are redone and this one did not fail.                              *)
LEMMA ClientMoves ==
    ASSUME SweepInv, NEW c \in Clients, NEW p, Goto(c, p),
           UNCHANGED <<role, redo, rest, work>>,
           p \in {"ask", "wait", "check", "start", "run", "end"},
           p = "wait" => role = "server" /\ ~Holding(c),
           p \in {"check", "start", "run"} => pc[c] \in {"reply", "check", "start", "run"},
           p \in {"check", "start", "run"} => work[c] # <<>>,
           lost' \in Nat, lost' = 0 => lost = 0,
           (lost' = 0 /\ p = "end") => Remaining = {},
           log' \in [AllPairs -> {"none", "part", "full"}],
           \A x \in AllPairs : log'[x] = log[x] \/ (Holding(c) /\ x = work[c] /\ log'[x] # "none"),
           (Holding(c) /\ p = "run") => log'[work[c]] # "none",
           failed' \in {failed, failed + 1},
           (Holding(c) /\ p \in {"ask", "end"} /\ lost' = 0) =>
               /\ log'[work[c]] # "none"
               /\ redo[c] # "no" => log'[work[c]] = "full" \/ failed' = failed + 1
    PROVE  SweepInv'
<1> USE DEF SweepInv
<1>1. /\ \A d \in Clients : pc'[d] = IF d = c THEN p ELSE pc[d]
      /\ pc' \in [Clients -> {"ask", "wait", "reply", "check", "start", "run", "end"}]
  BY DEF SweepTypeOK, Goto
<1>2. Modes' = Modes /\ Wanted' = Wanted /\ Remaining' = Remaining
  BY DEF Modes, Wanted, Remaining
<1>3. /\ \A d \in Clients : Holding(d)' => Holding(d)
      /\ \A d \in Clients \ {c} : Holding(d)' <=> Holding(d)
      /\ Holding(c) /\ p \notin {"ask", "wait", "end"} => Holding(c)'
  BY <1>1 DEF Holding
<1>4. SweepTypeOK'
  BY <1>1 DEF SweepTypeOK
<1>5. ListsOK' /\ OptionsOK'
  BY <1>2 DEF ListsOK, OptionsOK
<1>6. \A d \in Clients : Holding(d) => work[d] \in Wanted \ Remaining /\ work[d] \in AllPairs
  BY WantedPairs DEF ClientsOK
<1>7. ClientsOK'
  <2> SUFFICES ASSUME NEW d \in Clients
               PROVE  /\ pc'[d] \in {"wait", "reply"} => role' = "server"
                      /\ pc'[d] \in {"check", "start", "run"} => work'[d] # <<>>
                      /\ Holding(d)' => work'[d] \in (Wanted \ Remaining)'
                      /\ pc'[d] = "run" => log'[work'[d]] # "none"
    BY DEF ClientsOK
  <2>1. pc[d] = "run" => work[d] \in AllPairs /\ log[work[d]] # "none"
    BY <1>6 DEF ClientsOK, Holding
  <2>2. (d = c /\ p = "run") => Holding(c)
    BY DEF Holding
  <2>3. pc'[d] = "run" => log'[work'[d]] # "none"
    BY <1>1, <2>1, <2>2
  <2> QED BY <1>1, <1>2, <1>3, <2>3 DEF ClientsOK
<1>8. OneHolder'
  BY <1>3 DEF OneHolder
<1>9. LeavesLast'
  BY <1>1, <1>2 DEF LeavesLast, Active
<1>10. Settled' \subseteq Settled \union (IF Holding(c) THEN {work[c]} ELSE {})
  BY <1>2, <1>3 DEF Settled, Held
<1>11. \A x \in Settled : x \in AllPairs /\ log'[x] = log[x]
  BY <1>3, WantedPairs DEF Settled, Held
<1>12. ASSUME Holding(c), work[c] \in Settled', lost' = 0
       PROVE  p \in {"ask", "end"}
  <2>1. ~Holding(c)'
    BY <1>12 DEF Settled, Held
  <2> QED BY <1>3, <1>12, <2>1 DEF Holding, ClientsOK
<1>13. SettledRan'
  BY <1>10, <1>11, <1>12 DEF SettledRan
<1>14. UnfinishedFailed'
  <2> SUFFICES ASSUME lost' = 0, NEW d \in Clients, redo[d] # "no"
               PROVE  IsFiniteSet(Unfinished') /\ Cardinality(Unfinished') <= failed'
    BY DEF UnfinishedFailed
  <2>1. redo[c] # "no" /\ IsFiniteSet(Unfinished) /\ Cardinality(Unfinished) <= failed
    BY DEF UnfinishedFailed, OptionsOK
  <2>2. Cardinality(Unfinished) \in Nat /\ failed \in Nat
    BY <2>1, FS_CardinalityType DEF SweepTypeOK
  <2>3. CASE Unfinished' \subseteq Unfinished
    <3>1. Unfinished' \in SUBSET Unfinished
      BY <2>3
    <3>2. IsFiniteSet(Unfinished') /\ Cardinality(Unfinished') <= Cardinality(Unfinished)
      BY <2>1, <3>1, FS_Subset
    <3>3. Cardinality(Unfinished') \in Nat
      BY <3>2, FS_CardinalityType
    <3> QED BY <2>1, <2>2, <3>2, <3>3
  <2>4. CASE ~(Unfinished' \subseteq Unfinished)
    <3>1. PICK x \in Unfinished' : x \notin Unfinished
      BY <2>4
    <3>2. x \in Settled' /\ log'[x] # "full"
      BY <3>1 DEF Unfinished
    <3>3. x \notin Settled
      BY <1>11, <3>1, <3>2 DEF Unfinished
    <3>4. Holding(c) /\ x = work[c]
      BY <1>10, <3>2, <3>3
    <3>5. failed' = failed + 1
      BY <1>12, <2>1, <3>2, <3>4
    <3>6. Unfinished' \subseteq Unfinished \union {work[c]}
      BY <1>10, <1>11, <3>4 DEF Unfinished
    <3> DEFINE U == Unfinished
               w == work[c]
    <3>7. /\ IsFiniteSet(U \union {w})
          /\ Cardinality(U \union {w}) <= Cardinality(U) + 1
          /\ Cardinality(U \union {w}) \in Nat
      <4> HIDE DEF U, w
      <4>1. /\ IsFiniteSet(U \cup {w})
            /\ Cardinality(U \cup {w}) = IF w \in U THEN Cardinality(U) ELSE Cardinality(U) + 1
        BY <2>1, FS_AddElement DEF U
      <4> QED BY <2>2, <4>1 DEF U
    <3>8. Unfinished' \in SUBSET (Unfinished \union {work[c]})
      BY <3>6
    <3>9. /\ IsFiniteSet(Unfinished')
          /\ Cardinality(Unfinished') <= Cardinality(Unfinished \union {work[c]})
      BY <3>7, <3>8, FS_Subset
    <3>10. Cardinality(Unfinished') \in Nat
      BY <3>9, FS_CardinalityType
    <3> QED BY <2>1, <2>2, <3>5, <3>7, <3>9, <3>10
  <2> QED BY <2>3, <2>4
<1> QED BY <1>4, <1>5, <1>7, <1>8, <1>9, <1>13, <1>14

(* A client that holds nothing is given the next pair, or none.            *)
LEMMA ClientTakes ==
    ASSUME SweepInv, NEW c \in Clients, pc[c] \in {"ask", "wait"},
           NEW p, Goto(c, p), NEW x, work' = [work EXCEPT ![c] = x], Takes(x), ListsOK',
           UNCHANGED <<role, redo, log, lost, failed>>,
           \/ p = "reply" /\ role = "server"
           \/ p = "end" /\ x = <<>>
           \/ p = "check" /\ x # <<>>
    PROVE  SweepInv'
<1> USE DEF SweepInv
<1>1. /\ \A d \in Clients : pc'[d] = IF d = c THEN p ELSE pc[d]
      /\ pc' \in [Clients -> {"ask", "wait", "reply", "check", "start", "run", "end"}]
  BY DEF SweepTypeOK, Goto
<1>2. x \in AllPairs \union {<<>>} /\ Remaining \subseteq Wanted /\ Wanted \subseteq AllPairs
  BY RemainingWanted, WantedPairs DEF Takes
<1>3. /\ \A d \in Clients : work'[d] = IF d = c THEN x ELSE work[d]
      /\ work' \in [Clients -> AllPairs \union {<<>>}]
  BY <1>2 DEF SweepTypeOK
<1>4. Modes' = Modes /\ Wanted' = Wanted
  BY DEF Modes, Wanted
<1>5. /\ ~Holding(c)
      /\ Holding(c)' => x # <<>> /\ work'[c] = x
      /\ x # <<>> => Holding(c)'
      /\ \A d \in Clients \ {c} : (Holding(d)' <=> Holding(d)) /\ work'[d] = work[d]
  BY <1>1, <1>3 DEF Holding
<1>6. SweepTypeOK'
  BY <1>1, <1>3 DEF SweepTypeOK
<1>7. OptionsOK'
  BY DEF OptionsOK
<1>8. Remaining' \subseteq Remaining
  BY DEF Takes
<1>9. x # <<>> => x \in Wanted \ Remaining'
  BY <1>2 DEF Takes
<1>10. ClientsOK'
  BY <1>1, <1>3, <1>4, <1>5, <1>8, <1>9 DEF ClientsOK
<1>11. OneHolder'
  BY <1>3, <1>5 DEF OneHolder, ClientsOK, Takes
<1>12. LeavesLast'
  BY <1>1, <1>2, <1>3, <1>8, WantedPairs DEF LeavesLast, Active, Takes
<1>13. Held' = Held \union (IF x = <<>> THEN {} ELSE {x})
  BY <1>5 DEF Held
<1>14. Settled' = Settled
  <2>1. CASE x = <<>>
    BY <1>2, <1>4, <1>13, <2>1, WantedPairs DEF Settled, Takes
  <2>2. CASE x # <<>>
    BY <1>4, <1>13, <2>2 DEF Settled, Takes
  <2> QED BY <2>1, <2>2
<1>15. Unfinished' = Unfinished
  BY <1>14 DEF Unfinished
<1>16. SettledRan' /\ UnfinishedFailed'
  BY <1>14, <1>15 DEF SettledRan, UnfinishedFailed
<1> QED BY <1>6, <1>7, <1>10, <1>11, <1>12, <1>16

(* What a client does that has no pair, or with the one it has.            *)
LEMMA Takings ==
    ASSUME SweepInv, NEW c \in Clients, ServeNext(c) \/ TakeNext(c) \/ TakeFile(c)
    PROVE  SweepInv'
<1>1. CASE ServeNext(c)
  <2>1. pc[c] = "wait" /\ role = "server" /\ role' = role
    BY <1>1 DEF ServeNext, SweepInv, ClientsOK
  <2>2. PICK x : ListsOK' /\ work' = [work EXCEPT ![c] = x] /\ Takes(x)
    BY <1>1, <2>1, NextPair DEF ServeNext, SweepInv
  <2> QED BY <1>1, <2>1, <2>2, ClientTakes DEF ServeNext
<1>2. CASE TakeNext(c)
  <2>1. PICK x : /\ ListsOK' /\ work' = [work EXCEPT ![c] = x] /\ Takes(x)
                 /\ Exhausted <=> x = <<>>
    BY <1>2, NextPair DEF TakeNext, SweepInv
  <2> QED BY <1>2, <2>1, ClientTakes DEF TakeNext
<1>3. CASE TakeFile(c)
  <2>1. PICK x : /\ ListsOK' /\ work' = [work EXCEPT ![c] = x] /\ Takes(x)
                 /\ rest.left = <<>> <=> x = <<>>
    BY <1>3, NextFile DEF SweepInv
  <2> QED BY <1>3, <2>1, ClientTakes DEF TakeFile
<1> QED BY <1>1, <1>2, <1>3

LEMMA Calls ==
    ASSUME SweepInv, NEW c \in Clients, Ask(c) \/ Receive(c) \/ LoseCall(c) \/ ClientDies(c)
    PROVE  SweepInv'
<1>1. lost \in Nat /\ lost + 1 # 0 /\ log \in [AllPairs -> {"none", "part", "full"}]
  BY DEF SweepInv, SweepTypeOK
<1>2. CASE Ask(c)
  BY <1>1, <1>2, ClientMoves DEF Ask, Holding
<1>3. CASE Receive(c)
  <2>1. work[c] = <<>> /\ lost = 0 => Remaining = {}
    BY <1>3 DEF Receive, SweepInv, LeavesLast
  <2>2. work[c] = <<>> => ~Holding(c)
    BY DEF Holding
  <2> QED BY <1>1, <1>3, <2>1, <2>2, ClientMoves DEF Receive
<1>4. CASE LoseCall(c)
  BY <1>1, <1>4, ClientMoves DEF LoseCall
<1>5. CASE ClientDies(c)
  BY <1>1, <1>5, ClientMoves DEF ClientDies
<1> QED BY <1>2, <1>3, <1>4, <1>5

LEMMA Programs ==
    ASSUME SweepInv, NEW c \in Clients,
           \/ Check(c) \/ CheckFile(c) \/ StartProgram(c) \/ StartFile(c)
           \/ ProgramQuits(c) \/ ProgramFails(c)
    PROVE  SweepInv'
<1>1. /\ lost \in Nat /\ failed \in Nat /\ log \in [AllPairs -> {"none", "part", "full"}]
      /\ redo[c] \in {"no", "soft", "hard"}
      /\ role = "files" => redo[c] # "hard"
  BY DEF SweepInv, SweepTypeOK, OptionsOK
<1>2. pc[c] \in {"check", "start", "run"}
  BY DEF Check, CheckFile, Look, StartProgram, StartFile, Start, ProgramQuits, ProgramFails
<1>3. /\ work[c] # <<>> /\ Holding(c) /\ work[c] \in AllPairs
      /\ pc[c] = "run" => log[work[c]] # "none"
  BY <1>2, WantedPairs DEF SweepInv, ClientsOK, Holding
<1>4. log[work[c]] \in {"none", "part", "full"}
  BY <1>1, <1>3
<1>5. ASSUME NEW run \in BOOLEAN, Look(c, run),
             ~run => log[work[c]] # "none" /\ (redo[c] # "no" => log[work[c]] = "full")
      PROVE  SweepInv'
  <2>1. CASE run
    BY <1>1, <1>3, <1>5, <2>1, ClientMoves DEF Look
  <2>2. CASE ~run
    BY <1>1, <1>3, <1>5, <2>2, ClientMoves DEF Look
  <2> QED BY <2>1, <2>2
<1>6. CASE Check(c) \/ CheckFile(c)
  BY <1>1, <1>4, <1>5, <1>6 DEF Check, CheckFile, shouldRun, shouldRunFile
<1>7. CASE StartProgram(c) \/ StartFile(c)
  <2>1. /\ log' = [log EXCEPT ![work[c]] = "part"] /\ Goto(c, "run")
        /\ UNCHANGED <<role, redo, rest, work, lost, failed>> /\ pc[c] = "start"
    BY <1>7 DEF StartProgram, StartFile, Start
  <2> QED BY <1>1, <1>3, <2>1, ClientMoves
<1>8. CASE ProgramQuits(c)
  BY <1>1, <1>3, <1>8, ClientMoves DEF ProgramQuits
<1>9. CASE ProgramFails(c)
  BY <1>1, <1>2, <1>3, <1>9, ClientMoves DEF ProgramFails
<1> QED BY <1>6, <1>7, <1>8, <1>9

LEMMA SweepInvStep == SweepInv /\ [Next]_vars => SweepInv'
<1> SUFFICES ASSUME SweepInv, [Next]_vars PROVE SweepInv'
  OBVIOUS
<1>1. ASSUME NEW c \in Clients, Proceed(c) \/ LoseCall(c) \/ ProgramFails(c) \/ ClientDies(c)
      PROVE  SweepInv'
  BY <1>1, Takings, Calls, Programs DEF Proceed
<1>2. CASE UNCHANGED vars
  <2>1. UNCHANGED <<Remaining, Settled, Unfinished>> /\ \A c \in Clients : Holding(c)' = Holding(c)
    BY <1>2 DEF vars, Remaining, Settled, Unfinished, Modes, Wanted, Held, Holding
  <2> QED BY <1>2, <2>1 DEF vars, SweepInv, SweepTypeOK, ListsOK, OptionsOK, ClientsOK, OneHolder,
             LeavesLast, SettledRan, UnfinishedFailed, Modes, Wanted, Active
<1> QED BY <1>1, <1>2 DEF Next, Stop

(* What the two properties rest on.                                        *)
THEOREM SweepAlwaysConsistent == Spec => []SweepInv
BY SweepInvInit, SweepInvStep, PTL DEF Spec

(* However the calls of the clients interleave and get lost, no two        *)
(* programs write one log (Pair.nextOrEmpty, mm_crun.py:88-98).            *)
THEOREM AlwaysOneWriter == Spec => []OneWriter
<1>1. SweepInv => OneWriter
  BY DEF SweepInv, OneHolder, ClientsOK, Holding, OneWriter
<1> QED BY <1>1, SweepAlwaysConsistent, PTL

(* When all clients have ended and none was lost, every pair has its log,  *)
(* and at most the runs that failed are unfinished, if unfinished ones are *)
(* redone (shouldRun, mm_crun.py:140-166).                                 *)
THEOREM NothingIsForgotten == Spec => []NothingForgotten
<1>1. SweepInv => NothingForgotten
  <2> SUFFICES ASSUME SweepInv, AllEnded, lost = 0
               PROVE  /\ \A x \in Wanted : log[x] # "none"
                      /\ (\E c \in Clients : redo[c] # "no") =>
                            Cardinality({x \in Wanted : log[x] # "full"}) <= failed
    BY DEF NothingForgotten
  <2>1. OnlyClient \in Clients
    BY ClientsAssumption DEF OnlyClient
  <2>2. Remaining = {}
    BY <2>1 DEF SweepInv, LeavesLast, AllEnded, Active
  <2>3. Settled = Wanted
    BY <2>2 DEF Settled, Held, Holding, AllEnded
  <2> QED BY <2>3 DEF SweepInv, SettledRan, UnfinishedFailed, Unfinished
<1> QED BY <1>1, SweepAlwaysConsistent, PTL
=============================================================================
