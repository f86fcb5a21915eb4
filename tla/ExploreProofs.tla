---------------------------- MODULE ExploreProofs ----------------------------
(***************************************************************************)
(* Theorems about the database of solutions: for any clients, schemes and  *)
(* solutions, any number of crashes, lost calls and failures, a solution   *)
(* gets one line, a line has its file, and no client counts more than the  *)
(* database has.                                                           *)
(***************************************************************************)
EXTENDS Explore, TLAPS, FiniteSetTheorems

Lines == ToSet(db)
PCs == {"start", "next", "run", "process", "record", "notify", "end", "dead"}
Steps == {"idle", "open", "write", "append", "return", "raise"}

(* A client: what it has still to process, and the solution it records.    *)
ClientType == [pc : PCs, todo : Seq(Solutions \union {Bad}), scount : Int, errors : Nat,
               tries : Nat, known : SUBSET Solutions, generated : Nat, last : Nat]
ClientOK(r) ==
    /\ r \in ClientType
    /\ r.pc = "record" => r.todo # <<>> /\ Head(r.todo) \in Solutions
ClientsOK == /\ cl = [c \in Runners |-> cl[c]]
             /\ \A c \in Runners : ClientOK(cl[c])

(* A recording is under way for a client that waits for it.                *)
IsRecord == rec = [who |-> rec.who, scheme |-> rec.scheme, step |-> rec.step]
RecordingOK ==
    /\ IsRecord /\ rec.step \in Steps
    /\ rec.step # "idle" =>
         /\ rec.who \in Runners /\ cl[rec.who].pc = "record"
         /\ rec.scheme \in Solutions \ Heule
    /\ rec.step \in {"open", "write", "append"} => rec.scheme \notin Lines
    /\ rec.step = "append" => files[rec.scheme] = "full"

(* Whoever decides what is new knows every line and what is recorded now.  *)
ServerKnows ==
    /\ up => Served /\ Lines \subseteq given \union loaded[Server]
    /\ Served => At(Alone, "end")
    /\ Served /\ rec.step # "idle" => up /\ rec.scheme \in given
AloneKnows ==
    ~Served =>
      /\ Lines \subseteq cl[Alone].known \union loaded[Alone]
      /\ rec.step # "idle" => rec.who = Alone /\ rec.scheme \in cl[Alone].known

DatabaseOK == /\ db \in Seq(Solutions)
              /\ files \in [Solutions -> {"none", "empty", "full"}]
              /\ loaded \in [Runners \union {Server} -> SUBSET Solutions]
              /\ OneLineEach /\ LineHasFile

ExploreInv == ClientsOK /\ RecordingOK /\ ServerKnows /\ AloneKnows /\ DatabaseOK

-----------------------------------------------------------------------------
(* The invariant holds at the start.                                       *)
LEMMA StartInv == Init => ExploreInv
<1> SUFFICES ASSUME Init PROVE ExploreInv
  OBVIOUS
<1>1. ClientsOK
  <2>1. NewClient \in ClientType
    BY DEF NewClient, ClientType, PCs
  <2>2. [NewClient EXCEPT !.pc = "end"] \in ClientType
    BY <2>1 DEF ClientType, PCs
  <2> QED BY <2>1, <2>2 DEF Init, ClientsOK, ClientOK, NewClient
<1>2. RecordingOK /\ AloneKnows /\ DatabaseOK
  BY StoreAssumption
  DEF Init, InitStore, NoRecord, RecordingOK, IsRecord, Steps, AloneKnows, Lines, ToSet,
      DatabaseOK, OneLineEach, LineHasFile
<1>3. ServerKnows
  BY DEF Init, InitStore, NoRecord, ServerKnows, Served, At, Runners, NewClient
<1> QED BY <1>1, <1>2, <1>3 DEF ExploreInv

-----------------------------------------------------------------------------
(* What a client makes of the outcome of a call or of a run.  It forgets   *)
(* nothing, and does not begin to record.                                  *)
Follows(q, r) == r \in ClientType /\ r.pc # "record" /\ q.known \subseteq r.known

LEMMA ClientFollows ==
    ASSUME NEW q \in ClientType
    PROVE  /\ \A p \in PCs \ {"record"} : Follows(q, [q EXCEPT !.pc = p])
           /\ Follows(q, NextRaises(q)) /\ Follows(q, NotifyRaises(q))
           /\ q.todo # <<>> => Follows(q, RecordRaises(q)) /\ Follows(q, New(q))
           /\ (/\ q.pc # "record" \/ q.todo # <<>>
               /\ q.pc \in {"next", "record", "notify"}) => Follows(q, Raises(q))
           /\ \A a : Follows(q, Received(q, a))
           /\ Follows(q, Repeat(q))
<1>1. \A p \in PCs \ {"record"} : Follows(q, [q EXCEPT !.pc = p])
  BY DEF Follows, ClientType
<1>2. Follows(q, NextRaises(q))
  <2> DEFINE T == IF q.tries + 1 = tryLimit THEN 0 ELSE q.tries + 1
             P == IF q.tries + 1 = tryLimit THEN "end" ELSE "next"
  <2>1. T \in Nat /\ P \in PCs \ {"record"}
    BY DEF PCs, ClientType
  <2>2. NextRaises(q) = [q EXCEPT !.tries = T, !.pc = P]
    BY DEF NextRaises
  <2> HIDE DEF T, P
  <2>3. Follows(q, [q EXCEPT !.tries = T, !.pc = P])
    BY <2>1 DEF Follows, ClientType
  <2> QED BY <2>2, <2>3
<1>3. Follows(q, NotifyRaises(q))
  BY DEF Follows, ClientType, NotifyRaises, PCs
<1>4. ASSUME q.todo # <<>> PROVE Follows(q, RecordRaises(q)) /\ Follows(q, New(q))
  <2>1. Tail(q.todo) \in Seq(Solutions \union {Bad})
    BY <1>4 DEF ClientType
  <2>2. Follows(q, RecordRaises(q)) /\ RecordRaises(q).known = q.known
    BY <2>1 DEF Follows, ClientType, RecordRaises, PCs
  <2>3. ASSUME NEW r \in ClientType
        PROVE  /\ [r EXCEPT !.generated = @ + 1] \in ClientType
               /\ [r EXCEPT !.generated = @ + 1].pc = r.pc
               /\ [r EXCEPT !.generated = @ + 1].known = r.known
    <3>1. r.generated + 1 \in Nat
      BY DEF ClientType
    <3> QED BY <3>1 DEF ClientType
  <2> QED BY <2>2, <2>3 DEF Follows, New
<1>5. \A a : Follows(q, Received(q, a))
  BY <1>1, <1>2 DEF Received, Follows, ClientType, PCs
<1>6. Follows(q, Repeat(q))
  <2> DEFINE N == 0
             P == IF q.errors < errorLimit THEN "next" ELSE "end"
  <2>1. N \in Int /\ P \in PCs \ {"record"}
    BY DEF PCs
  <2>2. Repeat(q) = [q EXCEPT !.pc = P, !.scount = N]
    BY DEF Repeat
  <2> HIDE DEF N, P
  <2>3. Follows(q, [q EXCEPT !.pc = P, !.scount = N])
    BY <2>1 DEF Follows, ClientType
  <2> QED BY <2>2, <2>3
<1> QED BY <1>1, <1>2, <1>3, <1>4, <1>5, <1>6 DEF Raises

(* A client moves on; the recording under way is not its own, or it ends.  *)
LEMMA ClientMoves ==
    ASSUME ExploreInv, NEW c \in Runners, cl[c].pc # "end",
           NEW r, Follows(cl[c], r), Set(c, r),
           UNCHANGED <<job, given, loaded, db, files>>,
           \/ UNCHANGED <<rec, up>> /\ (rec.step = "idle" \/ rec.who # c)
           \/ rec' = NoRecord /\ (up' => up)
    PROVE  ExploreInv'
<1> USE DEF ExploreInv
<1>1. /\ cl' = [d \in Runners |-> cl'[d]]
      /\ \A d \in Runners : cl'[d] = IF d = c THEN r ELSE cl[d]
  BY DEF Set, ClientsOK
<1>2. ClientsOK'
  BY <1>1 DEF ClientsOK, ClientOK, Follows
<1>3. RecordingOK'
  BY <1>1 DEF RecordingOK, IsRecord, Steps, NoRecord, Lines
<1>4. ServerKnows'
  BY <1>1 DEF ServerKnows, Served, At, Lines, NoRecord, Runners
<1>5. AloneKnows'
  <2>1. cl[Alone].known \subseteq cl'[Alone].known
    BY <1>1 DEF Follows, Runners
  <2> QED BY <2>1 DEF AloneKnows, Served, Lines, NoRecord
<1>6. DatabaseOK'
  BY DEF DatabaseOK, OneLineEach, LineHasFile
<1> QED BY <1>2, <1>3, <1>4, <1>5, <1>6

-----------------------------------------------------------------------------
(* The steps in which only the state of a client changes.                  *)
Untouched == UNCHANGED <<job, up, given, loaded, db, files, rec>>

LEMMA ClientAt ==
    ASSUME ExploreInv, NEW c \in Runners
    PROVE  /\ cl[c] \in ClientType
           /\ cl[c].pc = "record" => cl[c].todo # <<>> /\ Head(cl[c].todo) \in Solutions
           /\ rec.step # "idle" /\ rec.who = c => cl[c].pc = "record"
  BY DEF ExploreInv, ClientsOK, ClientOK, RecordingOK

(* The answer of a call arrives, or the client sees an exception.          *)
LEMMA Answered ==
    ASSUME ExploreInv, NEW c \in Runners, cl[c].pc \in {"next", "record", "notify"},
           NEW r, Follows(cl[c], r), Answer(c, r),
           UNCHANGED <<job, up, given, loaded, db, files>>,
           (rec.step = "idle" /\ UNCHANGED rec) \/ rec' = NoRecord
    PROVE  ExploreInv'
<1>1. Follows(cl[c], Raises(cl[c]))
  BY ClientAt, ClientFollows
<1>2. Set(c, r) \/ Set(c, Raises(cl[c]))
  BY DEF Answer
<1> QED BY <1>1, <1>2, ClientMoves

LEMMA RunsAndCalls ==
    ASSUME ExploreInv, NEW c \in Runners,
           RunScheme(c) \/ Processed(c) \/ CallLost(c) \/ Next_(c) \/ RefuseRecord(c) \/ notify(c)
    PROVE  ExploreInv'
<1>1. Untouched
  BY DEF RunScheme, Processed, CallLost, Next_, RefuseRecord, notify, Untouched, server, store
<1>2. ASSUME NEW r, Follows(cl[c], r), Set(c, r), cl[c].pc \notin {"end", "record"}
      PROVE  ExploreInv'
  BY <1>1, <1>2, ClientAt, ClientMoves DEF Untouched
<1>3. ASSUME NEW r \in ClientType, r.known = cl[c].known, Set(c, Ran(c, r)),
             cl[c].pc \notin {"end", "record"}
      PROVE  ExploreInv'
  <2>1. Follows(r, Repeat(r)) /\ Follows(r, [r EXCEPT !.pc = "notify"])
    BY ClientFollows DEF PCs
  <2> QED BY <1>2, <1>3, <2>1 DEF Follows, Ran
<1>4. CASE RunScheme(c)
  <2>1. \A n \in Int : [cl[c] EXCEPT !.scount = n] \in ClientType
    BY ClientAt DEF ClientType
  <2>2. [cl[c] EXCEPT !.scount = 0] \in ClientType
    BY <2>1
  <2>3. [cl[c] EXCEPT !.scount = -1, !.errors = @ + 1] \in ClientType
    <3> DEFINE M == -1
               N == cl[c].errors + 1
    <3>1. M \in Int /\ N \in Nat
      BY ClientAt DEF ClientType
    <3> HIDE DEF M, N
    <3>2. [cl[c] EXCEPT !.scount = M, !.errors = N] \in ClientType
      BY <3>1, ClientAt DEF ClientType
    <3> QED BY <3>2 DEF M, N
  <2>4. ASSUME NEW f \in Found
        PROVE  [cl[c] EXCEPT !.pc = "process", !.todo = f, !.scount = Len(f)] \in ClientType
    <3> DEFINE L == Len(f)
               P == "process"
    <3>1. f \in Seq(Solutions \union {Bad}) /\ L \in Int /\ P \in PCs
      BY FoundAssumption DEF PCs
    <3> HIDE DEF L, P
    <3>2. [cl[c] EXCEPT !.pc = P, !.todo = f, !.scount = L] \in ClientType
      BY <3>1, ClientAt DEF ClientType
    <3> QED BY <3>2 DEF L, P
  <2> QED
    BY <1>2, <1>3, <1>4, <2>2, <2>3, <2>4, ClientAt DEF RunScheme, At, Follows, ClientType
<1>5. CASE Processed(c)
  BY <1>3, <1>5, ClientAt DEF Processed, At
<1>6. CASE CallLost(c)
  <2>1. Follows(cl[c], Raises(cl[c])) /\ rec.who # c /\ Set(c, Raises(cl[c]))
    BY <1>6, ClientAt, ClientFollows DEF CallLost
  <2> QED BY <1>1, <1>6, <2>1, ClientMoves DEF CallLost, Untouched
<1>7. CASE Next_(c)
  BY <1>1, <1>7, Answered, ClientAt, ClientFollows DEF Next_, At, Idle, Untouched
<1>8. CASE RefuseRecord(c)
  BY <1>1, <1>8, Answered, ClientAt, ClientFollows DEF RefuseRecord, At, Idle, Untouched
<1>9. CASE notify(c)
  <2>1. Told(c) \in ClientType /\ Told(c).known = cl[c].known
    BY ClientAt DEF Told, ClientType
  <2>2. Follows(cl[c], Repeat(Told(c))) /\ Follows(cl[c], NotifyRaises(Told(c)))
    BY <2>1, ClientFollows DEF Follows
  <2> QED BY <1>2, <1>9, <2>2 DEF notify, At
<1> QED BY <1>4, <1>5, <1>6, <1>7, <1>8, <1>9

(* The standalone program selects.                                         *)
LEMMA SelectKeeps ==
    ASSUME ExploreInv, SelectAlone
    PROVE  ExploreInv'
<1>1. PICK p \in PCs \ {"record"} : Go(Alone, p)
  BY DEF SelectAlone, PCs
<1>2. Untouched /\ cl[Alone].pc = "next" /\ Alone \in Runners
  BY DEF SelectAlone, At, Untouched, store, Runners
<1>3. Follows(cl[Alone], [cl[Alone] EXCEPT !.pc = p])
  BY <1>2, ClientAt, ClientFollows
<1> QED BY <1>1, <1>2, <1>3, ClientAt, ClientMoves DEF Go, Untouched

(* A recording ends, by return, by an exception or by a crash.             *)
LEMMA EndsKeep ==
    ASSUME ExploreInv,
           \/ \E c \in Runners : EndRecord(c)
           \/ RecordFault \/ RecordedAlone \/ CrashServer
    PROVE  ExploreInv'
<1>1. ASSUME NEW c \in Runners, EndRecord(c) PROVE ExploreInv'
  <2>1. cl[c].pc = "record" /\ Follows(cl[c], New(cl[c]))
    BY <1>1, ClientAt, ClientFollows DEF EndRecord
  <2> QED BY <1>1, <2>1, Answered DEF EndRecord
<1>2. ASSUME NEW c \in Runners, rec.step # "idle", rec.who = c,
             NEW r, Set(c, r), r = RecordRaises(cl[c]) \/ r = [cl[c] EXCEPT !.pc = "dead"],
             rec' = NoRecord, up' => up, UNCHANGED <<job, given, loaded, db, files>>
      PROVE  ExploreInv'
  <2>1. cl[c].pc = "record" /\ Follows(cl[c], r)
    <3>1. cl[c] \in ClientType /\ cl[c].pc = "record" /\ cl[c].todo # <<>>
      BY <1>2, ClientAt
    <3>2. "dead" \in PCs \ {"record"}
      BY DEF PCs
    <3> QED BY <1>2, <3>1, <3>2, ClientFollows
  <2> QED BY <1>2, <2>1, ClientMoves
<1>3. rec.step # "idle" => rec.who \in Runners
  BY DEF ExploreInv, RecordingOK
<1>4. CASE RecordFault
  BY <1>2, <1>3, <1>4 DEF RecordFault, server
<1>5. CASE RecordedAlone
  BY <1>2, <1>3, <1>5 DEF RecordedAlone, server
<1>6. CASE CrashServer /\ rec.step # "idle"
  BY <1>2, <1>3, <1>6 DEF CrashServer
<1>7. CASE CrashServer /\ rec.step = "idle"
  BY <1>7
  DEF CrashServer, ExploreInv, ClientsOK, RecordingOK, IsRecord, NoRecord, Steps, Lines,
      ServerKnows, AloneKnows, Served, At, DatabaseOK, OneLineEach, LineHasFile
<1> QED BY <1>1, <1>4, <1>5, <1>6, <1>7

-----------------------------------------------------------------------------
(* A process starts, and knows what the database has.                      *)
LEMMA StartsKeep ==
    ASSUME ExploreInv, StartServer \/ \E c \in Runners : StartRunner(c)
    PROVE  ExploreInv'
<1> USE DEF ExploreInv
<1>1. Lines \subseteq Solutions /\ loadDatabase = Lines
  BY DEF DatabaseOK, Lines, ToSet, loadDatabase
<1>2. CASE StartServer
  <2>1. /\ UNCHANGED <<job, cl, rec, db, files>> /\ Served /\ rec.step = "idle"
        /\ loaded' = [loaded EXCEPT ![Server] = Lines]
    BY <1>1, <1>2 DEF StartServer, ServerKnows, store
  <2>2. loaded' \in [Runners \union {Server} -> SUBSET Solutions] /\ loaded'[Server] = Lines
    BY <1>1, <2>1 DEF DatabaseOK
  <2> QED
    BY <2>1, <2>2
    DEF ClientsOK, RecordingOK, IsRecord, Lines, ServerKnows, AloneKnows, Served, At,
        DatabaseOK, OneLineEach, LineHasFile
<1>3. ASSUME NEW c \in Runners, StartRunner(c) PROVE ExploreInv'
  <2>1. /\ UNCHANGED <<job, up, given, rec, db, files>> /\ cl[c].pc = "start"
        /\ loaded' = [loaded EXCEPT ![c] = Lines]
    BY <1>1, <1>3 DEF StartRunner, At, store
  <2>2. /\ loaded' \in [Runners \union {Server} -> SUBSET Solutions]
        /\ loaded'[Server] = loaded[Server]
        /\ \A d \in Runners : loaded'[d] = IF d = c THEN Lines ELSE loaded[d]
    BY <1>1, <2>1, NamesAssumption DEF DatabaseOK
  <2>3. /\ cl' = [d \in Runners |-> cl'[d]]
        /\ \A d \in Runners \ {c} : cl'[d] = cl[d]
        /\ Follows(cl[c], cl'[c])
    <3>1. Follows(cl[c], [cl[c] EXCEPT !.pc = "next"])
      BY ClientAt, ClientFollows DEF PCs
    <3> QED BY <1>3, <3>1 DEF StartRunner, Go, Set, ClientsOK
  <2>4. ClientsOK'
    BY <2>3 DEF ClientsOK, ClientOK, Follows
  <2>5. rec.step # "idle" => rec.who # c
    BY <2>1 DEF RecordingOK
  <2>6. RecordingOK'
    BY <2>1, <2>3, <2>5 DEF RecordingOK, IsRecord, Lines
  <2>7. ServerKnows' /\ DatabaseOK'
    BY <2>1, <2>2, <2>3
    DEF ServerKnows, Served, At, Lines, DatabaseOK, OneLineEach, LineHasFile, Runners
  <2>8. AloneKnows'
    <3>1. cl[Alone].known \subseteq cl'[Alone].known
      BY <2>3 DEF Follows, Runners
    <3> QED BY <2>1, <2>2, <3>1 DEF AloneKnows, Served, Lines, Runners
  <2> QED BY <2>4, <2>6, <2>7, <2>8
<1> QED BY <1>2, <1>3

(* A client looks at the next solution; the standalone program begins to   *)
(* record one that neither its database nor it has seen.                   *)
LEMMA ProcessKeeps ==
    ASSUME ExploreInv, NEW c \in Runners, processSolution(c)
    PROVE  ExploreInv'
<1> USE DEF ExploreInv
<1> DEFINE s == Head(cl[c].todo)
           skipped == [cl[c] EXCEPT !.todo = Tail(@)]
<1>1. /\ UNCHANGED <<job, up, given, loaded, db, files>>
      /\ cl[c].pc = "process" /\ cl[c].todo # <<>> /\ cl[c] \in ClientType
      /\ rec.step # "idle" => rec.who # c
  BY ClientAt DEF processSolution, At, server
<1>2. /\ s \in Solutions \union {Bad} /\ Tail(cl[c].todo) \in Seq(Solutions \union {Bad})
  BY <1>1 DEF ClientType
<1>3. skipped \in ClientType /\ skipped.pc = "process" /\ skipped.known = cl[c].known
  BY <1>1, <1>2 DEF ClientType
<1>4. ASSUME NEW r, Follows(cl[c], r), Set(c, r), UNCHANGED rec PROVE ExploreInv'
  BY <1>1, <1>4, ClientMoves
<1>5. CASE s = Bad \/ s \in cl[c].known
  BY <1>3, <1>4, <1>5 DEF processSolution, Follows
<1>6. CASE s # Bad /\ s \notin cl[c].known /\ s \in Heule \union loaded[c]
  <2>1. Set(c, [skipped EXCEPT !.known = @ \union {s}]) /\ UNCHANGED rec
    BY <1>6 DEF processSolution
  <2>2. Follows(cl[c], [skipped EXCEPT !.known = @ \union {s}])
    <3> HIDE DEF skipped
    <3>1. skipped.known \union {s} \in SUBSET Solutions
      BY <1>2, <1>3, <1>6 DEF ClientType
    <3> QED BY <1>3, <3>1 DEF Follows, ClientType
  <2> QED BY <1>4, <2>1, <2>2
<1>7. CASE s # Bad /\ s \notin cl[c].known /\ s \notin Heule \union loaded[c]
  <2> DEFINE r == [cl[c] EXCEPT !.known = @ \union {s}, !.pc = "record"]
  <2>1. Set(c, r) /\ IF c = Alone THEN recordSolution(c, s) ELSE UNCHANGED rec
    BY <1>7 DEF processSolution
  <2>2. /\ r \in ClientType /\ r.pc = "record" /\ r.todo = cl[c].todo
        /\ r.known = cl[c].known \union {s}
    BY <1>1, <1>2, <1>7 DEF ClientType, PCs
  <2> HIDE DEF r
  <2>3. s \in Solutions \ Heule
    BY <1>2, <1>7
  <2>4. /\ cl' = [d \in Runners |-> cl'[d]]
        /\ \A d \in Runners : cl'[d] = IF d = c THEN r ELSE cl[d]
    BY <2>1 DEF Set, ClientsOK
  <2>5. ClientsOK'
    BY <1>1, <2>2, <2>3, <2>4 DEF ClientsOK, ClientOK
  <2>6. DatabaseOK'
    BY <1>1 DEF DatabaseOK, OneLineEach, LineHasFile
  <2>7. CASE c = Alone
    <3>1. ~Served /\ rec.step = "idle" /\ ~up
      BY <1>1, <2>7 DEF ServerKnows, At, AloneKnows
    <3>2. s \notin Lines
      BY <1>7, <2>7, <3>1 DEF AloneKnows
    <3>3. rec' = [who |-> c, scheme |-> s, step |-> "open"]
      BY <2>1, <2>7 DEF recordSolution
    <3>4. RecordingOK'
      BY <1>1, <2>2, <2>3, <2>4, <3>2, <3>3 DEF RecordingOK, IsRecord, Steps, Lines
    <3>5. ServerKnows' /\ AloneKnows'
      BY <1>1, <2>2, <2>4, <2>7, <3>1, <3>3 DEF ServerKnows, AloneKnows, Served, Lines, At
    <3> QED BY <2>5, <2>6, <3>4, <3>5
  <2>8. CASE c # Alone
    <3>1. UNCHANGED rec /\ cl'[Alone] = cl[Alone]
      BY <2>1, <2>4, <2>8 DEF Runners
    <3>2. RecordingOK'
      BY <1>1, <2>4, <3>1 DEF RecordingOK, IsRecord, Lines
    <3>3. ServerKnows' /\ AloneKnows'
      BY <1>1, <3>1 DEF ServerKnows, AloneKnows, Served, Lines, At
    <3> QED BY <2>5, <2>6, <3>2, <3>3
  <2> QED BY <2>7, <2>8
<1> QED BY <1>5, <1>6, <1>7

(* The server begins to record what no one it knows of has given it.       *)
LEMMA BeginKeeps ==
    ASSUME ExploreInv, NEW c \in Runners, BeginRecord(c)
    PROVE  ExploreInv'
<1> USE DEF ExploreInv
<1> DEFINE s == Head(cl[c].todo)
<1>1. /\ UNCHANGED <<job, up, loaded, cl, db, files>> /\ up /\ cl[c].pc = "record"
      /\ s \notin Known /\ given' = given \union {s}
      /\ rec' = [who |-> c, scheme |-> s, step |-> "open"]
  BY DEF BeginRecord, At, Idle, recordSolution
<1>2. Served /\ s \in Solutions \ Heule /\ s \notin Lines
  BY <1>1, ClientAt DEF Known, ServerKnows
<1> QED
  BY <1>1, <1>2
  DEF ClientsOK, RecordingOK, IsRecord, Steps, Lines, ServerKnows, AloneKnows, Served, At,
      DatabaseOK, OneLineEach, LineHasFile

(* The steps of a recording: the file is complete before the line is there.*)
LEMMA Appended ==
    ASSUME NEW S, NEW q \in Seq(S), NEW x \in S
    PROVE  /\ Append(q, x) \in Seq(S)
           /\ ToSet(Append(q, x)) = ToSet(q) \union {x}
           /\ /\ x \notin ToSet(q)
              /\ \A i, j \in DOMAIN q : q[i] = q[j] => i = j
              => \A i, j \in DOMAIN Append(q, x) : Append(q, x)[i] = Append(q, x)[j] => i = j
<1>1. /\ Append(q, x) \in Seq(S) /\ DOMAIN q = 1 .. Len(q) /\ Len(q) \in Nat
      /\ DOMAIN Append(q, x) = 1 .. (Len(q) + 1)
      /\ \A i \in 1 .. (Len(q) + 1) : Append(q, x)[i] = IF i \in 1 .. Len(q) THEN q[i] ELSE x
  OBVIOUS
<1>2. ToSet(Append(q, x)) = ToSet(q) \union {x}
  <2>1. Append(q, x)[Len(q) + 1] = x /\ Len(q) + 1 \in DOMAIN Append(q, x)
    BY <1>1
  <2>2. \A i \in DOMAIN q : i \in DOMAIN Append(q, x) /\ Append(q, x)[i] = q[i]
    BY <1>1
  <2>3. \A i \in DOMAIN Append(q, x) : Append(q, x)[i] = x \/ i \in DOMAIN q
    BY <1>1
  <2> QED BY <2>1, <2>2, <2>3 DEF ToSet
<1>3. ASSUME x \notin ToSet(q), \A i, j \in DOMAIN q : q[i] = q[j] => i = j,
             NEW i \in DOMAIN Append(q, x), NEW j \in DOMAIN Append(q, x),
             Append(q, x)[i] = Append(q, x)[j]
      PROVE  i = j
  <2>1. \A k \in DOMAIN q : q[k] # x
    BY <1>3 DEF ToSet
  <2> QED BY <1>1, <1>3, <2>1
<1> QED BY <1>1, <1>2, <1>3

LEMMA RecordKeeps ==
    ASSUME ExploreInv, Record
    PROVE  ExploreInv'
<1> USE DEF ExploreInv
<1>1. UNCHANGED <<job, up, given, loaded, cl>>
  BY DEF Record, server
<1>2. ClientsOK'
  BY <1>1 DEF ClientsOK
<1>3. rec.step # "idle"
  BY DEF Record, Recording, OpenFile, WriteFile, AppendLine, CannotOpen, CannotWrite, Step
<1>4. /\ rec.who \in Runners /\ cl[rec.who].pc = "record" /\ rec.scheme \in Solutions \ Heule
      /\ Served => up /\ rec.scheme \in given
      /\ ~Served => rec.who = Alone /\ rec.scheme \in cl[Alone].known
  BY <1>3 DEF RecordingOK, ServerKnows, AloneKnows
<1>5. ASSUME NEW to \in Steps, rec' = [rec EXCEPT !.step = to]
      PROVE  IsRecord' /\ rec'.step = to /\ rec'.who = rec.who /\ rec'.scheme = rec.scheme
  BY <1>5 DEF RecordingOK, IsRecord
<1>6. ASSUME NEW to \in Steps, rec' = [rec EXCEPT !.step = to], UNCHANGED db
      PROVE  ServerKnows' /\ AloneKnows'
  BY <1>1, <1>4, <1>5, <1>6 DEF ServerKnows, AloneKnows, Served, At, Lines
<1>7. CASE OpenFile
  <2>1. rec.scheme \notin Lines /\ rec' = [rec EXCEPT !.step = "write"] /\ UNCHANGED db
    BY <1>7 DEF RecordingOK, OpenFile, Step
  <2>2. /\ files' = [files EXCEPT ![rec.scheme] = "empty"]
        /\ files' \in [Solutions -> {"none", "empty", "full"}]
    BY <1>4, <1>7 DEF OpenFile, DatabaseOK
  <2>3. DatabaseOK'
    BY <1>1, <2>1, <2>2 DEF DatabaseOK, OneLineEach, LineHasFile, Lines
  <2>4. RecordingOK'
    BY <1>1, <1>4, <1>5, <2>1 DEF RecordingOK, Steps, Lines
  <2> QED BY <1>2, <1>6, <2>1, <2>3, <2>4 DEF Steps
<1>8. CASE WriteFile
  <2>1. rec.scheme \notin Lines /\ rec' = [rec EXCEPT !.step = "append"] /\ UNCHANGED db
    BY <1>8 DEF RecordingOK, WriteFile, Step
  <2>2. /\ files' = [files EXCEPT ![rec.scheme] = "full"]
        /\ files' \in [Solutions -> {"none", "empty", "full"}]
        /\ files'[rec.scheme] = "full"
    BY <1>4, <1>8 DEF WriteFile, DatabaseOK
  <2>3. DatabaseOK'
    BY <1>1, <2>1, <2>2 DEF DatabaseOK, OneLineEach, LineHasFile, Lines
  <2>4. RecordingOK'
    BY <1>1, <1>4, <1>5, <2>1, <2>2 DEF RecordingOK, Steps, Lines
  <2> QED BY <1>2, <1>6, <2>1, <2>3, <2>4 DEF Steps
<1>9. CASE AppendLine
  <2>1. /\ rec.scheme \notin Lines /\ files[rec.scheme] = "full" /\ UNCHANGED files
        /\ rec' = [rec EXCEPT !.step = "return"] /\ db' = Append(db, rec.scheme)
    BY <1>9 DEF RecordingOK, AppendLine, Step
  <2>2. db' \in Seq(Solutions) /\ Lines' = Lines \union {rec.scheme}
        /\ \A i, j \in DOMAIN db' : db'[i] = db'[j] => i = j
    BY <1>4, <2>1, Appended DEF DatabaseOK, OneLineEach, Lines
  <2>3. DatabaseOK'
    BY <1>1, <1>4, <2>1, <2>2 DEF DatabaseOK, OneLineEach, LineHasFile, Lines
  <2>4. RecordingOK'
    BY <1>1, <1>4, <1>5, <2>1 DEF RecordingOK, Steps
  <2>5. ServerKnows' /\ AloneKnows'
    BY <1>1, <1>4, <1>5, <2>1, <2>2 DEF ServerKnows, AloneKnows, Served, At, Steps
  <2> QED BY <1>2, <2>3, <2>4, <2>5
<1>10. CASE CannotOpen \/ CannotWrite
  <2>1. PICK to \in {"return", "raise"} : rec' = [rec EXCEPT !.step = to]
    BY <1>10 DEF CannotOpen, CannotWrite
  <2>2. UNCHANGED <<db, files>>
    BY <1>10 DEF CannotOpen, CannotWrite
  <2>3. DatabaseOK'
    BY <1>1, <2>2 DEF DatabaseOK, OneLineEach, LineHasFile
  <2>4. RecordingOK'
    BY <1>1, <1>4, <1>5, <2>1 DEF RecordingOK, Steps
  <2> QED BY <1>2, <1>6, <2>1, <2>2, <2>3, <2>4 DEF Steps
<1> QED BY <1>7, <1>8, <1>9, <1>10 DEF Record, Recording

-----------------------------------------------------------------------------
(* The inductive invariant: whoever decides what is new knows every line.  *)
THEOREM AlwaysKnown == Spec => []ExploreInv
<1>1. ExploreInv /\ [Next]_vars => ExploreInv'
  <2> SUFFICES ASSUME ExploreInv, [Next]_vars PROVE ExploreInv'
    OBVIOUS
  <2>1. ASSUME NEW c \in Runners, Runner(c) PROVE ExploreInv'
    BY <2>1, StartsKeep, RunsAndCalls, ProcessKeeps, BeginKeeps, EndsKeep DEF Runner
  <2>2. CASE Rest
    BY <2>2, StartsKeep, RecordKeeps, EndsKeep, SelectKeeps DEF Rest, AloneStep
  <2>3. CASE CrashServer
    BY <2>3, EndsKeep
  <2>4. CASE UNCHANGED vars
    BY <2>4
    DEF vars, server, store, ExploreInv, ClientsOK, RecordingOK, IsRecord, Lines, ServerKnows,
        AloneKnows, Served, At, DatabaseOK, OneLineEach, LineHasFile
  <2> QED BY <2>1, <2>2, <2>3, <2>4 DEF Next
<1> QED BY <1>1, StartInv, PTL DEF Spec

(* A solution is never recorded a second time, whatever calls are repeated *)
(* and however often the server is started again.                          *)
THEOREM AlwaysOneLine == Spec => []OneLineEach
<1>1. ExploreInv => OneLineEach
  BY DEF ExploreInv, DatabaseOK
<1> QED BY <1>1, AlwaysKnown, PTL

(* No moment at which a program that reads the database finds a line whose *)
(* file is missing or not complete.                                        *)
THEOREM LineAlwaysHasFile == Spec => []LineHasFile
<1>1. ExploreInv => LineHasFile
  BY DEF ExploreInv, DatabaseOK
<1> QED BY <1>1, AlwaysKnown, PTL

-----------------------------------------------------------------------------
(* A line that has just been written belongs to the answer that is due.    *)
Due(r) == IF r.step = "return" THEN 1 ELSE 0
FindsInv ==
    /\ job \in Jobs /\ failures \in Nat /\ failures <= job.failures
    /\ IsFiniteSet(CountedFinds)
    /\ failures = job.failures => Cardinality(CountedFinds) + Due(rec) <= Len(db)

SameCounts == \A c \in Clients : cl'[c].generated = cl[c].generated

(* A step after which no client counts more.                               *)
LEMMA CountsKept ==
    ASSUME ExploreInv, ExploreInv', FindsInv, SameCounts, job' = job,
           \/ failures' = failures - 1 /\ failures > 0
           \/ /\ failures' = failures
              /\ \/ db' = db /\ (rec'.step = "return" => rec.step = "return")
                 \/ rec.step # "return" /\ Len(db') = Len(db) + 1
    PROVE  FindsInv'
<1>1. CountedFinds' = CountedFinds
  BY DEF SameCounts, CountedFinds
<1>2. IsFiniteSet(CountedFinds) /\ Cardinality(CountedFinds) \in Nat
  BY FS_CardinalityType DEF FindsInv
<1>3. job.failures \in Nat /\ Len(db) \in Nat
  BY JobsAssumption DEF FindsInv, ExploreInv, DatabaseOK
<1>4. CASE failures' = failures - 1 /\ failures > 0
  <2>1. PICK n \in Nat : failures' = n /\ n < job.failures
    BY <1>3, <1>4 DEF FindsInv
  <2> QED BY <1>1, <1>2, <1>3, <2>1 DEF FindsInv
<1>5. CASE failures' = failures /\ db' = db /\ (rec'.step = "return" => rec.step = "return")
  BY <1>1, <1>2, <1>3, <1>5 DEF FindsInv, Due
<1>6. CASE failures' = failures /\ rec.step # "return" /\ Len(db') = Len(db) + 1
  <2>1. failures = job.failures => Cardinality(CountedFinds) + 1 <= Len(db) + 1
    BY <1>2, <1>3, <1>6 DEF FindsInv, Due
  <2>2. failures = job.failures => Cardinality(CountedFinds) + Due(rec') <= Len(db) + 1
    BY <1>2, <1>3, <2>1 DEF Due
  <2>3. failures' = job'.failures => Cardinality(CountedFinds') + Due(rec') <= Len(db')
    BY <1>1, <1>6, <2>2
  <2> QED BY <1>1, <1>2, <1>6, <2>3 DEF FindsInv
<1> QED BY <1>4, <1>5, <1>6

(* The client that is answered counts one more.                            *)
LEMMA OneCounted ==
    ASSUME ExploreInv, FindsInv, NEW c \in Clients, Set(c, New(cl[c])), rec.step = "return",
           rec'.step # "return", UNCHANGED <<job, failures, db>>
    PROVE  FindsInv'
<1>1. c \in Runners /\ cl[c].generated \in Nat
  BY DEF Runners, ExploreInv, ClientsOK, ClientOK, ClientType
<1>2. /\ cl' = [cl EXCEPT ![c] = New(cl[c])] /\ DOMAIN cl = Runners
  BY DEF Set, ExploreInv, ClientsOK
<1>3. New(cl[c]).generated = cl[c].generated + 1
  <2> DEFINE q == RecordRaises(cl[c])
  <2>1. q.generated = cl[c].generated /\ q = [q EXCEPT !.pc = q.pc] /\ "generated" \in DOMAIN q
    BY <1>1 DEF RecordRaises, ExploreInv, ClientsOK, ClientOK, ClientType
  <2>2. [q EXCEPT !.generated = @ + 1].generated = q.generated + 1
    <3> HIDE DEF q
    <3> QED BY <2>1
  <2> QED BY <2>1, <2>2 DEF New
<1>4. /\ \A d \in Clients \ {c} : cl'[d].generated = cl[d].generated
      /\ cl'[c].generated = cl[c].generated + 1
  BY <1>1, <1>2, <1>3 DEF Runners
<1>5. PICK n \in Nat : cl[c].generated = n /\ cl'[c].generated = n + 1
  BY <1>1, <1>4
<1>6. CountedFinds' = CountedFinds \union {<<c, n + 1>>}
  <2>1. \A x : x \in CountedFinds <=> \E d \in Clients : \E i \in 1 .. cl[d].generated : x = <<d, i>>
    BY DEF CountedFinds
  <2>2. \A x : x \in CountedFinds' <=> \E d \in Clients : \E i \in 1 .. cl'[d].generated : x = <<d, i>>
    BY DEF CountedFinds
  <2>3. \A i : i \in 1 .. n + 1 <=> i \in 1 .. n \/ i = n + 1
    OBVIOUS
  <2>4. \A x : x \in CountedFinds' <=> x \in CountedFinds \/ x = <<c, n + 1>>
    BY <1>4, <1>5, <2>1, <2>2, <2>3
  <2> QED BY <2>4
<1>7. <<c, n + 1>> \notin CountedFinds
  <2>1. n + 1 \notin 1 .. n
    OBVIOUS
  <2> QED BY <1>5, <2>1 DEF CountedFinds
<1>8. IsFiniteSet(CountedFinds) /\ Cardinality(CountedFinds) \in Nat
  BY FS_CardinalityType DEF FindsInv
<1>9. IsFiniteSet(CountedFinds') /\ Cardinality(CountedFinds') = Cardinality(CountedFinds) + 1
  BY <1>6, <1>7, <1>8, FS_AddElement
<1>10. failures = job.failures => Cardinality(CountedFinds') + 0 <= Len(db)
  <2>1. Len(db) \in Nat
    BY DEF ExploreInv, DatabaseOK
  <2> QED BY <1>8, <1>9, <2>1 DEF FindsInv, Due
<1>11. Due(rec') = 0
  BY DEF Due
<1>12. failures' = job'.failures => Cardinality(CountedFinds') + Due(rec') <= Len(db')
  BY <1>10, <1>11
<1> QED BY <1>9, <1>12 DEF FindsInv

(* Whatever else a client makes of an outcome, it counts nothing.          *)
LEMMA CountsNothing ==
    ASSUME NEW q \in ClientType
    PROVE  /\ \A p : [q EXCEPT !.pc = p].generated = q.generated
           /\ NextRaises(q).generated = q.generated
           /\ NotifyRaises(q).generated = q.generated
           /\ RecordRaises(q).generated = q.generated
           /\ q.pc \in {"next", "record", "notify"} => Raises(q).generated = q.generated
           /\ \A a : Received(q, a).generated = q.generated
           /\ Repeat(q).generated = q.generated
<1>1. \A p : [q EXCEPT !.pc = p].generated = q.generated
  BY DEF ClientType
<1>2. NextRaises(q).generated = q.generated
  BY DEF NextRaises, ClientType
<1>3. NotifyRaises(q).generated = q.generated /\ RecordRaises(q).generated = q.generated
  BY DEF NotifyRaises, RecordRaises, ClientType
<1>4. Repeat(q).generated = q.generated
  BY DEF Repeat, ClientType
<1>5. \A a : Received(q, a).generated = q.generated
  BY <1>2 DEF Received, ClientType
<1> QED BY <1>1, <1>2, <1>3, <1>4, <1>5 DEF Raises

(* Then no client counts.                                                *)
LEMMA SetCountsNothing ==
    ASSUME ExploreInv, NEW c \in Runners, NEW r, Set(c, r), r.generated = cl[c].generated
    PROVE  SameCounts
  BY DEF Set, SameCounts, ExploreInv, ClientsOK, Runners

(* No step but the answer to a recording counts.                           *)
LEMMA RunnerCounts ==
    ASSUME ExploreInv, NEW c \in Runners,
           StartRunner(c) \/ RunScheme(c) \/ processSolution(c) \/ Processed(c)
             \/ CallLost(c) \/ Next_(c) \/ RefuseRecord(c) \/ BeginRecord(c) \/ notify(c)
    PROVE  SameCounts
<1>0. cl[c] \in ClientType
  BY ClientAt
<1> USE <1>0, CountsNothing, SetCountsNothing
<1>1. \A r \in ClientType : r.generated = cl[c].generated => Ran(c, r).generated = cl[c].generated
  BY DEF Ran
<1>2. ASSUME NEW r, r.generated = cl[c].generated, Answer(c, r),
             cl[c].pc \in {"next", "record", "notify"}
      PROVE  SameCounts
  BY <1>2 DEF Answer
<1>3. CASE StartRunner(c)
  BY <1>3 DEF StartRunner, Go
<1>4. CASE RunScheme(c)
  <2>1. /\ Ran(c, [cl[c] EXCEPT !.scount = 0]).generated = cl[c].generated
        /\ Ran(c, [cl[c] EXCEPT !.scount = -1, !.errors = @ + 1]).generated = cl[c].generated
        /\ \A f : [cl[c] EXCEPT !.pc = "process", !.todo = f, !.scount = Len(f)].generated = cl[c].generated
    BY DEF Ran, Repeat, ClientType
  <2> QED BY <1>4, <2>1 DEF RunScheme
<1>5. CASE processSolution(c)
  <2> DEFINE rest == Tail(cl[c].todo)
             more == cl[c].known \union {Head(cl[c].todo)}
             skipped == [cl[c] EXCEPT !.todo = rest]
  <2>1. skipped.generated = cl[c].generated
    BY DEF ClientType
  <2>2. [skipped EXCEPT !.known = more].generated = cl[c].generated
    BY DEF ClientType
  <2>3. [cl[c] EXCEPT !.known = more, !.pc = "record"].generated = cl[c].generated
    BY DEF ClientType
  <2>4. skipped.known = cl[c].known
    BY DEF ClientType
  <2>5. \/ Set(c, skipped)
        \/ Set(c, [skipped EXCEPT !.known = more])
        \/ Set(c, [cl[c] EXCEPT !.known = more, !.pc = "record"])
    BY <1>5, <2>4 DEF processSolution
  <2> HIDE DEF skipped, more
  <2> QED BY <2>1, <2>2, <2>3, <2>5
<1>6. CASE Processed(c)
  BY <1>1, <1>6 DEF Processed
<1>7. CASE CallLost(c)
  BY <1>7 DEF CallLost
<1>8. CASE Next_(c)
  BY <1>2, <1>8 DEF Next_, At
<1>9. CASE RefuseRecord(c)
  BY <1>2, <1>9 DEF RefuseRecord, At
<1>10. CASE BeginRecord(c)
  BY <1>10 DEF BeginRecord, SameCounts
<1>11. CASE notify(c)
  <2>1. Told(c) \in ClientType /\ Told(c).generated = cl[c].generated
    BY DEF Told, ClientType
  <2>2. Repeat(Told(c)).generated = cl[c].generated /\ NotifyRaises(Told(c)).generated = cl[c].generated
    BY <2>1
  <2> QED BY <1>11, <2>2 DEF notify
<1> QED BY <1>3, <1>4, <1>5, <1>6, <1>7, <1>8, <1>9, <1>10, <1>11

(* Nor does the server, or the standalone program.                       *)
LEMMA RestCounts ==
    ASSUME ExploreInv, StartServer \/ Record \/ RecordFault \/ AloneStep \/ CrashServer
    PROVE  SameCounts
<1>1. CASE StartServer \/ Record
  BY <1>1 DEF StartServer, Record, SameCounts
<1>2. ASSUME NEW c \in Runners, NEW r, Set(c, r),
             r = RecordRaises(cl[c]) \/ \E p : r = [cl[c] EXCEPT !.pc = p]
      PROVE  SameCounts
  <2>1. cl[c] \in ClientType
    BY ClientAt
  <2>2. r.generated = cl[c].generated
    <3>1. \A p : [cl[c] EXCEPT !.pc = p].generated = cl[c].generated
      BY <2>1, CountsNothing
    <3>2. RecordRaises(cl[c]).generated = cl[c].generated
      BY <2>1, CountsNothing
    <3> QED BY <1>2, <3>1, <3>2
  <2> QED BY <1>2, <2>2, SetCountsNothing
<1>3. Alone \in Runners /\ (rec.step # "idle" => rec.who \in Runners)
  BY DEF Runners, ExploreInv, RecordingOK
<1>4. CASE RecordFault
  BY <1>2, <1>3, <1>4 DEF RecordFault
<1>5. CASE AloneStep
  BY <1>2, <1>3, <1>5 DEF AloneStep, SelectAlone, RecordedAlone, Go
<1>6. CASE CrashServer
  BY <1>2, <1>3, <1>6 DEF CrashServer, SameCounts
<1> QED BY <1>1, <1>4, <1>5, <1>6

(* Every step keeps the books.                                             *)
LEMMA FindsKeep ==
    ASSUME ExploreInv, ExploreInv', FindsInv, Next
    PROVE  FindsInv'
<1>1. ASSUME NEW c \in Runners, EndRecord(c) PROVE FindsInv'
  <2>1. /\ rec.step = "return" /\ rec.who = c /\ c \in Clients /\ rec'.step # "return"
        /\ UNCHANGED <<job, failures, db>>
    BY <1>1 DEF EndRecord, NoRecord, Runners
  <2>2. Set(c, New(cl[c])) \/ Set(c, Raises(cl[c]))
    BY <1>1 DEF EndRecord, Answer
  <2>3. CASE Set(c, New(cl[c]))
    BY <2>1, <2>3, OneCounted
  <2>4. CASE Set(c, Raises(cl[c]))
    <3>1. cl[c] \in ClientType /\ cl[c].pc = "record"
      BY <2>1, ClientAt
    <3>2. Raises(cl[c]).generated = cl[c].generated
      BY <3>1, CountsNothing
    <3>3. SameCounts
      BY <2>4, <3>2, SetCountsNothing
    <3> QED BY <2>1, <3>3, CountsKept
  <2> QED BY <2>2, <2>3, <2>4
<1>2. ASSUME NEW c \in Runners,
             StartRunner(c) \/ RunScheme(c) \/ processSolution(c) \/ Processed(c)
               \/ CallLost(c) \/ Next_(c) \/ RefuseRecord(c) \/ BeginRecord(c) \/ notify(c)
      PROVE  FindsInv'
  <2>1. SameCounts
    BY <1>2, RunnerCounts
  <2>2. job' = job /\ db' = db
    BY <1>2 DEF StartRunner, RunScheme, processSolution, Processed, CallLost, Next_,
                RefuseRecord, BeginRecord, notify, store
  <2>3. failures' = failures \/ (failures' = failures - 1 /\ failures > 0)
    BY <1>2 DEF StartRunner, RunScheme, processSolution, Processed, CallLost, Next_,
                RefuseRecord, BeginRecord, notify, store
  <2>4. UNCHANGED rec \/ \E s : recordSolution(c, s)
    BY <1>2 DEF StartRunner, RunScheme, processSolution, Processed, CallLost, Next_,
                RefuseRecord, BeginRecord, notify, store
  <2>5. rec'.step = "return" => rec.step = "return"
    BY <2>4 DEF recordSolution
  <2> QED BY <2>1, <2>2, <2>3, <2>5, CountsKept
<1>3. CASE Record
  <2>1. SameCounts /\ job' = job
    BY <1>3, RestCounts DEF Record
  <2>2. IsRecord /\ \A to : [rec EXCEPT !.step = to].step = to
    BY DEF ExploreInv, RecordingOK, IsRecord
  <2>3. CASE AppendLine
    <3>1. /\ rec.step = "append" /\ failures' = failures /\ db' = Append(db, rec.scheme)
          /\ rec.scheme \in Solutions
      BY <2>3 DEF AppendLine, Step, ExploreInv, RecordingOK
    <3>2. Len(db') = Len(db) + 1
      BY <3>1 DEF ExploreInv, DatabaseOK
    <3> QED BY <2>1, <3>1, <3>2, CountsKept
  <2>4. CASE OpenFile \/ WriteFile \/ CannotOpen \/ CannotWrite
    <3>1. /\ db' = db
          /\ \/ failures' = failures - 1 /\ failures > 0
             \/ failures' = failures /\ (rec'.step = "return" => rec.step = "return")
      BY <2>2, <2>4 DEF OpenFile, WriteFile, CannotOpen, CannotWrite, Step
    <3> QED BY <2>1, <3>1, CountsKept
  <2> QED BY <1>3, <2>3, <2>4 DEF Record, Recording
<1>4. CASE StartServer \/ RecordFault \/ AloneStep \/ CrashServer
  <2>1. SameCounts
    BY <1>4, RestCounts
  <2>2. /\ UNCHANGED <<job, db, failures>>
        /\ rec'.step = "return" => rec.step = "return"
    BY <1>4 DEF StartServer, RecordFault, AloneStep, SelectAlone, RecordedAlone, CrashServer,
                store, NoRecord
  <2> QED BY <2>1, <2>2, CountsKept
<1> QED BY <1>1, <1>2, <1>3, <1>4 DEF Next, Rest, Runner

(* What clients have counted is in the database: a client counts when it   *)
(* is answered, a line is there before its answer, and no line is taken    *)
(* back.  Lost answers and crashes can only make the lines the more.       *)
THEOREM CountedIsAlwaysKept == Spec => []CountedIsKept
<1>1. Init => FindsInv
  <2> SUFFICES ASSUME Init PROVE FindsInv
    OBVIOUS
  <2>1. \A c \in Clients : cl[c].generated = 0
    BY DEF Init, Runners, NewClient
  <2>2. CountedFinds = {}
    BY <2>1 DEF CountedFinds
  <2>3. IsFiniteSet(CountedFinds) /\ Cardinality(CountedFinds) = 0
    BY <2>2, FS_EmptySet
  <2>4. job \in Jobs /\ failures = job.failures /\ failures \in Nat /\ db = <<>> /\ Due(rec) = 0
    BY JobsAssumption DEF Init, InitStore, NoRecord, Due
  <2> QED BY <2>3, <2>4 DEF FindsInv
<1>2. ExploreInv /\ ExploreInv' /\ FindsInv /\ [Next]_vars => FindsInv'
  <2>1. ASSUME FindsInv, UNCHANGED vars PROVE FindsInv'
    BY <2>1 DEF FindsInv, CountedFinds, Due, vars, store
  <2> QED BY <2>1, FindsKeep
<1>3. ExploreInv /\ FindsInv => CountedIsKept
  <2> SUFFICES ASSUME ExploreInv, FindsInv PROVE CountedIsKept
    OBVIOUS
  <2>1. Len(db) \in Nat /\ Cardinality(CountedFinds) \in Nat
    BY FS_CardinalityType DEF ExploreInv, DatabaseOK, FindsInv
  <2> QED BY <2>1 DEF FindsInv, CountedIsKept, Due
<1> QED BY <1>1, <1>2, <1>3, AlwaysKnown, PTL DEF Spec
=============================================================================
