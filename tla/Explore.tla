------------------------------- MODULE Explore ------------------------------
(***************************************************************************)
(* The search for new ways to multiply matrices (src/matrix/mm_explore.py):*)
(* a server hands out known schemes, clients fix part of a scheme, solve   *)
(* for the rest with a BDD program and return what they find, and the      *)
(* server records what is new.  A client's call may be lost or its answer  *)
(* may be; the server may crash and be started again.  The same loop also  *)
(* runs standalone, with the server's part in its own process.             *)
(***************************************************************************)
EXTENDS SolutionStore

CONSTANTS Clients, Alone,        \* the processes that may run schemes
          Kernel,                \* of each solution, the kernel terms
          Unrestricted,          \* solutions that obey the restrictions
          Jobs,                  \* [mode, balance, limit], and as bounds how many
                                 \* [crashes, losses, failures] there may be
          errorLimit, tryLimit, historyLimit,
          Found                  \* sequences of solutions that a run may give

VARIABLES job,
          up, startups,  \* the server runs; how often it was started
          candidates,    \* by kernel, what may be handed out next
          generated,     \* generatedCount
          given,         \* the server's solutionDict
          loaded,        \* generatedDatabaseDict, of the server and of each client
          recorded,      \* recordedCount
          history, epochSolutions, epochGenerated,
          cl,            \* the clients
          lost

server == <<up, startups, candidates, generated, given, recorded,
            history, epochSolutions, epochGenerated>>
vars == <<job, server, loaded, cl, lost, store>>

Runners == Clients \union {Alone}
Server == "server"
Bad == "bad"        \* a solution that cannot be processed
NoPath == "None"    \* what recordSolution returns on every path

ASSUME NamesAssumption == Alone \notin Clients /\ Server \notin Runners
ASSUME FoundAssumption == Found \subseteq Seq(Solutions \union {Bad})
ASSUME JobsAssumption == \A j \in Jobs : j.failures \in Nat

NewClient == [pc |-> "start", todo |-> <<>>, scount |-> 0, errors |-> 0, tries |-> 0,
              known |-> {}, generated |-> 0, last |-> 0]

Init == /\ job \in Jobs
        /\ InitStore(job.failures)
        /\ up = FALSE /\ startups = 0
        /\ candidates = <<>> /\ generated = 0
        /\ given = {} /\ recorded = 0
        /\ loaded = [p \in Runners \union {Server} |-> {}]
        /\ history = <<>> /\ epochSolutions = 0 /\ epochGenerated = 0
        /\ cl = [c \in Runners |-> IF (job.mode = "alone") = (c = Alone) THEN NewClient
                                   ELSE [NewClient EXCEPT !.pc = "end"]]
        /\ lost = 0

-----------------------------------------------------------------------------
(* SchemeGenerator.  Without balanceKernels there is one list.             *)
KernelOf(s) == IF job.balance THEN Kernel[s] ELSE "all"
Paths == UNION Range(candidates)
InitCandidates == LET all == Heule \union loadDatabase
                  IN  [k \in {KernelOf(s) : s \in all} |-> {s \in all : KernelOf(s) = k}]

(* addCandidate: path is what recordSolution returned.  For a kernel that  *)
(* is new, the code stores the function hash.                              *)
addCandidate(s, path) ==
    LET k == KernelOf(s)
    IN  candidates' = IF k \in DOMAIN candidates
                      THEN [candidates EXCEPT ![k] = @ \union {path}]
                      ELSE (k :> {"hash"}) @@ candidates

Readable(p) == p \in Solutions /\ files[p] = "full"

(* select: what it may return.  A candidate that is not a path, or no      *)
(* candidate at all, is an exception; one whose file cannot be read, or    *)
(* that does not obey the restrictions, is tried no more often than the    *)
(* limit, and then there is none.                                          *)
select == {p \in Paths : Readable(p) /\ p \in Unrestricted}
            \union (IF Paths = {} \/ ~(Paths \subseteq Solutions) THEN {"raise"} ELSE {})
            \union (IF \E p \in Paths \intersect Solutions :
                            ~Readable(p) \/ p \notin Unrestricted
                    THEN {"nothing"} ELSE {})
\* (mutant) the schemes given out are not counted
SelectUncounted(answer) == answer \in select /\ UNCHANGED generated
Select(answer) ==
    IF generated >= job.limit
    THEN answer = "nothing" /\ UNCHANGED generated
    ELSE answer \in select /\ generated' = generated + 1

-----------------------------------------------------------------------------
Served == job.mode = "served"
Idle == up /\ rec.step = "idle"
At(c, pc) == cl[c].pc = pc
Set(c, r) == cl' = [cl EXCEPT ![c] = r]
Go(c, pc) == Set(c, [cl[c] EXCEPT !.pc = pc])

(* The process starts and reads the database; the standalone one makes its *)
(* candidates.                                                             *)
StartServer ==
    /\ Served /\ ~up /\ startups <= job.crashes
    /\ up' = TRUE /\ startups' = startups + 1
    /\ loaded' = [loaded EXCEPT ![Server] = loadDatabase]
    /\ candidates' = InitCandidates /\ generated' = 0
    /\ given' = {} /\ recorded' = 0
    /\ history' = <<>> /\ epochSolutions' = 0 /\ epochGenerated' = 0
    /\ UNCHANGED <<job, cl, lost, store>>
StartRunner(c) ==
    /\ At(c, "start")
    /\ loaded' = [loaded EXCEPT ![c] = loadDatabase]
    /\ Go(c, "next")
    /\ IF c = Alone THEN candidates' = InitCandidates ELSE UNCHANGED candidates
    /\ UNCHANGED <<job, up, startups, generated, given, recorded,
                   history, epochSolutions, epochGenerated, lost, store>>

(* What a call that raises an exception means for its client.              *)
NextRaises(r) == LET t == r.tries + 1
                 IN  [r EXCEPT !.tries = IF t = tryLimit THEN 0 ELSE t,
                               !.pc = IF t = tryLimit THEN "end" ELSE "next"]
\* (mutant) a solution counts as soon as it is sent
CountSent(r) == [r EXCEPT !.pc = "process", !.todo = Tail(@), !.generated = @ + 1]
RecordRaises(r) == [r EXCEPT !.pc = "process", !.todo = Tail(@)]
NotifyRaises(r) == [r EXCEPT !.pc = "dead"]
Raises(r) == CASE r.pc = "next"   -> NextRaises(r)
               [] r.pc = "record" -> RecordRaises(r)
               [] r.pc = "notify" -> NotifyRaises(r)

(* A call that does not reach the server, because it is down or the call   *)
(* is lost; a call whose answer is lost has been served.                   *)
CallLost(c) ==
    /\ Served /\ cl[c].pc \in {"next", "record", "notify"} /\ rec.who # c
    /\ IF up THEN lost < job.losses /\ lost' = lost + 1 ELSE UNCHANGED lost
    /\ Set(c, Raises(cl[c]))
    /\ UNCHANGED <<job, server, loaded, store>>
Answer(c, r) == \/ Set(c, r) /\ UNCHANGED lost
                \/ lost < job.losses /\ lost' = lost + 1 /\ Set(c, Raises(cl[c]))

(* Server.next with Client.next, or the generator's select.                *)
Received(r, answer) ==
    CASE answer = "raise"   -> NextRaises(r)
      [] answer = "nothing" -> [r EXCEPT !.pc = "end"]
      [] OTHER -> [r EXCEPT !.pc = "run", !.tries = 0]
Next_(c) ==
    /\ At(c, "next") /\ c # Alone /\ Idle
    /\ \E answer \in Solutions \union {"raise", "nothing"} :
           Select(answer) /\ Answer(c, Received(cl[c], answer))
    /\ UNCHANGED <<job, up, startups, candidates, given, recorded,
                   history, epochSolutions, epochGenerated, loaded, store>>
SelectAlone ==
    /\ At(Alone, "next")
    /\ \E answer \in Solutions \union {"raise", "nothing"} :
           /\ Select(answer)
           /\ Go(Alone, CASE answer = "raise" -> "dead" [] answer = "nothing" -> "end"
                          [] OTHER -> "run")
    /\ UNCHANGED <<job, up, startups, candidates, given, recorded,
                   history, epochSolutions, epochGenerated, loaded, lost, store>>

(* The loop of runClient and of runStandalone goes on, with what the run   *)
(* returned; only the client tells the server first.                       *)
Repeat(r) == IF r.errors < errorLimit THEN [r EXCEPT !.pc = "next", !.scount = 0]
             ELSE [r EXCEPT !.pc = "end", !.scount = 0]
Ran(c, r) == IF c = Alone THEN Repeat(r) ELSE [r EXCEPT !.pc = "notify"]

(* runScheme: the command file cannot be written, which counts as 0; the   *)
(* program fails, which counts as -1; or it gives solutions.               *)
RunScheme(c) ==
    /\ At(c, "run")
    /\ \/ failures > 0 /\ failures' = failures - 1 /\ Set(c, Ran(c, [cl[c] EXCEPT !.scount = 0]))
       \/ /\ failures > 0 /\ failures' = failures - 1
          /\ Set(c, Ran(c, [cl[c] EXCEPT !.scount = -1, !.errors = @ + 1]))
       \/ /\ \E f \in Found :
                Set(c, [cl[c] EXCEPT !.pc = "process", !.todo = f, !.scount = Len(f)])
          /\ UNCHANGED failures
    /\ UNCHANGED <<job, server, loaded, lost, db, files, rec>>

(* generateSolutions and processSolution, for the next solution.           *)
processSolution(c) ==
    /\ At(c, "process") /\ cl[c].todo # <<>>
    /\ LET s == Head(cl[c].todo)
           skipped == [cl[c] EXCEPT !.todo = Tail(@)]
       IN  IF s = Bad \/ s \in cl[c].known THEN Set(c, skipped) /\ UNCHANGED rec
           ELSE IF s \in Heule \union loaded[c]
                THEN Set(c, [skipped EXCEPT !.known = @ \union {s}]) /\ UNCHANGED rec
                ELSE /\ Set(c, [cl[c] EXCEPT !.known = @ \union {s}, !.pc = "record"])
                     /\ IF c = Alone THEN recordSolution(c, s) ELSE UNCHANGED rec
    /\ UNCHANGED <<job, server, loaded, lost, db, files, failures>>
Processed(c) ==
    /\ At(c, "process") /\ cl[c].todo = <<>>
    /\ Set(c, Ran(c, cl[c]))
    /\ UNCHANGED <<job, server, loaded, lost, store>>

(* Server.record: what it knows already it refuses.                        *)
\* (mutant) only what the database had when the server started
KnownAtStart == Heule \union loaded[Server]
Known == given \union Heule \union loaded[Server]
New(r) == [RecordRaises(r) EXCEPT !.generated = @ + 1]
RefuseRecord(c) ==
    /\ At(c, "record") /\ c # Alone /\ Idle
    /\ Head(cl[c].todo) \in Known
    /\ Answer(c, RecordRaises(cl[c]))
    /\ UNCHANGED <<job, server, loaded, store>>
BeginRecord(c) ==
    /\ At(c, "record") /\ c # Alone /\ Idle
    /\ LET s == Head(cl[c].todo)
       IN  /\ s \notin Known
           /\ given' = given \union {s}
           /\ recordSolution(c, s)
    /\ UNCHANGED <<job, up, startups, candidates, generated, recorded, history,
                   epochSolutions, epochGenerated, loaded, cl, lost, db, files, failures>>
EndRecord(c) ==
    /\ rec.step = "return" /\ rec.who = c /\ c # Alone
    /\ recorded' = recorded + 1
    /\ addCandidate(rec.scheme, NoPath)
    /\ Answer(c, New(cl[c]))
    /\ rec' = NoRecord
    /\ UNCHANGED <<job, up, startups, generated, given, history,
                   epochSolutions, epochGenerated, loaded, db, files, failures>>
RecordFault ==
    /\ rec.step = "raise"
    /\ Set(rec.who, IF rec.who = Alone THEN [cl[Alone] EXCEPT !.pc = "dead"]
                    ELSE RecordRaises(cl[rec.who]))
    /\ rec' = NoRecord
    /\ UNCHANGED <<job, server, loaded, lost, db, files, failures>>
RecordedAlone ==
    /\ rec.step = "return" /\ rec.who = Alone
    /\ Set(Alone, RecordRaises(cl[Alone]))
    /\ rec' = NoRecord
    /\ UNCHANGED <<job, server, loaded, lost, db, files, failures>>
Record == Recording /\ UNCHANGED <<job, server, loaded, cl, lost>>

(* Client.notify forgets what it has told before it knows that it was      *)
(* told.  Server.notify keeps sums over the last entries of its history.   *)
MaxOf(a, b) == IF a >= b THEN a ELSE b
Told(c) == [cl[c] EXCEPT !.last = cl[c].generated]
notify(c) ==
    /\ At(c, "notify") /\ Idle
    /\ LET entry == <<cl[c].scount, cl[c].generated - cl[c].last>>
           h == Append(history, entry)
           over == Len(h) > historyLimit
       IN  /\ history' = IF over THEN Tail(h) ELSE h
           /\ epochSolutions' = epochSolutions + MaxOf(0, entry[1] - 1)
                                  - IF over THEN Head(h)[1] ELSE 0
           /\ epochGenerated' = epochGenerated + entry[2] - IF over THEN Head(h)[2] ELSE 0
    /\ \/ Set(c, Repeat(Told(c))) /\ UNCHANGED lost
       \/ lost < job.losses /\ lost' = lost + 1 /\ Set(c, NotifyRaises(Told(c)))
    /\ UNCHANGED <<job, up, startups, candidates, generated, given, recorded, loaded, store>>

(* A crash; what is on disk stays, and the client whose call was being     *)
(* served sees an exception.                                               *)
CrashServer ==
    /\ up /\ startups <= job.crashes
    /\ up' = FALSE
    /\ rec' = NoRecord
    /\ IF rec.step # "idle" THEN Set(rec.who, RecordRaises(cl[rec.who])) ELSE UNCHANGED cl
    /\ UNCHANGED <<job, startups, candidates, generated, given, recorded, history,
                   epochSolutions, epochGenerated, loaded, lost, db, files, failures>>

Runner(c) == \/ StartRunner(c) \/ RunScheme(c) \/ processSolution(c) \/ Processed(c)
             \/ CallLost(c) \/ Next_(c) \/ RefuseRecord(c) \/ BeginRecord(c)
             \/ EndRecord(c) \/ notify(c)
AloneStep == SelectAlone \/ RecordedAlone
Rest == StartServer \/ Record \/ RecordFault \/ AloneStep
Next == (\E c \in Runners : Runner(c)) \/ Rest \/ CrashServer

Spec == /\ Init /\ [][Next]_vars
        /\ \A c \in Runners : WF_vars(Runner(c))
        /\ WF_vars(Rest)

-----------------------------------------------------------------------------
(* Each new solution has one line in the database, whatever calls are      *)
(* repeated and however often the server is restarted (Server.record,      *)
(* mm_explore.py:279).                                                     *)
OneLineEach == /\ \A i, j \in DOMAIN db : db[i] = db[j] => i = j
               /\ ToSet(db) \intersect Heule = {}

(* A line in the database has its file, complete, at every moment: the     *)
(* file is closed before its line is added (recordSolution,                *)
(* mm_parse.py:308).                                                       *)
LineHasFile == \A s \in ToSet(db) : files[s] = "full"

(* What the clients count as their own finds is on disk, unless a file     *)
(* could not be opened (Client.record, mm_explore.py:390).                 *)
CountedFinds == UNION {{c} \X (1 .. cl[c].generated) : c \in Clients}
CountedIsKept == failures = job.failures => Cardinality(CountedFinds) <= Len(db)

(* Every client ends or dies: schemes run out at the limit, and an         *)
(* exception of a call ends its client (runClient, mm_explore.py:522).     *)
EveryClientEnds == <>[](\A c \in Runners : cl[c].pc \in {"end", "dead"})
=============================================================================
