------------------------------- MODULE Sweep --------------------------------
(***************************************************************************)
(* Running the BDD program over command files and reduction modes          *)
(* (src/matrix/mm_crun.py) by clients of one server that hands out the     *)
(* pairs, by one program alone, or over files only (src/matrix/mm_run.py). *)
(* A pair is <<file, mode>>; its log is where the program writes, and ends *)
(* with the command quit when the program did.                             *)
(***************************************************************************)
EXTENDS Integers, FiniteSets, Functions, SequencesExt

CONSTANTS Clients,      \* clients of the server; the program alone is one of them
          Paths,        \* the command files, in order
          Reductions, Processings,   \* what -m and -p name
          ReductionModes, ProcessingModes,   \* those the program knows
          MixedModes, RenewModes,    \* reductions that never renew; processings that do
          NoMode,       \* the one mode of a run over files only
          MaxLost,      \* bound: replies lost, and clients that die
          MaxFailed     \* bound: runs of the program that fail

ASSUME SweepAssumption == MaxLost \in Nat /\ MaxFailed \in Nat
ASSUME ClientsAssumption == Clients # {}

VARIABLES role,      \* "server", "alone", "files"
          redo,      \* per client: "no", "soft" (-r), "hard" (-R)
          rest,      \* Pair: restLeft, restRight
          pc,        \* per client: "ask", "wait", "reply", "check", "start", "run", "end"
          work,      \* per client: the pair it is given, <<>> for none left
          log,       \* per pair: "none", "part", "full"
          lost, failed

vars == <<role, redo, rest, pc, work, log, lost, failed>>

compatibleModes(r, p) ==
    /\ r \in ReductionModes
    /\ p \in ProcessingModes
    /\ ~(r \in MixedModes /\ p \in RenewModes)

AllModes == FlattenSeq([i \in DOMAIN Reductions |->
                [j \in DOMAIN Processings |-> <<Reductions[i], Processings[j]>>]])
ModeList == SelectSeq(AllModes, LAMBDA m : compatibleModes(m[1], m[2]))

\* Of no two files or modes the same one is asked for: a pair that is listed
\* twice is run twice
ASSUME ListsAssumption ==
    /\ Paths \in Seq(ToSet(Paths)) /\ IsInjective(Paths)
    /\ ModeList \in Seq(ToSet(ModeList)) /\ IsInjective(ModeList)

Modes == IF role = "files" THEN <<NoMode>> ELSE ModeList
AllPairs == ToSet(Paths) \X (ToSet(ModeList) \union {NoMode})

Wanted == ToSet(Paths) \X ToSet(Modes)

\* The program that runs without a server
OnlyClient == CHOOSE c \in Clients : TRUE

Init == /\ role \in {"server", "alone", "files"}
        /\ redo \in [Clients -> {"no", "soft", "hard"}]
        /\ \A c, d \in Clients : redo[c] = redo[d]
        /\ role = "files" => \A c \in Clients : redo[c] # "hard"
        /\ rest = [left |-> Paths, right |-> Modes]
        /\ pc = IF role = "server" THEN [c \in Clients |-> "ask"]
                ELSE [c \in Clients |-> IF c = OnlyClient THEN "ask" ELSE "end"]
        /\ work = [c \in Clients |-> <<>>]
        /\ log \in [AllPairs -> {"none", "part", "full"}]
        /\ \A x \in AllPairs \ Wanted : log[x] = "none"
        /\ lost = 0 /\ failed = 0

-----------------------------------------------------------------------------
(* Pair.nextOrEmpty: at the end of the right list, the next of the left.   *)
\* (mutant) the right list starts again for the same file
RefilledForever == [rest EXCEPT !.right = IF @ = <<>> THEN Modes ELSE @]
Refilled ==
    IF rest.left # <<>> /\ rest.right = <<>>
    THEN [left |-> Tail(rest.left), right |-> Modes] ELSE rest
\* No file is left; or there is no mode at all, which is an exception
Exhausted == Refilled.left = <<>> \/ Refilled.right = <<>>
nextOrEmpty(c) ==
    IF Exhausted
    THEN /\ rest' = Refilled
         /\ work' = [work EXCEPT ![c] = <<>>]
    ELSE /\ rest' = [Refilled EXCEPT !.right = Tail(@)]
         /\ work' = [work EXCEPT ![c] = <<Head(Refilled.left), Head(Refilled.right)>>]

Goto(c, label) == pc' = [pc EXCEPT ![c] = label]

(* c.next() on a client: the call leaves for the server.                   *)
Ask(c) == /\ role = "server" /\ pc[c] = "ask"
          /\ Goto(c, "wait")
          /\ UNCHANGED <<role, redo, rest, work, log, lost, failed>>

(* The server answers one call at a time.                                  *)
ServeNext(c) == /\ pc[c] = "wait"
                /\ nextOrEmpty(c)
                /\ Goto(c, "reply")
                /\ UNCHANGED <<role, redo, log, lost, failed>>

(* The call fails, before or after the server served it: the client ends.  *)
LoseCall(c) == /\ pc[c] \in {"wait", "reply"} /\ lost < MaxLost
               /\ lost' = lost + 1
               /\ Goto(c, "end")
               /\ UNCHANGED <<role, redo, rest, work, log, failed>>

Receive(c) == /\ pc[c] = "reply"
              /\ Goto(c, IF work[c] = <<>> THEN "end" ELSE "check")
              /\ UNCHANGED <<role, redo, rest, work, log, lost, failed>>

(* Without a server the pairs, or the files, come from the program itself. *)
TakeNext(c) == /\ role = "alone" /\ pc[c] = "ask"
               /\ nextOrEmpty(c)
               /\ Goto(c, IF Exhausted THEN "end" ELSE "check")
               /\ UNCHANGED <<role, redo, log, lost, failed>>
TakeFile(c) == /\ role = "files" /\ pc[c] = "ask"
               /\ rest' = [rest EXCEPT !.left = IF @ = <<>> THEN @ ELSE Tail(@)]
               /\ work' = [work EXCEPT ![c] = IF rest.left = <<>> THEN <<>>
                                              ELSE <<Head(rest.left), NoMode>>]
               /\ Goto(c, IF rest.left = <<>> THEN "end" ELSE "check")
               /\ UNCHANGED <<role, redo, log, lost, failed>>

\* (mutant) a log that is there is always left alone
RunMissing(c, x) == redo[c] = "hard" \/ log[x] = "none"
shouldRun(c, x) == \/ redo[c] = "hard"
                   \/ log[x] = "none"
                   \/ redo[c] = "soft" /\ log[x] = "part"

(* Over files only: no option sets hardRedo there.                         *)
shouldRunFile(c, x) == \/ log[x] = "none"
                       \/ redo[c] = "soft" /\ log[x] = "part"

(* process: the log is looked at, then the program is started.             *)
Look(c, run) == /\ pc[c] = "check"
                /\ Goto(c, IF run THEN "start" ELSE "ask")
                /\ UNCHANGED <<role, redo, rest, work, log, lost, failed>>
Check(c) == role # "files" /\ Look(c, shouldRun(c, work[c]))
CheckFile(c) == role = "files" /\ Look(c, shouldRunFile(c, work[c]))

(* The program truncates its log.                                          *)
Start(c) == /\ pc[c] = "start"
            /\ log' = [log EXCEPT ![work[c]] = "part"]
            /\ Goto(c, "run")
            /\ UNCHANGED <<role, redo, rest, work, lost, failed>>
StartProgram(c) == role # "files" /\ Start(c)
StartFile(c) == role = "files" /\ Start(c)

(* It ends with quit, or fails, which is only reported.                    *)
ProgramQuits(c) == /\ pc[c] = "run"
                   /\ log' = [log EXCEPT ![work[c]] = "full"]
                   /\ Goto(c, "ask")
                   /\ UNCHANGED <<role, redo, rest, work, lost, failed>>
ProgramFails(c) == /\ pc[c] = "run" /\ failed < MaxFailed
                   /\ failed' = failed + 1
                   /\ Goto(c, "ask")
                   /\ UNCHANGED <<role, redo, rest, work, log, lost>>

(* The program dies with the host of its client.                           *)
ClientDies(c) == /\ pc[c] \in {"check", "start", "run"} /\ lost < MaxLost
                 /\ lost' = lost + 1
                 /\ Goto(c, "end")
                 /\ UNCHANGED <<role, redo, rest, work, log, failed>>

AllEnded == \A c \in Clients : pc[c] = "end"
Stop == AllEnded /\ UNCHANGED vars

Proceed(c) == \/ Ask(c) \/ ServeNext(c) \/ Receive(c)
              \/ TakeNext(c) \/ TakeFile(c)
              \/ Check(c) \/ CheckFile(c)
              \/ StartProgram(c) \/ StartFile(c) \/ ProgramQuits(c)
Next == \/ \E c \in Clients : \/ Proceed(c)
                              \/ LoseCall(c) \/ ProgramFails(c) \/ ClientDies(c)
        \/ Stop
Spec == Init /\ [][Next]_vars /\ \A c \in Clients : WF_vars(Proceed(c))

-----------------------------------------------------------------------------
(* No two programs write the same log at a time: the server gives a pair   *)
(* of a file and a mode to one client only, however the calls of the       *)
(* clients interleave (Pair.nextOrEmpty, mm_crun.py:88).                   *)
OneWriter == \A c, d \in Clients :
                (c # d /\ pc[c] = "run" /\ pc[d] = "run") => work[c] # work[d]

(* When no client was lost and all have ended, every run that was asked    *)
(* for has happened; when unfinished runs are redone, only those that      *)
(* failed now are unfinished (shouldRun, mm_crun.py:140).                  *)
NothingForgotten ==
    AllEnded /\ lost = 0 =>
        /\ \A x \in Wanted : log[x] # "none"
        /\ (\E c \in Clients : redo[c] # "no") =>
              Cardinality({x \in Wanted : log[x] # "full"}) <= failed

(* Every client ends: the pairs run out, and a call that fails ends it     *)
(* (run, mm_crun.py:255).                                                  *)
ClientsEnd == <>AllEnded
=============================================================================
