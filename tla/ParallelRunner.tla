--------------------------- MODULE ParallelRunner ---------------------------
(***************************************************************************)
(* The program that times the system on a cluster                          *)
(* (src/timer/parallel-runner.py).  For each round it gives the hosts      *)
(* their parts, starts a controller, routers, workers and a client that    *)
(* runs csv-tester.py, and kills them.  Every start and every kill but the *)
(* client is a remote command that nobody waits for: the runner sleeps     *)
(* instead.  A command takes effect at some time before delay more sleeps  *)
(* have passed.                                                            *)
(*                                                                         *)
(* External: a router or a worker that finds no controller at its port     *)
(* ends at once, and the client waits until those the controller was told  *)
(* of have joined it.                                                      *)
(***************************************************************************)
EXTENDS Integers, FiniteSets, Functions, SequencesExt

CONSTANTS AllHosts,   \* the hosts file, in its order
          Jobs        \* [localize, rounds, delay]; a round is <<routers, workers>>

(* The hosts file names a host once.                                       *)
ASSUME HostsAssumption == AllHosts \in Seq(ToSet(AllHosts)) /\ IsInjective(AllHosts)
ASSUME JobsAssumption == \A j \in Jobs : j.localize \in BOOLEAN /\ j.rounds \in Seq(Nat \X Nat)

VARIABLES job,
          pinged,    \* how many hosts have been asked
          hostsList, \* those that answered
          round, pc, \* the round, and the runner's place in it
          turn,      \* to act there, or to sleep before the next place
          hosts,     \* [controller, client, workers, routers]
          port,      \* portStr
          cmds,      \* the remote commands under way
          procs,     \* the processes [kind, host, port, round] that run
          measured   \* the rounds whose client could run its tests

vars == <<job, pinged, hostsList, round, pc, turn, hosts, port, cmds, procs, measured>>

localizeRouters == job.localize
routers == job.rounds[round][1]
workers == job.rounds[round][2]
maxHosts == Len(hostsList)

NoHosts == [controller |-> "", client |-> "", workers |-> <<>>, routers |-> <<>>]

Init == /\ job \in Jobs
        /\ pinged = 0 /\ hostsList = <<>>
        /\ round = 1 /\ pc = "query" /\ turn = "act"
        /\ hosts = NoHosts
        /\ port = 6616
        /\ cmds = {} /\ procs = {}
        /\ measured = {}

(* Some hosts answer.                                                      *)
queryLiveHosts ==
    /\ pc = "query"
    /\ IF pinged < Len(AllHosts)
       THEN /\ pinged' = pinged + 1
            /\ hostsList' \in {hostsList, Append(hostsList, AllHosts[pinged'])}
            /\ UNCHANGED pc
       ELSE pc' = "assign" /\ UNCHANGED <<pinged, hostsList>>
    /\ UNCHANGED <<job, round, turn, hosts, port, cmds, procs, measured>>

-----------------------------------------------------------------------------
(* The hosts of a round are popped from a copy of the list.  A localized   *)
(* router is on the host of the worker with its number; if there is none   *)
(* it takes a host of its own.                                             *)
Popped(k) == hostsList[maxHosts + 1 - k]
Needed == 2 + workers + IF ~localizeRouters THEN routers
                        ELSE IF routers > workers THEN routers - workers ELSE 0
WorkerHosts == [x \in 1 .. workers |-> Popped(2 + x)]
\* (mutant) the hosts of routers start one too early
RoutersEarly ==
    [x \in 1 .. routers |->
        IF localizeRouters /\ x <= workers THEN WorkerHosts[x]
        ELSE Popped(1 + workers + IF localizeRouters THEN x - workers ELSE x)]
RouterHosts ==
    [x \in 1 .. routers |->
        IF localizeRouters /\ x <= workers THEN WorkerHosts[x]
        ELSE Popped(2 + workers + IF localizeRouters THEN x - workers ELSE x)]

NotEnough == ~localizeRouters /\ maxHosts < routers + workers + 2
NoRound == round > Len(job.rounds)

\* (mutant) every round uses the same port
SamePort == port
NextPort == port + 1

Still == UNCHANGED <<job, pinged, hostsList, turn, cmds, procs, measured>>
Leave(how) == /\ pc' = how
              /\ UNCHANGED <<round, hosts, port>> /\ Still

Finish == pc = "assign" /\ NoRound /\ Leave("end")
ExitShort == pc = "assign" /\ ~NoRound /\ NotEnough /\ Leave("exit")
(* With localized routers the program says that there are too few and goes *)
(* on, to a pop of an empty list.                                          *)
PopEmpty == pc = "assign" /\ ~NoRound /\ ~NotEnough /\ maxHosts < Needed /\ Leave("dead")
Assign ==
    /\ pc = "assign" /\ ~NoRound /\ ~NotEnough /\ maxHosts >= Needed
    /\ hosts' = [controller |-> Popped(1), client |-> Popped(2),
                 workers |-> WorkerHosts, routers |-> RouterHosts]
    /\ port' = NextPort
    /\ pc' = "controller"
    /\ UNCHANGED round /\ Still

(* pdsh, without waiting; its list of hosts starts with the last of them,  *)
(* and there must be one.                                                  *)
Remote(do, kind, on) ==
    {[do |-> do, kind |-> kind, host |-> h, port |-> port, round |-> round,
      left |-> job.delay] : h \in on}
Order(here, do, kind, on) ==
    /\ pc = here /\ turn = "act"
    /\ on # {}
    /\ cmds' = cmds \union Remote(do, kind, on)
    /\ turn' = "sleep"
    /\ UNCHANGED <<job, pinged, hostsList, round, pc, hosts, port, procs, measured>>

StartController == Order("controller", "start", "controller", {hosts.controller})
StartRouters == Order("routers", "start", "router", ToSet(hosts.routers))
StartWorkers == Order("workers", "start", "worker", ToSet(hosts.workers))
PopNone == /\ turn = "act"
           /\ \/ pc = "routers" /\ hosts.routers = <<>>
              \/ pc = "workers" /\ hosts.workers = <<>>
           /\ Leave("dead")
KillWorkers == Order("kill workers", "kill", "worker", ToSet(hosts.workers))
\* (mutant) routers are killed where the workers are
KillOnWorkers == Order("kill routers", "kill", "router", ToSet(hosts.workers))
KillRouters == Order("kill routers", "kill", "router", ToSet(hosts.routers))
KillController == Order("kill controller", "kill", "controller", {hosts.controller})

StartClient == pc = "client" /\ turn = "act" /\ pc' = "wait" /\ UNCHANGED <<round, hosts, port>> /\ Still

(* The sleeps.  A command that has none left to last has taken effect.     *)
After == [x \in {"controller", "routers", "workers", "client",
                 "kill workers", "kill routers", "kill controller"} |->
            CASE x = "controller" -> "routers"
              [] x = "routers" -> "workers"
              [] x = "workers" -> "client"
              [] x = "client" -> "kill workers"
              [] x = "kill workers" -> "kill routers"
              [] x = "kill routers" -> "kill controller"
              [] x = "kill controller" -> "assign"]
Sleep ==
    /\ turn = "sleep"
    /\ \A c \in cmds : c.left > 0
    /\ cmds' = {[c EXCEPT !.left = @ - 1] : c \in cmds}
    /\ turn' = "act"
    /\ pc' = After[pc]
    /\ round' = IF pc = "kill controller" THEN round + 1 ELSE round
    /\ UNCHANGED <<job, pinged, hostsList, hosts, port, procs, measured>>

-----------------------------------------------------------------------------
(* What happens elsewhere.                                                 *)
Proc(c) == [kind |-> c.kind, host |-> c.host, port |-> c.port, round |-> c.round]
Controllers(p) == {x \in procs : x.kind = "controller" /\ x.port = p}
Joined(kind) == {x \in procs : x.kind = kind /\ x.port = port}

Spared(c) == {x \in procs : x.kind # c.kind \/ x.host # c.host}
Effect(c) == IF c.do = "kill" THEN Spared(c)
             ELSE IF c.kind # "controller" /\ Controllers(c.port) = {} THEN procs
             ELSE procs \union {Proc(c)}
TakeEffect ==
    \E c \in cmds :
        /\ cmds' = cmds \ {c}
        /\ procs' = Effect(c)
        /\ UNCHANGED <<job, pinged, hostsList, round, pc, turn, hosts, port, measured>>

Ended == /\ pc' = "client" /\ turn' = "sleep"
         /\ UNCHANGED <<job, pinged, hostsList, round, hosts, port, cmds, procs>>
ClientMeasures ==
    /\ pc = "wait"
    /\ Controllers(port) # {}
    /\ Cardinality(Joined("router")) = routers
    /\ Cardinality(Joined("worker")) = workers
    /\ measured' = measured \union {round}
    /\ Ended
ClientFails == /\ pc = "wait" /\ Controllers(port) = {}
               /\ UNCHANGED measured
               /\ Ended

Runner == \/ queryLiveHosts \/ Finish \/ ExitShort \/ PopEmpty \/ Assign
          \/ StartController \/ StartRouters \/ StartWorkers \/ PopNone
          \/ StartClient \/ KillWorkers \/ KillRouters \/ KillController
          \/ Sleep
Next == Runner \/ TakeEffect \/ ClientMeasures \/ ClientFails
Spec == /\ Init /\ [][Next]_vars
        /\ WF_vars(Runner) /\ WF_vars(TakeEffect)
        /\ WF_vars(ClientMeasures) /\ WF_vars(ClientFails)

-----------------------------------------------------------------------------
(* Within a round no two parts that must be apart are on one host, and     *)
(* each of a kind has a host of its own (runRounds, parallel-runner.py:93).*)
HostsApart ==
    hosts # NoHosts =>
        /\ IsInjective(hosts.workers) /\ IsInjective(hosts.routers)
        /\ hosts.controller # hosts.client
        /\ {hosts.controller, hosts.client} \intersect
              (ToSet(hosts.workers) \union ToSet(hosts.routers)) = {}
        /\ ~localizeRouters =>
              ToSet(hosts.workers) \intersect ToSet(hosts.routers) = {}

(* A process of one round never joins the controller of another, however   *)
(* late the commands are: every round has a port of its own                *)
(* (runRounds, parallel-runner.py:86).                                     *)
JoinsItsRound ==
    [][\A x \in procs' \ procs : x.kind # "controller" =>
          \E c \in procs : c.kind = "controller" /\ c.round = x.round]_vars

(* When no command lasts longer than the sleep that follows it, nothing of *)
(* an earlier round is left when a round starts, and no kill hits a        *)
(* process of a later round (runRounds, parallel-runner.py:249).           *)
CleanStart ==
    job.delay = 0 =>
        /\ pc = "controller" /\ turn = "act" => procs = {} /\ cmds = {}
        /\ \A c \in cmds : c.port = port
=============================================================================
