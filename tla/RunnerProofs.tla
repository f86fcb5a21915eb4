---------------------------- MODULE RunnerProofs ----------------------------
(***************************************************************************)
(* Theorems about the rounds of parallel-runner.py, for any hosts and any  *)
(* rounds.  The last part needs that the hosts file names a host once; the  *)
(* others assume nothing of the constants.  The first invariant ties       *)
(* every command and process to the port of its round, and holds however   *)
(* late the commands are; the second follows a round in which each takes   *)
(* effect before the sleep after it has ended.                             *)
(***************************************************************************)
EXTENDS ParallelRunner, TLAPS

InRound == {"controller", "routers", "workers", "client", "wait",
            "kill workers", "kill routers", "kill controller"}
Places == InRound \union {"query", "assign", "end", "exit", "dead"}

(* The port of a round.                                                    *)
PortOf(r) == 6616 + r
(* Rounds one apart have ports one apart.                                  *)
LEMMA PortsDiffer == /\ \A r, q \in Int : PortOf(r) = PortOf(q) => r = q
                     /\ \A r \in Int : /\ PortOf(r) \in Int
                                       /\ PortOf(r - 1) + 1 = PortOf(r)
                                       /\ r - 1 \in Int /\ r + 1 \in Int
                                       /\ PortOf((r + 1) - 1) = PortOf(r)
  BY DEF PortOf
(* portNum starts before the first round.                                  *)
LEMMA FirstPort == PortOf(1 - 1) = 6616
  BY DEF PortOf

(* A command has its six fields.                                          *)
IsCommand(c) == c = [do |-> c.do, kind |-> c.kind, host |-> c.host, port |-> c.port,
                     round |-> c.round, left |-> c.left]

RunnerPort ==
    /\ round \in Int /\ port \in Int
    /\ pc \in Places
    /\ turn \in {"act", "sleep"}
    /\ turn = "sleep" => pc \in InRound \ {"wait"}
    /\ pc \in InRound => port = PortOf(round)
    /\ pc \in {"query", "assign"} => port = PortOf(round - 1)
CommandPorts == \A c \in cmds : /\ IsCommand(c)
                                /\ c.round \in Int /\ c.port = PortOf(c.round)
ProcPorts == \A x \in procs : x.round \in Int /\ x.port = PortOf(x.round)
Ports == RunnerPort /\ CommandPorts /\ ProcPorts

-----------------------------------------------------------------------------
(* The ports hold at the start.                                            *)
LEMMA PortsInit == Init => Ports
  BY FirstPort DEF Init, Ports, RunnerPort, CommandPorts, ProcPorts, Places, InRound

(* A remote command is given the port of the round it is given in.         *)
LEMMA OrderPorts ==
    ASSUME NEW here \in InRound, here # "wait", NEW do, NEW kind, NEW on,
           Ports, Order(here, do, kind, on)
    PROVE  Ports'
<1>1. RunnerPort'
  BY DEF Order, Ports, RunnerPort, Places, InRound
<1>2. port = PortOf(round)
  BY DEF Order, Ports, RunnerPort
<1>3. CommandPorts'
  BY <1>2 DEF Order, Remote, Ports, RunnerPort, CommandPorts, IsCommand
<1>4. ProcPorts'
  BY DEF Order, Ports, ProcPorts
<1> QED
  BY <1>1, <1>3, <1>4 DEF Ports

(* Every step of the runner, and what happens elsewhere, keeps the ports.  *)
LEMMA PortsStep == Ports /\ [Next]_vars => Ports'
<1> SUFFICES ASSUME Ports, [Next]_vars PROVE Ports'
  OBVIOUS
<1> USE DEF Ports
<1>1. CASE queryLiveHosts \/ Finish \/ ExitShort \/ PopEmpty \/ PopNone \/ StartClient
  BY <1>1 DEF queryLiveHosts, Finish, ExitShort, PopEmpty, PopNone, StartClient, Leave, Still,
              RunnerPort, CommandPorts, ProcPorts, Places, InRound
<1>2. CASE Assign
  <2>1. RunnerPort'
    BY <1>2, PortsDiffer DEF Assign, NextPort, Still, RunnerPort, Places, InRound
  <2> QED
    BY <1>2, <2>1 DEF Assign, Still, CommandPorts, ProcPorts
<1>3. CASE StartController \/ StartRouters \/ StartWorkers
  BY <1>3, OrderPorts DEF StartController, StartRouters, StartWorkers, InRound
<1>4. CASE KillWorkers \/ KillRouters \/ KillController
  BY <1>4, OrderPorts DEF KillWorkers, KillRouters, KillController, InRound
<1>5. CASE Sleep
  <2>1. RunnerPort'
    BY <1>5, PortsDiffer DEF Sleep, After, RunnerPort, Places, InRound
  <2>2. CommandPorts'
    <3> SUFFICES ASSUME NEW d \in cmds'
                 PROVE  IsCommand(d) /\ d.round \in Int /\ d.port = PortOf(d.round)
      BY DEF CommandPorts
    <3>1. PICK c \in cmds : d = [c EXCEPT !.left = @ - 1]
      BY <1>5 DEF Sleep
    <3>2. c = [do |-> c.do, kind |-> c.kind, host |-> c.host, port |-> c.port,
               round |-> c.round, left |-> c.left] /\ c.round \in Int /\ c.port = PortOf(c.round)
      BY DEF CommandPorts, IsCommand
    <3>3. d = [do |-> c.do, kind |-> c.kind, host |-> c.host, port |-> c.port,
               round |-> c.round, left |-> c.left - 1]
      BY <3>1, <3>2
    <3> QED
      BY <3>2, <3>3 DEF IsCommand
  <2> QED
    BY <1>5, <2>1, <2>2 DEF Sleep, ProcPorts
<1>6. CASE TakeEffect
  <2>1. RunnerPort' /\ CommandPorts'
    BY <1>6 DEF TakeEffect, RunnerPort, CommandPorts
  <2>2. ProcPorts'
    BY <1>6 DEF TakeEffect, Effect, Spared, CommandPorts, ProcPorts, Proc
  <2> QED
    BY <2>1, <2>2
<1>7. CASE ClientMeasures \/ ClientFails
  BY <1>7 DEF ClientMeasures, ClientFails, Ended, RunnerPort, CommandPorts, ProcPorts,
              Places, InRound
<1>8. CASE UNCHANGED vars
  BY <1>8 DEF vars, RunnerPort, CommandPorts, ProcPorts
<1> QED
  BY <1>1, <1>2, <1>3, <1>4, <1>5, <1>6, <1>7, <1>8 DEF Next, Runner

(* A process that starts finds a controller at the port of its own round.  *)
LEMMA StartsWithItsController ==
    ASSUME Ports, [Next]_vars, NEW x \in procs' \ procs, x.kind # "controller"
    PROVE  \E c \in procs : c.kind = "controller" /\ c.round = x.round
<1>1. TakeEffect
  BY DEF Next, Runner, vars, queryLiveHosts, Finish, ExitShort, PopEmpty, Assign, StartController, StartRouters,
         StartWorkers, PopNone, StartClient, KillWorkers, KillRouters, KillController, Sleep,
         ClientMeasures, ClientFails, Ended, Leave, Still, Order
<1>2. PICK c \in cmds : x = Proc(c) /\ Controllers(c.port) # {}
  BY <1>1 DEF TakeEffect, Effect, Spared, Proc
<1>3. PICK k \in procs : k.kind = "controller" /\ k.port = c.port
  BY <1>2 DEF Controllers
<1>4. k.round = c.round
  BY <1>3, PortsDiffer DEF Ports, CommandPorts, ProcPorts
<1> QED
  BY <1>2, <1>3, <1>4 DEF Proc

(* A router or worker never joins the controller of another round, however *)
(* late the remote commands are (parallel-runner.py:86).                   *)
THEOREM NeverJoinsAnother == Spec => JoinsItsRound
<1>1. Ports /\ [Next]_vars => [\A x \in procs' \ procs : x.kind # "controller" =>
          \E c \in procs : c.kind = "controller" /\ c.round = x.round]_vars
  BY StartsWithItsController
<1> QED
  BY <1>1, PortsInit, PortsStep, PTL DEF Spec, JoinsItsRound

-----------------------------------------------------------------------------
(* Rounds without delay.  A command is on its way only while the runner    *)
(* sleeps; a process runs on a host that was given its kind; a kind that   *)
(* has been killed is gone, and while it is being killed each of its       *)
(* processes has a command that will kill it.                              *)
HostsOf(kind) == IF kind = "controller" THEN {hosts.controller}
                 ELSE IF kind = "router" THEN ToSet(hosts.routers)
                 ELSE ToSet(hosts.workers)
Killing == {"kill workers", "kill routers", "kill controller"}
Victim == IF pc = "kill workers" THEN "worker"
          ELSE IF pc = "kill routers" THEN "router" ELSE "controller"
Kinds == {"controller", "router", "worker"}

Prompt == \A c \in cmds : /\ IsCommand(c)
                          /\ c.left = 0 /\ c.port = port
                          /\ turn = "sleep"
                          /\ c.kind \in Kinds
                          /\ pc \in Killing => c.do = "kill"
                          /\ c.do # "kill" => c.host \in HostsOf(c.kind)
Placed == \A x \in procs : x.kind \in Kinds /\ x.host \in HostsOf(x.kind)
Doomed == pc \in Killing /\ turn = "sleep" =>
            \A x \in procs : x.kind = Victim =>
               \E c \in cmds : c.do = "kill" /\ c.kind = x.kind /\ c.host = x.host
Gone == /\ pc \in {"kill routers", "kill controller"} => \A x \in procs : x.kind # "worker"
        /\ pc = "kill controller" => \A x \in procs : x.kind # "router"
        /\ pc \in {"query", "assign"} => procs = {}
        /\ pc = "controller" /\ turn = "act" => procs = {}
Tidy == Prompt /\ Placed /\ Doomed /\ Gone
Tidiness == RunnerPort /\ (job.delay = 0 => Tidy)

(* Nothing runs at the start.                                              *)
LEMMA TidyInit == Init => Tidiness
  BY PortsInit DEF Init, Ports, Tidiness, Tidy, Prompt, Placed, Doomed, Gone, Killing

(* While the runner acts, nothing is on its way.                           *)
LEMMA NothingUnderWay == ASSUME Tidy, turn # "sleep" PROVE cmds = {}
  BY DEF Tidy, Prompt

(* The commands that an order adds.                                        *)
LEMMA Ordered ==
    ASSUME NEW do, NEW kind, NEW on, NEW c \in Remote(do, kind, on)
    PROVE  /\ IsCommand(c)
           /\ c.do = do /\ c.kind = kind /\ c.host \in on
           /\ c.port = port /\ c.left = job.delay
  BY DEF Remote, IsCommand
(* Each host of an order has its command.                                  *)
LEMMA EachOrdered ==
    ASSUME NEW do, NEW kind, NEW on, NEW h \in on
    PROVE  \E c \in Remote(do, kind, on) : c.do = do /\ c.kind = kind /\ c.host = h
<1> DEFINE c == [do |-> do, kind |-> kind, host |-> h, port |-> port, round |-> round,
                 left |-> job.delay]
<1>1. c \in Remote(do, kind, on)
  BY DEF Remote
<1>2. c.do = do /\ c.kind = kind /\ c.host = h
  OBVIOUS
<1> QED
  BY <1>1, <1>2

(* An order to start a kind, where that kind is started.                   *)
LEMMA StartTidy ==
    ASSUME NEW here \in {"controller", "routers", "workers"}, NEW kind \in Kinds,
           Tidy, job.delay = 0, Order(here, "start", kind, HostsOf(kind))
    PROVE  Tidy'
<1>1. cmds = {} /\ cmds' = Remote("start", kind, HostsOf(kind)) /\ turn' = "sleep"
  BY NothingUnderWay DEF Order
<1>2. pc' = pc /\ pc = here /\ port' = port /\ hosts' = hosts /\ procs' = procs
  BY DEF Order
<1>3. Prompt'
  <2> SUFFICES ASSUME NEW c \in Remote("start", kind, HostsOf(kind))
               PROVE  /\ IsCommand(c) /\ c.left = 0 /\ c.port = port /\ c.kind \in Kinds
                      /\ pc \notin Killing /\ c.host \in HostsOf(c.kind)
    <3>1. \A k : HostsOf(k)' = HostsOf(k)
      BY <1>2 DEF HostsOf
    <3> QED
      BY <1>1, <1>2, <3>1 DEF Prompt
  <2>1. pc \notin Killing
    BY <1>2 DEF Killing
  <2>2. /\ IsCommand(c) /\ c.kind = kind /\ c.host \in HostsOf(kind)
        /\ c.port = port /\ c.left = job.delay
    BY Ordered
  <2> QED
    BY <2>1, <2>2
<1>4. Placed'
  BY <1>2 DEF Tidy, Placed, HostsOf
<1>5. Doomed' /\ Gone'
  BY <1>1, <1>2 DEF Tidy, Doomed, Gone, Killing
<1> QED
  BY <1>3, <1>4, <1>5 DEF Tidy

(* An order to kill a kind.                                                *)
LEMMA KillTidy ==
    ASSUME pc \in Killing, Tidy, job.delay = 0, Order(pc, "kill", Victim, HostsOf(Victim))
    PROVE  Tidy'
<1>1. cmds = {} /\ cmds' = Remote("kill", Victim, HostsOf(Victim)) /\ turn' = "sleep"
  BY NothingUnderWay DEF Order
<1>2. pc' = pc /\ port' = port /\ hosts' = hosts /\ procs' = procs
  BY DEF Order
<1>3. Prompt'
  <2> SUFFICES ASSUME NEW c \in Remote("kill", Victim, HostsOf(Victim))
               PROVE  /\ IsCommand(c) /\ c.left = 0 /\ c.port = port /\ c.kind \in Kinds
                      /\ c.do = "kill"
    BY <1>1, <1>2 DEF Prompt, Killing
  <2>1. Victim \in Kinds
    BY DEF Victim, Kinds
  <2> QED
    BY <2>1, Ordered
<1>4. Placed'
  BY <1>2 DEF Tidy, Placed, HostsOf
<1>5. Doomed'
  <2> SUFFICES ASSUME NEW x \in procs, x.kind = Victim
               PROVE  \E c \in cmds' : c.do = "kill" /\ c.kind = x.kind /\ c.host = x.host
    BY <1>2 DEF Doomed, Victim
  <2>1. x.host \in HostsOf(Victim)
    BY DEF Tidy, Placed
  <2> QED
    BY <1>1, <2>1, EachOrdered
<1>6. Gone'
  BY <1>1, <1>2 DEF Tidy, Gone, Killing
<1> QED
  BY <1>3, <1>4, <1>5, <1>6 DEF Tidy

(* The end of a sleep: what was to be killed is gone.                      *)
LEMMA SleepTidy == ASSUME RunnerPort, Tidy, Sleep PROVE Tidy'
<1>1. cmds = {} /\ cmds' = {} /\ turn' = "act" /\ procs' = procs /\ hosts' = hosts
  <2>1. \A c \in cmds : c.left = 0 /\ c.left > 0
    BY DEF Sleep, Tidy, Prompt
  <2>2. cmds = {}
    BY <2>1
  <2> QED
    BY <2>2 DEF Sleep
<1>2. pc \in Killing => \A x \in procs : x.kind # Victim
  BY <1>1 DEF Sleep, Tidy, Doomed
<1>3. pc' = After[pc] /\ pc \in InRound \ {"wait"}
  BY DEF Sleep, RunnerPort
<1>4. Prompt' /\ Placed' /\ Doomed'
  BY <1>1 DEF Tidy, Prompt, Placed, Doomed, HostsOf
<1>5. Gone'
  <2>1. CASE pc = "kill controller"
    BY <1>1, <1>2, <1>3, <2>1 DEF Tidy, Gone, Placed, Kinds, Killing, Victim, After
  <2>2. CASE pc = "kill routers"
    BY <1>1, <1>2, <1>3, <2>2 DEF Tidy, Gone, Killing, Victim, After
  <2>3. CASE pc = "kill workers"
    BY <1>1, <1>2, <1>3, <2>3 DEF Tidy, Gone, Killing, Victim, After
  <2>4. CASE pc \in {"controller", "routers", "workers", "client"}
    BY <1>1, <1>3, <2>4 DEF Gone, After
  <2> QED
    BY <1>3, <2>1, <2>2, <2>3, <2>4 DEF InRound
<1> QED
  BY <1>4, <1>5 DEF Tidy

(* A command that takes effect.                                            *)
LEMMA EffectTidy == ASSUME RunnerPort, Tidy, TakeEffect PROVE Tidy'
<1>1. PICK c \in cmds : cmds' = cmds \ {c} /\ procs' = Effect(c)
  BY DEF TakeEffect
<1>2. pc' = pc /\ port' = port /\ hosts' = hosts /\ turn' = turn /\ turn = "sleep"
  BY DEF TakeEffect, Tidy, Prompt
<1>3. Prompt'
  BY <1>1, <1>2 DEF Tidy, Prompt, HostsOf
<1>4. \A x \in procs' \ procs : x = Proc(c) /\ c.do # "kill"
  BY <1>1 DEF Effect, Spared
<1>5. Placed'
  BY <1>2, <1>4 DEF Tidy, Placed, Prompt, HostsOf, Proc
<1>6. pc \in Killing => procs' = Spared(c)
  <2>1. pc \in Killing => c.do = "kill"
    BY DEF Tidy, Prompt
  <2> QED
    BY <1>1, <2>1 DEF Effect
<1>7. Doomed'
  BY <1>1, <1>2, <1>6 DEF Tidy, Doomed, Victim, Spared
<1>8. Gone'
  <2>1. CASE pc \in Killing
    BY <1>2, <1>6, <2>1 DEF Tidy, Gone, Killing, Spared
  <2>2. CASE pc \notin Killing
    <3>1. pc \notin {"query", "assign"}
      BY <1>2 DEF RunnerPort, InRound
    <3> QED
      BY <1>2, <2>2, <3>1 DEF Gone, Killing
  <2> QED
    BY <2>1, <2>2
<1> QED
  BY <1>3, <1>5, <1>7, <1>8 DEF Tidy

(* Every other step of a round without delay.                              *)
LEMMA TidyStep == ASSUME Tidy, RunnerPort, job.delay = 0, [Next]_vars PROVE Tidy'
<1>1. CASE queryLiveHosts \/ Finish \/ ExitShort \/ PopEmpty \/ PopNone \/ StartClient
  BY <1>1 DEF queryLiveHosts, Finish, ExitShort, PopEmpty, PopNone, StartClient, Leave, Still,
              Tidy, Prompt, Placed, Doomed, Gone, HostsOf, Killing
<1>2. CASE Assign
  <2>1. cmds' = {} /\ procs' = {} /\ pc' = "controller"
    BY <1>2, NothingUnderWay DEF Assign, Still, Tidy, Gone, RunnerPort, InRound
  <2> QED
    BY <2>1 DEF Tidy, Prompt, Placed, Doomed, Gone, Killing
<1>3. CASE StartController \/ StartRouters \/ StartWorkers
  BY <1>3, StartTidy DEF StartController, StartRouters, StartWorkers, HostsOf, Kinds
<1>4. CASE KillWorkers \/ KillRouters \/ KillController
  <2>1. pc \in Killing /\ Order(pc, "kill", Victim, HostsOf(Victim))
    BY <1>4 DEF KillWorkers, KillRouters, KillController, Killing, Victim, HostsOf, Order
  <2> QED
    BY <2>1, KillTidy
<1>5. CASE Sleep
  BY <1>5, SleepTidy
<1>6. CASE TakeEffect
  BY <1>6, EffectTidy
<1>7. CASE ClientMeasures \/ ClientFails
  <2>1. turn # "sleep"
    BY <1>7 DEF ClientMeasures, ClientFails, RunnerPort
  <2>2. cmds = {}
    BY <2>1, NothingUnderWay
  <2> QED
    BY <1>7, <2>2 DEF ClientMeasures, ClientFails, Ended, Tidy, Prompt, Placed, Doomed, Gone,
                      HostsOf, Killing
<1>8. CASE UNCHANGED vars
  BY <1>8 DEF vars, Tidy, Prompt, Placed, Doomed, Gone, HostsOf, Victim
<1> QED
  BY <1>1, <1>2, <1>3, <1>4, <1>5, <1>6, <1>7, <1>8 DEF Next, Runner

(* The job is given once.                                                  *)
LEMMA DelayKept == ASSUME [Next]_vars PROVE job' = job
  BY DEF Next, Runner, vars, queryLiveHosts, Finish, ExitShort, PopEmpty, Assign, StartController, StartRouters,
         StartWorkers, PopNone, StartClient, KillWorkers, KillRouters, KillController, Sleep,
         TakeEffect, ClientMeasures, ClientFails, Ended, Leave, Still, Order

(* So the rounds without delay are tidy throughout.                        *)
LEMMA TidyAlways == Spec => []Tidiness
<1>1. Ports /\ Tidiness /\ [Next]_vars => Tidiness'
  BY PortsStep, TidyStep, DelayKept DEF Tidiness, Ports
<1> QED
  BY <1>1, PortsInit, PortsStep, TidyInit, PTL DEF Spec

(* When every command takes effect before the sleep after it has ended, a  *)
(* round starts with nothing left of the one before, and no kill is on its *)
(* way to a later round (parallel-runner.py:249).                          *)
THEOREM StartsClean == Spec => []CleanStart
<1>1. Tidiness => CleanStart
  BY NothingUnderWay DEF Tidiness, Tidy, Prompt, Gone, CleanStart
<1> QED
  BY <1>1, TidyAlways, PTL

-----------------------------------------------------------------------------
(* The hosts that answered are different, and were asked.                  *)
Asked == {AllHosts[k] : k \in 1 .. pinged}
Answered == /\ pinged \in 0 .. Len(AllHosts)
            /\ hostsList \in Seq(Asked) /\ IsInjective(hostsList)
RoundsOK == job \in Jobs /\ round \in Nat \ {0}
Apart == Answered /\ RoundsOK /\ HostsApart

LEMMA ApartInit == Init => Apart
<1> SUFFICES ASSUME Init PROVE Apart
  OBVIOUS
<1>1. Len(AllHosts) \in Nat
  BY HostsAssumption
<1> QED BY <1>1 DEF Init, Apart, Answered, RoundsOK, HostsApart, IsInjective

(* A host that answers has not been asked before.                          *)
LEMMA OneMore == ASSUME Apart, queryLiveHosts PROVE Answered'
<1> USE DEF Apart, Answered
<1>1. /\ Len(AllHosts) \in Nat /\ pinged \in Nat /\ DOMAIN AllHosts = 1 .. Len(AllHosts)
      /\ hostsList \in Seq(Asked) /\ Len(hostsList) \in Nat
  BY HostsAssumption
<1>2. CASE pinged < Len(AllHosts)
  <2> DEFINE h == AllHosts[pinged + 1]
  <2>1. pinged' = pinged + 1 /\ hostsList' \in {hostsList, Append(hostsList, h)}
    BY <1>2 DEF queryLiveHosts
  <2>2. pinged' \in 0 .. Len(AllHosts) /\ Len(AllHosts)' = Len(AllHosts)
    BY <1>1, <1>2, <2>1
  <2>3. h \notin Asked
    <3> SUFFICES ASSUME NEW k \in 1 .. pinged, AllHosts[k] = h PROVE FALSE
      BY DEF Asked
    <3>1. k \in DOMAIN AllHosts /\ pinged + 1 \in DOMAIN AllHosts /\ k # pinged + 1
      BY <1>1, <1>2
    <3> QED BY <3>1, HostsAssumption DEF IsInjective
  <2>4. Asked' = Asked \union {h}
    BY <1>1, <2>1 DEF Asked
  <2>5. CASE hostsList' = hostsList
    <3>1. hostsList \in Seq(Asked \union {h})
      OBVIOUS
    <3> QED BY <2>2, <2>4, <2>5, <3>1
  <2>6. CASE hostsList' = Append(hostsList, h)
    <3> DEFINE n == Len(hostsList)
    <3>1. /\ hostsList' \in Seq(Asked \union {h}) /\ DOMAIN hostsList' = 1 .. (n + 1)
          /\ \A i \in 1 .. n : hostsList'[i] = hostsList[i] /\ hostsList'[i] \in Asked
          /\ hostsList'[n + 1] = h
      BY <1>1, <2>6
    <3>2. ASSUME NEW i \in 1 .. (n + 1), NEW j \in 1 .. (n + 1), hostsList'[i] = hostsList'[j]
          PROVE  i = j
      <4>1. CASE i \in 1 .. n /\ j \in 1 .. n
        BY <1>1, <3>1, <3>2, <4>1 DEF IsInjective
      <4>2. CASE i = n + 1 \/ j = n + 1
        <5>1. i \in 1 .. n \/ i = n + 1
          BY <1>1
        <5>2. j \in 1 .. n \/ j = n + 1
          BY <1>1
        <5> QED BY <2>3, <3>1, <3>2, <4>2, <5>1, <5>2
      <4> QED BY <1>1, <4>1, <4>2
    <3>3. IsInjective(hostsList')
      BY <3>1, <3>2 DEF IsInjective
    <3> QED BY <2>2, <2>4, <3>1, <3>3
  <2> QED BY <2>1, <2>5, <2>6
<1>3. CASE ~(pinged < Len(AllHosts))
  BY <1>3 DEF queryLiveHosts, Asked
<1> QED BY <1>2, <1>3

(* Popped hosts are different, as far as the list goes.                    *)
LEMMA PoppedDiffer ==
    ASSUME Answered, NEW k \in 1 .. maxHosts, NEW l \in 1 .. maxHosts, Popped(k) = Popped(l)
    PROVE  k = l
<1>1. Len(hostsList) \in Nat /\ DOMAIN hostsList = 1 .. Len(hostsList)
  BY DEF Answered
<1>2. maxHosts + 1 - k \in DOMAIN hostsList /\ maxHosts + 1 - l \in DOMAIN hostsList
  BY <1>1 DEF maxHosts
<1>3. maxHosts + 1 - k = maxHosts + 1 - l
  BY <1>2 DEF Answered, IsInjective, Popped
<1> QED BY <1>1, <1>3 DEF maxHosts

LEMMA AssignApart == ASSUME Apart, Assign PROVE HostsApart'
<1> USE DEF Apart
<1>1. /\ Answered /\ maxHosts \in Nat /\ localizeRouters \in BOOLEAN
      /\ localizeRouters' = localizeRouters
  BY JobsAssumption DEF Answered, maxHosts, localizeRouters, RoundsOK, Assign, Still
<1>2. /\ routers \in Nat /\ workers \in Nat
  <2>1. job.rounds \in Seq(Nat \X Nat)
    BY JobsAssumption DEF RoundsOK
  <2>2. round \in 1 .. Len(job.rounds)
    BY <2>1 DEF Assign, NoRound, RoundsOK
  <2>3. job.rounds[round] \in Nat \X Nat
    BY <2>1, <2>2
  <2> QED BY <2>3 DEF routers, workers
<1> DEFINE place(x) == IF localizeRouters /\ x <= workers THEN 2 + x
                       ELSE 2 + workers + IF localizeRouters THEN x - workers ELSE x
<1>3. maxHosts >= Needed /\ 2 <= maxHosts /\ 2 + workers <= maxHosts
  BY <1>1, <1>2 DEF Assign, Needed
<1>4. \A x \in 1 .. workers : 2 + x \in 3 .. maxHosts /\ WorkerHosts[x] = Popped(2 + x)
  BY <1>1, <1>2, <1>3 DEF WorkerHosts
<1>5. \A x \in 1 .. routers : place(x) \in 3 .. maxHosts /\ RouterHosts[x] = Popped(place(x))
  <2> SUFFICES ASSUME NEW x \in 1 .. routers
               PROVE  place(x) \in 3 .. maxHosts /\ RouterHosts[x] = Popped(place(x))
    OBVIOUS
  <2>1. CASE localizeRouters /\ x <= workers
    BY <1>2, <1>4, <2>1 DEF RouterHosts
  <2>2. CASE localizeRouters /\ ~(x <= workers)
    BY <1>1, <1>2, <1>3, <2>2 DEF RouterHosts, Needed
  <2>3. CASE ~localizeRouters
    BY <1>1, <1>2, <1>3, <2>3 DEF RouterHosts, Needed
  <2> QED BY <2>1, <2>2, <2>3
<1>6. \A x, y \in 1 .. routers : place(x) = place(y) => x = y
  BY <1>1, <1>2
<1>7. ~localizeRouters => \A x \in 1 .. routers : \A y \in 1 .. workers : place(x) # 2 + y
  BY <1>1, <1>2
<1>8. /\ hosts' = [controller |-> Popped(1), client |-> Popped(2),
                   workers |-> WorkerHosts, routers |-> RouterHosts]
      /\ DOMAIN WorkerHosts = 1 .. workers /\ DOMAIN RouterHosts = 1 .. routers
  BY DEF Assign, WorkerHosts, RouterHosts
<1> HIDE DEF place
<1>9. ASSUME NEW k \in 1 .. maxHosts, NEW l \in 1 .. maxHosts, k # l
      PROVE  Popped(k) # Popped(l)
  BY <1>1, <1>9, PoppedDiffer
<1>10. IsInjective(WorkerHosts)
  <2> SUFFICES ASSUME NEW x \in 1 .. workers, NEW y \in 1 .. workers, x # y
               PROVE  WorkerHosts[x] # WorkerHosts[y]
    BY <1>8 DEF IsInjective
  <2>1. 2 + x \in 1 .. maxHosts /\ 2 + y \in 1 .. maxHosts /\ 2 + x # 2 + y
    BY <1>2, <1>4
  <2> QED BY <1>4, <1>9, <2>1
<1>11. IsInjective(RouterHosts)
  <2> SUFFICES ASSUME NEW x \in 1 .. routers, NEW y \in 1 .. routers, x # y
               PROVE  RouterHosts[x] # RouterHosts[y]
    BY <1>8 DEF IsInjective
  <2>1. place(x) \in 1 .. maxHosts /\ place(y) \in 1 .. maxHosts /\ place(x) # place(y)
    BY <1>5, <1>6
  <2> QED BY <1>5, <1>9, <2>1
<1>12. Popped(1) # Popped(2)
  BY <1>1, <1>3, <1>9
<1>13. /\ \A x \in 1 .. workers : WorkerHosts[x] \notin {Popped(1), Popped(2)}
       /\ \A x \in 1 .. routers : RouterHosts[x] \notin {Popped(1), Popped(2)}
  <2>1. ASSUME NEW k \in 3 .. maxHosts PROVE Popped(k) \notin {Popped(1), Popped(2)}
    <3>1. k \in 1 .. maxHosts /\ k # 1 /\ k # 2 /\ 1 \in 1 .. maxHosts /\ 2 \in 1 .. maxHosts
      BY <1>1, <1>3
    <3> QED BY <1>9, <3>1
  <2> QED BY <1>4, <1>5, <2>1
<1>14. ~localizeRouters => \A x \in 1 .. routers : \A y \in 1 .. workers :
                              WorkerHosts[y] # RouterHosts[x]
  <2> SUFFICES ASSUME ~localizeRouters, NEW x \in 1 .. routers, NEW y \in 1 .. workers
               PROVE  WorkerHosts[y] # RouterHosts[x]
    OBVIOUS
  <2>1. place(x) # 2 + y /\ place(x) \in 1 .. maxHosts /\ 2 + y \in 1 .. maxHosts
    BY <1>4, <1>5, <1>7
  <2> QED BY <1>4, <1>5, <1>9, <2>1
<1> QED BY <1>1, <1>8, <1>10, <1>11, <1>12, <1>13, <1>14 DEF HostsApart, ToSet

LEMMA ApartStep == Apart /\ [Next]_vars => Apart'
<1> SUFFICES ASSUME Apart, [Next]_vars PROVE Apart'
  OBVIOUS
<1> USE DEF Apart
<1>1. CASE queryLiveHosts
  BY <1>1, OneMore DEF queryLiveHosts, RoundsOK, HostsApart, localizeRouters
<1>2. CASE Assign
  BY <1>2, AssignApart DEF Assign, Still, RoundsOK, Answered, Asked
<1>3. CASE UNCHANGED <<job, pinged, hostsList, hosts>> /\ round' \in {round, round + 1}
  BY <1>3 DEF RoundsOK, Answered, Asked, HostsApart, localizeRouters
<1> QED BY <1>1, <1>2, <1>3
        DEF Next, Runner, vars, Finish, ExitShort, PopEmpty, StartController, StartRouters,
            StartWorkers, PopNone, StartClient, KillWorkers, KillRouters, KillController, Sleep,
            TakeEffect, ClientMeasures, ClientFails, Ended, Leave, Still, Order

(* Whatever hosts answer, the parts of a round that must be apart are on   *)
(* hosts of their own (runRounds, parallel-runner.py:93).                  *)
THEOREM AlwaysApart == Spec => []HostsApart
<1>1. Apart => HostsApart
  BY DEF Apart
<1> QED BY <1>1, ApartInit, ApartStep, PTL DEF Spec
=============================================================================
