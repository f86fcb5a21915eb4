# Cloud-BDD: specifications and proofs

Cloud-BDD is a distributed package for binary decision diagrams.  Client
processes read commands (`runbdd`) and hold references to functions; worker
processes (`bworker`) hold the nodes, each in the unique table its hash selects;
routers carry operations and operands between them; one controller registers
everybody, relays global operations and runs the distributed garbage collector.
Around it are Python programs: generators of command files (queens, chessboards,
Hamiltonian paths, netlists, dictionaries, matrix multiplication), programs that
run such files one after the other or in parallel, and a search for matrix
multiplication schemes that uses the BDD program as its solver.
This directory specifies it in TLA+, checks small instances with TLC and proves
properties of every instance with TLAPS.

## 1. Inventory

`PROJECT.json` lists every component with its sources.  This is what each keeps,
does and must guarantee.

| Component | State | Operations | Hard behaviour | Correct when |
|---|---|---|---|---|
| Controller: collection rounds (`controller.c`) | `gc_state`, `gc_generation`, `need_worker_cnt`, `need_client_fd_set`, `defer_client_fd_set` | commands `collect`, `flush`; GC messages of agents; end of file of a client | answers of several rounds in flight, clients that come and die during a round, flush in the middle | steps 0 to 7 of its comment are kept, every round ends, every client is admitted |
| Controller: statistics (`controller.c`) | `stat_messages`, `flush_requestor_fd` | `add_stat_message` | overlapping flushes | each set is complete, the requestor gets one |
| Controller: start-up (`controller.c`) | `need_routers`, `need_workers`, `next_agent`, `new_conn_map` | registration of routers, workers, clients | any order of arrival, identifiers never reused | nobody is acknowledged before what it depends on |
| Controller: global operations | `global_ops` | relay `CLIOP_DATA`, count and relay `CLIOP_ACK` | client leaves or system is flushed in between | a client starts when all workers have started |
| Agent (`agent.c`) | `operator_table`, `deferred_operand_table`, `gc_state`, `gc_generation` | `run_worker`, `run_client`, `fire_and_wait_defer`, `undefer`, `gc_start`, `gc_finish`, `request_gc` | operands overtake operators; control messages arrive while an answer is awaited | an operator fires once, when complete; a deferred start is not lost |
| BDD package (`bdd.c`) | unique table, ITE cache, deferred ITE lists, unary managers | canonize, ITE lookup/recurse/store, unary down/up, `complete_collection` | concurrent requests for one node or triple | canonical nodes; every request answered once; no live node swept |
| Client (`runbdd.c`) | `nametable`, `reftable` | commands, `client_gc_start` | marking between two commands or in the middle of one | what it can reach is marked; counts match owners |
| Router (`router.c`) | queue per destination | forward, register, disconnect | slow or dead destination | FIFO per pair, no message lost or misdelivered |
| Console (`console.c`) | input stack, `block_flag` | `cmd_select`, `block_console` | commands and messages share a select loop | a blocked console runs nothing, and is unblocked |
| Chunks (`chunk.c`), tables (`table.c`), messages (`msg.c`) | buffers, buckets | read, write, insert, remove, iterate | partial reads, resizing while iterating | sequences of messages; maps |
| Conjunction (`conjunct.c`), shadow (`shadow.c`) | sets of functions; three packages side by side | combine, quantify; delegate | who owns a reference | one count per owner |
| Script library (`matrix/circuit.py`, copied for each generator) | number of the next temporary, what the script still holds | gates, counters, adders, multipliers, `decRefs` | deletion by hand, options multiply the paths | every command finds its arguments; the functions are the arithmetic |
| Script generators (`qcircuit.py`, `gen_chess*.py`, `hpath.py`, `dencode.py`, `iscnet.py`) | clusters, boards, a trie, a netlist | one per part of a script | many ways to build one function | the last function is true for the solutions of the problem |
| Brent equations (`matrix/brent.py`, `superbrent.py`) | assignment, kernel terms, symmetry | permute, canonize, find symmetry, merge levels, multiply by an invertible matrix; generate a script | permutations of matrices, indices and levels at once | a scheme goes on computing the product; one canonical form |
| Scheme search (`mm_explore.py`, `mm_parse.py`) | candidates, `solutionDict`, database and files; a client's counts | `next`, `record`, `notify`; run a scheme | calls lost, server restarted, writes that fail | each solution once in the database, with its file; clients end |
| Run sweeps (`mm_crun.py`, `mm_run.py`) | iterator over pairs, logs | hand out a pair, look at its log, run | two clients, lost answers, unfinished logs | a log has one writer, nothing is forgotten |
| Timing (`csv-tester.py`) | two pipes, details remembered, the row | write a script, read times and details | bounded pipes, order of lines | a cell is under its header; rows get written |
| Cluster runner (`parallel-runner.py`) | hosts, port, processes elsewhere | start and kill by remote commands | commands take effect late | rounds do not mix |

Interaction: TCP connections, FIFO in each direction, from every agent to the
controller and to every router; inside a process everything is sequential, one
`select` loop per process, except that a client nests loops: a command waits in
`fire_and_wait_defer`, and a marking that begins there waits in it again.

The generators write files that `runbdd` reads; the timing program holds a
`runbdd` by its pipes, and the cluster runner starts that program as its client.
The clients of the scheme search and of the sweeps call one server by XML-RPC, a
call at a time, and run `runbdd` on files.

The hazards of `PROJECT.json` are the places where this can go wrong, with the
properties that watch them.

## 2. Modules

    GCRound            what a collection promises, without messages
    GCProtocol         controller, workers and clients of the protocol
    GCInvariant        inductive strengthenings of its safety properties
    GCHeap             GCProtocol composed with tables and references
    MCGCProtocol, MCGCHeap          instances for TLC
    GCProtocolProofs   types, bookkeeping, life of a connection; rounds without flushes, refinement
    GCHeapProofs       the heap follows the protocol; what is marked survives

    BDDRef             references, local rules of ITE and canonization
    Dataflow           the runtime of agent.c: operators, operands, identifiers
    DistITE            the operators of distributed ITE, over both
    DistITEProperties  what it must keep
    IteService         what it promises a client
    MCDistITE          instance for TLC
    BDDRefProofs       the local rules keep the function; levels and branches
    DistITEProofs      caches are right, no node is missing, whatever overtakes what
    DistITETokens      nothing is lost, sent twice or left behind; the service

    ScriptConsole      the console's commands, for one assignment of the variables
    Circuit            the script library: nodes, vectors, commands
    CircuitGates       adders, counters         } of the
    Multiplier         the array multiplier     } library
    ScriptRun          a program that writes a script, part by part
    CircuitBenchmarks  associativity, multiplication, calls of the counters
    Queens, Chess, Hamiltonian, Dictionary, Netlist     the generators
    BrentTerms         variables, kernel terms, permutations of brent.py
    BrentSchemes       canonical forms, symmetry, the equations
    BrentProgram       the scripts that check or solve the equations
    Brent              a scheme under the calls of its class
    MCScripts, MCBrent                  instances for TLC

    SolutionStore      files and database of the scheme search
    Explore            its server, clients and standalone program
    Sweep              handing out runs to clients
    CsvTester          timing a console through pipes
    ParallelRunner     rounds of processes on a cluster
    MCExplore, MCSweep, MCTester, MCRunner          instances for TLC
    ExploreProofs      one line per solution, and its file
    SweepProofs        one writer per log, nothing forgotten
    RunnerProofs       rounds do not mix, whatever the hosts

### GCProtocol

State.  The controller's globals keep their names (`gc_state`,
`gc_generation`, `need_worker_cnt`, `client_fd_set`, `need_client_fd_set`,
`defer_client_fd_set`, `stat_message_cnt`, `flush_requestor_fd`).  A set that is
NULL in the code is empty here: the code tests the two cases alike.  A worker has
`wstate` and `wgen` (its `gc_state`, `gc_generation`) and `umgr`, how many
managers with the collector's id 0 its `umgr_list` holds.  A client has `cstate`
(its `gc_state`), `blocked` (`block_flag`), `pc` (inside a command that waits for
workers, or not), `marking` (how many `gc_start` are on its stack: `undefer()`
can start one inside another) and `conn`, the life of its process.  The four
channels are the connections.

Actions.  One per handler: `Recv...` are the cases of `run_controller` and
`handle_gc_msg`; `Worker...` those of `run_worker`; `Client...` those of
`run_client` and `fire_and_wait_defer` (which treat the same message
differently: `Busy` tells which loop the client is in); `ClientCollect`,
`ClientFlush`, `ConsoleCollect`, `ConsoleFlush` the commands.  `ClientLeave` is a
client that quits or dies at any point of all this.  A definition marked
`(mutant)` is a plausible bug in the definition it precedes: `Next` does not use
it, the project lists which property it breaks.

Abstractions.
- All routers and workers have registered and the client limit is not reached;
  the end of a worker or a kill command stops the whole system and is not a step.
- A member of `Client` is one connection.  The reuse of a descriptor by a later
  connection is not modelled, nor SIGPIPE: what is written to a process that is
  gone reaches nobody.
- A client counts generations and never reads its counter: left out.
- The answer to an operation or a mark is not modelled as a message: `OpDone`
  and `MarkDone` may happen at any time.  When nobody flushes, this rests on
  `MarkersHaveManagers` (a mark that finds no manager is dropped and its
  client waits for ever), which is checked and proved.  With flushes it is
  optimistic, so no liveness is claimed there.
- `LazyOps` stands for commands that end without `undefer()` (`do_var`,
  `do_conjunct`).  TRUE allows both kinds.

### GCHeap

Each action joins the action of GCProtocol of the same name with its effect on
`store` (unique tables), `marks` (the set of each worker's mark manager), `names`
(values of `nametable`) and `held` (results counted in `reftable` without a name
yet).  A node stands for a function with its descendants: `client_gc_start` waits
for each root to be marked through, so a root and what it reaches are marked in
one step, and no command runs between two roots.  `stage` places a command's
`undefer()` where the code has it: after `assign_ref` in `do_ite`, `do_not` and
others, between two combinations in `tree_reduce` and `linear_reduce`.  `kept` is
a history variable, the nodes a client last marked and reported.  Flushes are not
composed.

### GCRound

The numbered steps of the comment at the head of `controller.c` as a machine of
three variables: `phase`, the workers that are `open` for marks, the clients that
have still `toMark`.  `ImplementsRound` is its specification under the mapping
`open <- {w : umgr[w] > 0}`, `toMark <- need_client_fd_set`.

### BDDRef

A reference is the function it denotes, a set of points.  The unique tables make
equal functions equal references, and canonization never complements a
then-child, so the complement bit is "false where all variables are true".
`ref_ite_local` is translated rule by rule: each fixup is a function on the record of the
arguments, and their composition is the operator.  The order of references as
unsigned words is the constant `Greater`: the rules use it, the result does not
depend on it.

### Dataflow

`net` is what the routers hold, a bag: a message goes through a router chosen at
random, so any two may overtake.  Each worker has `operator_table` and
`deferred_operand_table`; each agent has `seq_num`; `wait` is where a client
expects its answer.  `Queue` is a message that completes nothing; what fires is
in `Firings`, and a handler's action leaves what it sends, in the order in which the
code sends it, in `agenda` (`Emit`).  From there `send_op` gives a message to a
router; a worker in `SelfRoute` receives what it sends to itself in a nested call,
whose own messages then come before the rest of the agenda.  The `retire` entry is
the end of `receive_operand`, which removes the operator only after its handler has
returned.  A worker reads its connections when its agenda is empty.  `InsertAll` is
the loop of `receive_operation` over the deferred operands, `Fill` its effect on the
slots.  `IdLimit` is 2^48 in the code.

### DistITE and IteService

One action per operator of `bdd.c` that computes an ITE; `do_ite_lookup_op` is
three, for a hit, a triple being computed, and a new one; `Only` is a message that
a handler sends on one branch.  `unique_table`,
`ite_table` and `deferred_ite_table` are per worker; `HomeNode` and `HomeTriple`
are the hashes.  Clients do `dist_ite` with references they know, complement them
by themselves, and wait for one operand.  `IteService` is the same without
workers: ask, be answered with the ITE of what was asked.

Abstractions: hash chains and uniquifiers (a reference is its function);
`OP_VAR` (clients know the variables); collections and flushes while an
operation runs; statistics; routers, which neither lose nor repeat a message.

### Scripts

A behaviour of MCScripts is one program with one set of options (`job`) and the
console that reads what it writes.  When the script declares its variables, TLC
chooses their values (`in`); from then on every command is evaluated for that one
assignment, so a function is a bit, and all assignments together are its truth
table.  `ckt` is the console (`env`, files, errors) with the library's own state:
the number of the next temporary (`Uniq`) and the bag of objects still held.
One action is one part of the generator between two comments of its script, or one
round of a loop.  Kinds of diagrams (BDD, ZDD, ADD) are not told apart by their
value, yet every conversion is a command that must find its argument.  A name is a
tuple; formatting it is left out.  The generators' recursive splits (hpath's
clusters, brent's orders of conjunction, the trie) are computed as plans, which the
actions then carry out one operation at a time.

`countGeneratorVector` and other counters of the library are called by many
programs; `CircuitBenchmarks` also calls them directly (`CountDeclare`,
`CountNegate`, `CountCall`), as those programs do, for small numbers of signals.

`Brent` is a scheme object and the calls that change it; a string that the code
compares (a polynomial, a signature) is a sequence of numbers in the same order.
`ijk2var`, `shouldFlip` and the permutation of variables are as in the code, index
by index.  `BrentProgram` writes the scripts of `generateProgram` and reads back the
logs of their runs.  `inversions.py` lists the pairs of inverse matrices as numbers, and
`mtest.py` puts each pair between A and B of a scheme: the lists, the numbers and the
product are in `BrentSchemes`, the step is `MultiplyByPair` of `Brent`.  `lcompress.py` merges
every two levels of a scheme into one (`MergeLevels`).  A merged scheme need not compute what
the first one did, it is where a search starts: `MergedOnce`, in `CallKeeps`,
says what is kept of it.

### SolutionStore and Explore

`rec` is the place of a program inside `recordSolution`: the file is opened,
written, closed, then the database line is appended, and each may fail.  The server
handles one call at a time (`Idle`), keeps `solutionDict` (`given`), candidates by
kernel and its history.  A client is `next`, run, `process` each solution,
`record`, `notify`.  A call may be lost on its way or on its way back, which the
client sees as one exception; the server may crash inside a call, and starts again
with what the database holds.  What a run finds is `Found`, any of some sequences;
`Alone` is the process that has the server's part itself.  `addCandidate` is called
with what `recordSolution` returned, which is None on every path, and for a new
kernel stores the function `hash`: both are in the model, as is the exception they
lead to later.

### Sweep

`rest` is the state of `Pair`, `role` says whether a server hands out the pairs, one
program takes them alone (`mm_crun.py` without a server), or runs over files only
(`mm_run.py`).  The client's call, the server's answer and its arrival are three
steps; `shouldRun` and the start of the program are two, between which others may
act.  A log is absent, unfinished or finished.  Which modes go together
(`compatibleModes`) is computed as in the code.

### CsvTester

`ops` is the program of the tester, written out for a job: each entry is one write,
one reading loop or one cell.  The console reads a line, prints, and ends at quit or
when mode -d has no controller.  Its clock counts the commands that work, so
times, ITEs and their order are real and their size is not.  What it prints is in the order
of `ref_show_stat`, `mem_status` and `do_summary_stat`; only CUDD's own report, which the
repository has not, is modelled from how the tester reads it.

### ParallelRunner

`queryLiveHosts` asks the hosts of the list one by one (`pinged`), and any of them
may not answer.  `cmds` are the remote commands under way; `left` is how many sleeps each may still
last, `delay` for a new one.  `procs` are the processes on the hosts.  Start and
kill name a kind of process on a host, as `killall` does.

## 3. Runs

| Run | Instance | Shows |
|---|---|---|
| `gc_safety` | 2 workers, 3 clients that may all leave, 2 rounds, both kinds of commands, no flush; 0.9 M states | order of the protocol's steps; no unexpected response; generations; refinement of GCRound |
| `gc_flush` | 2 workers, 2 clients, 1 round begun, 2 flushes; 1.1 M states up to symmetry | types, bookkeeping of the controller, statistics, newcomers, under flushes anywhere |
| `gc_live` | 2 workers, a client that stays and one that may leave, 2 rounds | rounds end, deferred clients are admitted, consoles are released |
| `heap_any` | 2 workers, 2 clients, 2 nodes on different workers, collections by anyone, reductions | what a client marked and still names survives |
| `ite_dist` | 3 variables, 2 workers of which one delivers to itself, 2 clients with 2 operations each; 35 thousand states | every empty slot has one source, identifiers differ, a triple is computed once at a time, caches and tables are right, nothing is left behind, and the service is implemented |
| `scripts` | each generator on its smallest boards, words, netlists and schemes, with the modelled options; 147 thousand states | no script names a function that is not there; arithmetic, boards and encodings are right |
| `brent` | Strassen's scheme, the same with two products more, a wrong one, a partial one, one for 1 x 2 by 2 x 1; every permuter, every pair of inverse 2 x 2 matrices, every merge of two levels | a scheme keeps what it computes, has one canonical form (after an invertible matrix, one of those of the pairs that `mtest.py` tries), its symmetry maps it to itself, and a merge loses no kernel term |
| `explore` | 2 clients or the standalone program; one crash, or one lost call, or failing writes | one line per solution, its file complete, counts that agree with the disk, clients end |
| `sweep` | 2 files, 2 compatible modes of 6, 2 clients; one loss, one failing run; any logs at the start; 86 thousand states | one writer per log, nothing forgotten, all end |
| `timing` | one or two modes, trials and tests; pipes of 2 and 5 lines | cells under headers, rows get written |
| `runner` | 5 hosts of which any answer, 2 rounds, delays of 0, 1 and 7 sleeps; 261 thousand states | hosts apart, rounds that start clean, processes that join their own round |

One run is expected to fail: `hamilton_v_layers` builds the paths of a 2 x 3 mesh
with -L.  `addStep` conjoins the older layers and the counts of squares but not the
formulas of the unit clusters, where the moves are: OK is true for an order of the
squares that is no path.  The program's first line says that it encodes all
Hamiltonian paths.  `HamiltonRight`, in `scripts`, has for layers what they do
guarantee.

Other behaviours of the code that its comments do not lead one to expect are in the
models and under "hazards", with what the properties therefore leave out: a round
without clients never ends; a command that ends without `undefer()` leaves a round
open; a request that meets the end of a round is dropped for good; a flush forgets
deferred clients, and stale answers count after it; a client computes between its
marking and the sweep; reductions mark in the middle; two levels with the same
kernel terms have no canonical order; `nQueens` reports functions it has deleted
when conditions are conjoined early; a pair whose answer is lost is not run.

Bounds.  `MaxGen` bounds the rounds that can begin: a second round meets
everything a first can leave behind (a late request, a deferred client, a
dead connection).  `MaxFlush` bounds flushes: two are needed for them to overlap.
Two workers make the counter's last and not-last responses differ and let one be
early; a third client allows one to mark, one to arrive and one to die at the
same time.  `gc_flush` begins one round because each flush multiplies what is in
transit.  All channels are unbounded; the bounds above keep them finite.
Deadlock is not checked in the models of the protocol: when nobody types a
command the system rests.  `brent`, `explore`, `timing` and `runner` stop when their programs end or die.

In `scripts`, up to ten variables take every value; with more, the assignments with
at most `MaxTrue` = 4 of them true, which for boards of four are the solutions and
their neighbours, and for 2 x 3 squares one square per step with the second one
given.  Boards are as small as have solutions and as have none; words share
beginnings, begin another or leave positions out; one netlist has a gate of each type; a
problem of two products has kernel terms that are alone, shared and missing.
In `brent` one call (`MaxCalls`) is one permutation of everything: permutations
compose, so more calls give no new schemes of these.  In `explore` the solutions are
one that is known, one that obeys the restrictions and one that does not; the four
jobs have one kind of fault each.  In `sweep` two files and two modes make the right
list end, start again and end with the left one.  `timing` has scripts that fit the
pipes, that do not, that quit, that print no time.  A delay of 7 sleeps lets a
command of `runner` last over a whole round.

In `ite_dist` the requests are two exclusive-ors of two variables, one of all three
that needs the first, and one that is settled locally.  The third splits into
branches that are the same triple up to complement, and the second is that triple
again, so three requests of two clients meet in one deferred list with different
signs.  Nodes and results are kept at both workers, operands arrive before, after
and between operators, and the second operation of a client uses the result of its
first.  All handlers and both kinds of delivery occur (`REF_INVALID` does not:
`TypeOK` and `NodesStored` say so).  With `IdLimit = 8` the sequence numbers wrap
while operators wait; with 7, `IdsDiffer` fails, so the property is about how many
operators live at a time, not about the width alone.

Fairness (`FairSpec`).  Every process serves all readable descriptors in each
turn of its `select` loop, so what the controller, a worker or a client can
receive it does receive: weak fairness per process and connection.  A command
that waits for workers ends (`ClientCompute`), see the abstraction above.  No
fairness for typing commands, connecting, leaving or filling a table.

In `DistITE` (`Spec`): a worker's step and a client's reading of its answer are
weakly fair, because TCP and the routers deliver everything and a `select` loop
returns after every handler; finitely many messages exist, so each is received.

In `Explore`, `Sweep`, `CsvTester` and `ParallelRunner`: a process that can go on
does (each is a sequential program); the runs of the BDD program end, well or with a
failure; remote commands take effect.  No fairness for crashes, lost calls, failed
writes and dying clients.  `EveryClientEnds` and `ClientsEnd` then rest on the
limit, the end of the list, and on each exception having one consequence.

A property of a passing run that holds for a reason worth knowing:
- `RoundEndsWithClient` asks for a client that takes part and stays; without one
  the round may not end.
- `ConsoleReleased` holds although a request that arrives during a round is
  dropped: the end of that round unblocks the console.  That a console is
  released does not mean that a collection began after the request.
- `GenerationsAgree` is about runs without flushes.  After a flush aborts a
  round, the controller's generation is ahead of the workers' for good and their
  requests are outdated from then on.
- `CommandsSucceed` leaves out the options of `nQueens` named above, `OneCanonicalForm`
  schemes whose levels share their kernel terms without being equal.
- `BrentRight` leaves out a streamline formula that no level of a breadth-first order
  takes in: the code then drops it.
- `NothingForgotten` is about runs in which nobody was lost, `CleanStart` about
  commands that take effect before the next sleep ends.

## 4. Proofs

For all finite non-empty sets of workers, any clients, any bounds
(`WorkersAssumption`, `ClientsAssumption`, `BoundsAssumption`):

- `TypeCorrect`: `Spec => []TypeOK`.
- `BookkeepingCorrect`: `RoundBookkeeping` is inductive with `TypeOK`.
- `ConnectionsLive`, `NewcomersAlwaysWait`: `Lives` says where a registration, an
  acknowledgement and an end of file can be.  `NewcomersWait` alone is not
  inductive: that a client runs only after it was admitted depends on no
  acknowledgement being in transit to one that was not.

- `StatsAlwaysAccounted`: an order to flush becomes a statistic on its way, and that a
  statistic counted, so the number owed and counted stays a multiple of the number of
  workers, with any number of flushes under way.  An answer that does not complete a set
  leaves a remainder, so someone still owes: the client in `flush_requestor_fd` is forgotten
  with the last answer at the latest.  `TypeOK` supplies that no set is full between steps.

With `MaxFlush = 0` in addition (no flush in the behaviour; with flushes these
statements are false):

- `InStep`: `RoundInv`, the inductive invariant of the round.  `WorkersInStep`
  says, for each state of the controller, which of six situations (`Idle`,
  `Told`, `Reporting`, `Open`, `Sweeping`, `Swept`) a worker and its two
  channels are in, and that `need_worker_cnt` is the number of those not heard
  of.  `OneDuty` says that what a client owes is in exactly one place: GC_START on its way,
  deferred, being marked, GC_FINISH on its way back; `DutyAwaited`, that the
  controller then waits for it.  None of the safety properties is inductive
  without these: the counter alone does not tell whose answer is missing.
- `GenerationsAlwaysAgree`, `MarkersAlwaysHaveManagers`, `NeverSweepWhileMarking`,
  `ResponsesAlwaysExpected` follow from it.
- `ProtocolImplementsRound`: every step maps to a step of GCRound or a stutter.

For the heap (`GCHeapProofs`; `HomeAssumption`: a node has one worker):

- `HeapImplementsProtocol`: a behaviour of GCHeap is one of GCProtocol.  So every theorem
  about the protocol holds of the composition, and its proofs are not repeated.
- `HeapAlwaysConsistent`, with `MaxFlush = 0`: `HeapInv` is inductive.  What a client
  has reported is among the marks once it has answered, the marks of a worker stay until it
  has swept, and a client that is gone keeps nothing.  That the stages come in this order is
  `InStep`: a sweep before the last answer would miss marks, and a worker whose manager were
  gone would have none.
- `MarkedAlwaysSurvives`: what a client marked and reported is in the unique tables until it
  reports again.

For any set of variables and any order of references (`BDDRefProofs`):

- `LocalSound`: what `ref_ite_local` returns, or the triple it hands on with its
  complement flag, denotes the ITE of its arguments.  One lemma per fixup says
  that it keeps the function that the record denotes.
- `SplitSound`: cofactoring a triple on any variable and joining the branches in
  a node is the ITE of the triple: the step of the recursion.
- `CanonizeSound`: `ref_canonize_local` keeps the function, and what it looks up is
  never complemented.

- Levels (`Level`, `NodeChildren`, `SplitBranches`, `CanonizeFrom`): the number a
  reference carries is that of its topmost variable, a node has the branches it was
  made of, the branches of a triple lie below its variable.  The existence of a least
  variable needs `VarAssumption`: variables are finitely many numbers, at least one.

For any workers, clients, variables, order of references, hash functions, requests and
any choice of workers that deliver to themselves (`DistITEProofs`):

- `AlwaysRight`: `DistInv` is inductive.  No message of the runtime says what it is
  for: an operand has an identifier, an offset and a value.  The invariant therefore
  speaks of a world: a function that gives every slot of every identifier handed out
  the value it is to receive, with the nodes that are stored.  There is such a world
  that everything agrees with: every filled slot and every operand on its way
  (`Right`), every operator, which with its slots filled as the world says will send
  to its destination what the world has there (`Task`), every entry of a deferred list,
  every cache, every client that waits (`Awaits`).  A step that takes identifiers
  continues the world (`Handing`): the split of a triple decides then what the six slots
  of its recursion and the slot of its store are to receive, before any of it is
  computed.  What is promised stays so (`Later`), so messages may be as late as they like.
  A world also ranks its identifiers: an operator's destination ranks below the operator.
- `AlwaysCacheRight`, `AlwaysStored`, `AlwaysTyped`: `CacheRight`, `NodesStored` and
  `TypeOK` follow, with the rules of ITE above for one step of the recursion.  In
  particular the test of levels in `ref_canonize_local` never fails and no retrieval
  misses its node: `REF_INVALID` never appears.

  Hypothesis: `NeverWraps`, no agent's sequence number starts again from zero, that is,
  no agent hands out 2^48 identifiers.  A world knows an identifier once; `ite_dist`, whose
  numbers wrap after 8, shows that reuse is harmless while the old holder is gone.
  Without any limit on what is under way it is not: with 7 two operators meet.
  `IteAssumption`: the slots of an opcode are those of `build_...`, the word for a failure
  is no reference, a destination is not None, and a handler's five identifiers differ.

For the same, and with the same hypotheses (`DistITETokens`):

- `AlwaysLinear`: `LinInv` is inductive with `DistInv`.  What is right may still come twice
  or never.  The invariant therefore counts tokens: an identifier in use, a slot that waits
  (`snk`) and what will fill it (`src`), an operator that has fired (`full`) and what will
  remove it (`ret`), a triple marked as being computed (`entry`) and what will store
  its result (`store`).  The holders are messages, agendas, tables, deferred operands,
  deferred triples and waiting clients.  No two hold the same token, and of the three pairs one half
  is in the system exactly when the other is (`Tokens`).  No step is exempt: `Queue` moves tokens from
  the net to a table, `Fill` uses up a pair, a new triple makes the pairs of its six
  slots and its store at once, and a second asker's destination is fed by the entry it leaves in
  the list of the first.  `Kept` says where messages may wait, and that none is empty.
- `AlwaysOneSource`, `AlwaysIdsDiffer`, `AlwaysComputedOnce` are three readings of it: a slot
  is fed from one place, no two operators share an identifier, a triple is computed by one
  recursion at a time.
- `AlwaysNothingLeft`: when no client waits and every agenda is empty, no message,
  operator, deferred operand or deferred triple is left.  An operator of least rank would feed a
  slot that waits; with no client waiting that is an operator's, of lower rank.
- `ImplementsServiceSafely`: the initial states and steps of `DistITE` are those of
  `IteService`.  A client takes the first operand that arrives, so both are needed:
  the world, for the value, and the tokens, for the operand being the one it waits for.

For any clients, schemes, solutions and bounds (`ExploreProofs`; `NamesAssumption`: the
standalone program is not called like a client, nor the server like one of them;
`FoundAssumption`: what a run finds is a sequence of solutions, wrong ones among them;
`StoreAssumption`: Heule's are solutions):

- `AlwaysKnown`: whoever decides whether a solution is new, the server or the standalone
  program, knows every line of the database and the solution being recorded, unless it has
  still to read the database.  A crash between the file and the line is why
  the lines alone are not enough, and a lost answer why the client's view is not.
- `AlwaysOneLine`, `LineAlwaysHasFile`: a solution has at most one line, and a line has its
  complete file, after any crashes, lost calls and failed writes.
- `CountedIsAlwaysKept`: while no file failed to open, what clients count as their finds,
  with the one whose answer is due, are at most as many as the lines (`FindsInv`).  The
  answer is what makes the count rise after its line, and a lost one only leaves a line
  that nobody counts (`JobsAssumption`: a bound of failures is a number).

For any clients, files, modes and bounds (`SweepProofs`; `ListsAssumption`: no file and no
mode is named twice, else a pair is run twice by design; `ClientsAssumption`: there is a
client):

- `SweepAlwaysConsistent`: a pair is still in the two lists (`Remaining`), held by a client
  (`Held`) or seen to (`Settled`).  A held pair is no longer in the lists and has one holder;
  while nobody is lost, a pair seen to has its log, those without a complete one are at most
  the failed runs (if unfinished runs are redone), and nobody leaves before the lists are empty.
- `AlwaysOneWriter`: no log has two writers.  `NothingIsForgotten`: when all have ended
  without a loss every pair has its log.

For any hosts, rounds and delays (`RunnerProofs`; `HostsAssumption`: the hosts file names a
host once; `JobsAssumption`: a round is two numbers):

- `NeverJoinsAnother`: `Ports` is inductive: every command and process carries the
  port of its round, and rounds have different ports.  A process joins only a
  controller of its port, so of its round, however late its command was.
- `StartsClean`: for the jobs with `delay = 0` a second invariant follows the round: which
  kinds of processes there can be at each place of the runner, on which hosts, and that
  every command is of the last order given.  The kills at the end of a round take
  the kinds one by one; none is left when the next begins.
- `AlwaysApart`: a host answers once, so the list has each once, and the parts of a round
  that must be apart are popped from different places of it.

In GCProtocol the shape is always the same: initial state, one lemma per action (stage lemmas
for the workers it concerns, a frame lemma for the rest), and a QED by PTL.

Only model-checked:
- everything under fairness, so the half of `ImplementsService` that promises an answer:
  liveness is beyond the prover;
- `UnderItsHeader`, about sequences built by recursion: what such a definition yields for
  every input needs induction over data, which the provers cannot instantiate;
- everything about scripts and schemes, for the same reason.

## 5. Not modelled

- Start-up and registration, beyond clients; global and unary operations; the
  routers' queues; hash tables, chunks and message packing, for which the models
  have functions, bags and records.  With them, the hazards that lie there: identifiers
  that are never reused, descriptors reused after a client left, readiness kept
  across `select`, SIGPIPE on a connection that is gone, a second traversal that is
  deferred on the first, removal during iteration, counts of references.
- A flush or a sweep while an ITE is under way.
- The heuristics of `conjunct.c`; what the command computes is in ScriptConsole.
- Shutdown, logging, memory accounting, the shadow manager's delegation, CUDD (which
  is not in the repository), unit-test drivers.
- In the modelled Python programs: command lines, formats of files and of what is
  printed, random choices of an order (the model's functions do not depend on it),
  options that raise an exception before anything is written (`-P` of hpath, boards
  narrower than a tile), `-e` of `mm_generate.py` with no kernel terms, which raises in
  `groupings`, options no program sets (`varKV`), functions nothing calls.
- The remaining scripts, filters over result files without state or interaction.
