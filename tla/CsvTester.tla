----------------------------- MODULE CsvTester ------------------------------
(***************************************************************************)
(* The program that times scripts (src/timer/csv-tester.py): it writes the *)
(* commands of a script to the input of a console, a process of its own,   *)
(* reads what the console prints, and writes rows of a table.  Two pipes   *)
(* of bounded capacity join them, and the tester reads nothing while it    *)
(* still has commands to write.                                            *)
(*                                                                         *)
(* A line that the console prints is <<kind, value>>, a cell of the table  *)
(* the same.  The clock of the console counts the commands that do work,   *)
(* which is also its number of ITEs, reset by a flush.                     *)
(***************************************************************************)
EXTENDS Integers, FiniteSets, SequencesExt

CONSTANTS Jobs,     \* [modes, details, time, trials, tests, up]; a test is [source, lines];
                    \* up says that the controller of mode -d is there
          InCap, OutCap   \* lines that the pipes hold

ASSUME TesterAssumption == InCap \in Nat \ {0} /\ OutCap \in Nat \ {0}

VARIABLES job,
          ops,       \* what the tester has left to do
          pc,        \* "run", "end", "dead" (an exception)
          console,   \* the console: mode, alive, pend, clock, last, ites
          inp, outp, \* the pipes
          deltas, details, later,   \* deltaTimeList, details, detailsToPrint
          row, rows  \* the cells of the row being written; the rows finished

vars == <<job, ops, pc, console, inp, outp, deltas, details, later, row, rows>>
tester == <<job, ops, pc, deltas, details, later, row, rows>>

-----------------------------------------------------------------------------
(* The steps of the tester.                                                *)
Op(do, what, n) == [do |-> do, what |-> what, n |-> n]
Write(cmd) == Op("write", cmd, 0)
Cells(kinds) == [i \in DOMAIN kinds |-> Op("cell", kinds[i], 0)]

numTotalDetails == 5
Blank(n) == [i \in 1 .. n |-> "blank"]

DistributedKinds == <<"bytes", "ites", "sent", "unique", "total">>
(* utilizationDetailsHeaderDistributed, ...Local, ...CUDD                  *)
HeaderDistributed == DistributedKinds
HeaderLocal == <<"peak", "ites">> \o Blank(3)
HeaderCUDD == <<"memory", "nodes">> \o Blank(3)
HeaderOf(mode) == CASE mode = "-d" -> HeaderDistributed
                    [] mode = "-l" -> HeaderLocal
                    [] mode = "-c" -> HeaderCUDD

(* initUtilizationDetails: a flush, whose counts are remembered.           *)
InitDetails(mode) ==
    <<Write("flush")>> \o
    CASE mode = "-d" -> <<Op("remember", "unary", 0)>>
      [] mode = "-l" -> <<Op("remember", "allocated", 0)>>
      [] mode = "-c" -> <<>>

(* printUtilizationDetails: what has changed, then empty cells.            *)
\* (mutant) the details that were kept are written first
KeptFirst(mode) ==
    CASE mode = "-c" -> <<Write("status"), Op("copy", "reordering", 0)>>
                          \o Cells(Blank(3)) \o <<Write("flush")>>
      [] mode = "-l" -> <<Write("flush"), Op("change", "allocated", 0)>> \o Cells(Blank(3))
      [] mode = "-d" -> <<Write("flush"), Op("changelater", "unary", 0), Op("later", "", 0),
                          Write("flush"), Op("copy", "unary", 0)>>
PrintDetails(mode) ==
    CASE mode = "-c" -> <<Write("status"), Op("copy", "reordering", 0)>>
                          \o Cells(Blank(3)) \o <<Write("flush")>>
      [] mode = "-l" -> <<Write("flush"), Op("change", "allocated", 0)>> \o Cells(Blank(3))
      [] mode = "-d" -> <<Write("flush"), Op("changelater", "unary", 0),
                          Write("flush"), Op("copy", "unary", 0), Op("later", "", 0)>>

\* (mutant) one time more than the script takes
OneTimeMore(lines) == 1 + Cardinality({i \in DOMAIN lines : lines[i] = "time"})
TimesIn(lines) == Cardinality({i \in DOMAIN lines : lines[i] = "time"})

(* runTests, for one trial of one test.                                    *)
Trial(j, mode, t) ==
    (IF j.details THEN InitDetails(mode) ELSE <<>>)
      \o <<Write("time")>>
      \o [i \in DOMAIN t.lines |-> Write(t.lines[i])]
      \o <<Write("time"),
           Op("times", "", 2 + IF t.source THEN TimesIn(t.lines) ELSE 0),
           Op("direct", j.time, 0)>>
      \o (IF j.details THEN PrintDetails(mode) ELSE <<>>)

Times(n, s) == FlattenSeq([i \in 1 .. n |-> s])

(* runTimer: a row that counts the trials; then for each mode a row that   *)
(* names the cells, an empty row, a console, a row for each test, and an   *)
(* empty row.                                                              *)
Row(j, kinds) == Cells(Times(j.trials, <<"time">> \o (IF j.details THEN kinds ELSE <<>>)))
                   \o <<Op("row", "", 0)>>
EmptyRow(j) == Row(j, Blank(numTotalDetails))
ModeOps(j, mode) ==
    Row(j, HeaderOf(mode)) \o EmptyRow(j) \o <<Op("open", mode, 0)>>
      \o FlattenSeq([i \in DOMAIN j.tests |->
             Times(j.trials, Trial(j, mode, j.tests[i])) \o <<Op("row", "", 0)>>])
      \o <<Op("kill", "", 0)>> \o EmptyRow(j)
Program(j) == EmptyRow(j) \o FlattenSeq([i \in DOMAIN j.modes |-> ModeOps(j, j.modes[i])])

-----------------------------------------------------------------------------
NoConsole == [mode |-> "", alive |-> FALSE, pend |-> <<>>, clock |-> 0, last |-> 0, ites |-> 0]

Init == /\ job \in Jobs
        /\ ops = Program(job)
        /\ pc = "run"
        /\ console = NoConsole
        /\ inp = <<>> /\ outp = <<>>
        /\ deltas = <<>> /\ details = <<>> /\ later = <<>>
        /\ row = <<>> /\ rows = <<>>

(* What the console prints for a command: the counts of its own references *)
(* (ref_show_stat), of its memory (mem_status), the workers' sums that the *)
(* controller sends it (do_summary_stat), and what CUDD says of itself.    *)
RefStat(c) == <<<<"peak", 0>>, <<"ites", c.ites>>>>
MemStatus == <<<<"allocated", 0>>>>
SummaryStat(c) == <<<<"bytes", 0>>, <<"sent", c.ites>>, <<"unique", c.ites>>,
                    <<"total", c.ites>>, <<"unary", 0>>>>
Flushed(c) == (IF c.mode = "-c" THEN <<>> ELSE RefStat(c)) \o MemStatus
                \o (IF c.mode = "-d" THEN SummaryStat(c) ELSE <<>>)
CuddInfo == <<<<"memory", 0>>, <<"nodes", 0>>, <<"reordering", 0>>>>
Printed(c, cmd) ==
    CASE cmd = "time"  -> <<<<"elapsed", c.clock - c.last>>>>
      [] cmd = "timed" -> <<<<"delta", 1>>>>
      [] cmd = "say"   -> <<<<"text", 0>>>>
      [] cmd = "flush" -> Flushed(c)
      [] cmd = "status" -> CuddInfo
      [] OTHER -> <<>>
Execute(c, cmd) ==
    [c EXCEPT !.alive = @ /\ cmd # "quit",
              !.pend = Printed(c, cmd),
              !.clock = IF cmd \in {"work", "timed"} THEN @ + 1 ELSE @,
              !.last = IF cmd = "time" THEN c.clock
                       ELSE IF cmd = "timed" THEN c.clock + 1 ELSE @,
              !.ites = IF cmd \in {"work", "timed"} THEN @ + 1
                       ELSE IF cmd = "flush" THEN 0 ELSE @]

(* Without its controller the console ends before it reads a command.     *)
Connected == console.mode = "-d" => job.up
ConsoleEnds == /\ console.alive /\ ~Connected
               /\ console' = [console EXCEPT !.alive = FALSE]
               /\ UNCHANGED <<tester, inp, outp>>
ConsoleReads == /\ console.alive /\ Connected /\ console.pend = <<>> /\ inp # <<>>
                /\ console' = Execute(console, Head(inp))
                /\ inp' = Tail(inp)
                /\ UNCHANGED <<tester, outp>>
ConsolePrints == /\ console.pend # <<>> /\ Len(outp) < OutCap
                 /\ outp' = Append(outp, Head(console.pend))
                 /\ console' = [console EXCEPT !.pend = Tail(@)]
                 /\ UNCHANGED <<tester, inp>>

-----------------------------------------------------------------------------
At(do) == pc = "run" /\ ops # <<>> /\ Head(ops).do = do
Goon == ops' = Tail(ops) /\ UNCHANGED <<job, pc>>
Raise == pc' = "dead" /\ UNCHANGED <<job, ops, deltas, details, later, row, rows>>
SameData == UNCHANGED <<deltas, details, later, row, rows>>
Line == Head(outp)
EndOfFile == outp = <<>> /\ ~console.alive

Open == /\ At("open")
        /\ console' = [NoConsole EXCEPT !.mode = Head(ops).what, !.alive = TRUE]
        /\ inp' = <<>> /\ outp' = <<>>
        /\ Goon /\ SameData
Kill == /\ At("kill")
        /\ console' = NoConsole
        /\ inp' = <<>> /\ outp' = <<>>
        /\ Goon /\ SameData

(* A write blocks while the pipe is full, and fails once its reader ended. *)
WriteLine == /\ At("write") /\ console.alive /\ Len(inp) < InCap
             /\ inp' = Append(inp, Head(ops).what)
             /\ Goon /\ SameData
             /\ UNCHANGED <<console, outp>>
WriteFails == /\ At("write") /\ ~console.alive
              /\ Raise
              /\ UNCHANGED <<console, inp, outp>>

Cell(kind, value) == row' = Append(row, <<kind, value>>)
WriteCell == /\ At("cell")
             /\ Cell(Head(ops).what, 0)
             /\ Goon
             /\ UNCHANGED <<deltas, details, later, rows, console, inp, outp>>
EndRow == /\ At("row")
          /\ rows' = Append(rows, row) /\ row' = <<>>
          /\ Goon
          /\ UNCHANGED <<deltas, details, later, console, inp, outp>>

(* runTests reads until it has seen as many times as it asked for.         *)
ReadTimes ==
    /\ At("times") /\ outp # <<>>
    /\ outp' = Tail(outp)
    /\ deltas' = IF Line[1] = "elapsed" THEN Append(deltas, Line[2]) ELSE deltas
    /\ IF Len(deltas') = Head(ops).n THEN Goon ELSE UNCHANGED <<job, pc, ops>>
    /\ UNCHANGED <<details, later, row, rows, console, inp>>

(* deltaTimeList, without the first: what ran before the test.  Its last   *)
(* but one is the time of the script's own last section, and there must be *)
(* one.  The tester's own clock counts as 0.                               *)
Sum(s) == FoldLeft(LAMBDA x, y : x + y, 0, s)
TimeCell == LET own == Tail(deltas)
            IN  CASE Head(ops).what = "delta"  -> Sum(own)
                  [] Head(ops).what = "direct" -> own[Len(own) - 1]
                  [] Head(ops).what = "clock"  -> 0
DirectTime == /\ At("direct") /\ Len(deltas) >= 3
              /\ Cell("time", TimeCell)
              /\ deltas' = <<>>
              /\ Goon
              /\ UNCHANGED <<details, later, rows, console, inp, outp>>
NoDirectTime == /\ At("direct") /\ Len(deltas) < 3
                /\ Raise
                /\ UNCHANGED <<console, inp, outp>>

Changing == {"ites", "sent", "unique", "total"}

(* The loops of the details read up to the last line of a report.          *)
Reading(do) == At(do) /\ outp # <<>> /\ outp' = Tail(outp)
                 /\ (IF Line[1] = Head(ops).what THEN Goon ELSE UNCHANGED <<job, pc, ops>>)
                 /\ UNCHANGED <<deltas, rows, console, inp>>
Remember == /\ Reading("remember")
            /\ details' = IF Line[1] \in Changing THEN Append(details, Line[2]) ELSE details
            /\ UNCHANGED <<later, row>>
RememberEnds == /\ At("remember") /\ EndOfFile
                /\ Goon /\ SameData
                /\ UNCHANGED <<console, inp, outp>>
Copy == /\ Reading("copy")
        /\ IF Line[1] \in {"memory", "nodes", "bytes"}
           THEN Cell(Line[1], Line[2]) ELSE UNCHANGED row
        /\ UNCHANGED <<details, later>>
Change == /\ Reading("change")
          /\ CASE Line[1] = "peak" -> Cell("peak", Line[2]) /\ UNCHANGED details
               [] Line[1] = "ites"  -> Cell("ites", Line[2] - Head(details))
                                         /\ details' = Tail(details)
               [] OTHER -> UNCHANGED <<row, details>>
          /\ UNCHANGED later
ChangeLater == /\ Reading("changelater")
               /\ IF Line[1] \in Changing
                  THEN /\ later' = Append(later, <<Line[1], Line[2] - Head(details)>>)
                       /\ details' = Tail(details)
                  ELSE UNCHANGED <<later, details>>
               /\ UNCHANGED row
WriteLater == /\ At("later")
              /\ row' = row \o later /\ later' = <<>>
              /\ Goon
              /\ UNCHANGED <<deltas, details, rows, console, inp, outp>>

Finish == /\ pc = "run" /\ ops = <<>>
          /\ pc' = "end"
          /\ UNCHANGED <<job, ops, deltas, details, later, row, rows, console, inp, outp>>

Step == \/ Open \/ Kill \/ WriteLine \/ WriteFails \/ WriteCell \/ EndRow
        \/ ReadTimes \/ DirectTime \/ NoDirectTime
        \/ Remember \/ RememberEnds \/ Copy \/ Change \/ ChangeLater \/ WriteLater
        \/ Finish
Child == ConsoleEnds \/ ConsoleReads \/ ConsolePrints
Stop == pc # "run" /\ UNCHANGED vars

Next == Step \/ Child \/ Stop
Spec == Init /\ [][Next]_vars /\ WF_vars(Step) /\ WF_vars(Child)
=============================================================================
