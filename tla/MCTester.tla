------------------------------ MODULE MCTester ------------------------------
(* Up to two modes, two trials and two tests, with pipes of two lines.     *)
EXTENDS CsvTester

Script(lines) == [source |-> TRUE, lines |-> lines]
Short == Script(<<"work", "time">>)
Long == Script(<<"work", "time", "work", "work", "time", "work">>)
Loud == Script(<<"say", "say", "say", "work", "say", "time">>)
Apart == Script(<<"timed", "time", "work", "time">>)
Quits == Script(<<"work", "time", "quit">>)
Plain == [source |-> FALSE, lines |-> <<"work">>]

JobsOf(modes, times, trials, tests) ==
    [modes : modes, details : BOOLEAN, time : times, trials : trials, tests : tests, up : {TRUE}]
MCJobs ==
    JobsOf({<<"-d">>, <<"-l">>, <<"-c">>}, {"direct", "delta"}, {1}, {<<Long, Short>>, <<Apart>>})
    \union JobsOf({<<"-c", "-d">>, <<"-l", "-c">>}, {"direct"}, {2}, {<<Short, Short>>})
    \union JobsOf({<<"-d">>, <<"-c">>}, {"clock"}, {1, 2}, {<<Loud>>})
    \union JobsOf({<<"-d">>, <<"-l">>, <<"-c">>}, {"direct"}, {1}, {<<Quits>>, <<Short, Plain>>})
    \union {[modes |-> <<"-d">>, details |-> d, time |-> "direct", trials |-> 1,
             tests |-> <<Short>>, up |-> FALSE] : d \in BOOLEAN}

-----------------------------------------------------------------------------
KindsIn(r) == [i \in DOMAIN r |-> r[i][1]]
PerMode == Len(job.tests) + 3
Mode(r) == 1 + (r - 2) \div PerMode
Place(r) == (r - 2) % PerMode
IsTest(r) == r >= 2 /\ Place(r) \in 2 .. PerMode - 2

(* Every cell of a test stands under the header of its column, whatever    *)
(* the order in which the console prints its statistics, in every mode     *)
(* (printUtilizationDetails, csv-tester.py:85).                            *)
UnderItsHeader ==
    \A r \in DOMAIN rows :
        /\ Len(rows[r]) = Len(rows[1])
        /\ IsTest(r) => KindsIn(rows[r]) = KindsIn(rows[2 + (Mode(r) - 1) * PerMode])

Says(t) == Cardinality({i \in DOMAIN t.lines : t.lines[i] \in {"say", "time", "timed"}})
(* A run of scripts that fit the pipes, each with a time of its own and no *)
(* quit, ends with all its rows written, if the console has its controller *)
(* (runTimer, csv-tester.py:295).                                          *)
Fits(t) == t.source /\ TimesIn(t.lines) > 0 /\ "quit" \notin Range(t.lines)
             /\ Says(t) + 2 < OutCap
RowsGetWritten == job.up /\ (\A i \in DOMAIN job.tests : Fits(job.tests[i])) => <>(pc = "end")
=============================================================================
