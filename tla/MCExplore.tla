----------------------------- MODULE MCExplore ------------------------------
(* Two clients or one standalone program, two solutions to find and one    *)
(* that is known; one crash, one lost call, one failure.                   *)
EXTENDS Explore

MCKernel == "h" :> "k1" @@ "s" :> "k1" @@ "t" :> "k2"
MCFound == {<<>>, <<"bad", "t", "s">>, <<"h", "s", "s">>}
Job(mode, balance, limit, c, l, f) ==
    [mode |-> mode, balance |-> balance, limit |-> limit,
     crashes |-> c, losses |-> l, failures |-> f]
MCJobs == {Job("served", TRUE, 2, 1, 0, 0), Job("served", FALSE, 2, 0, 1, 0),
           Job("served", TRUE, 2, 0, 0, 1), Job("alone", FALSE, 3, 0, 0, 2)}
=============================================================================
