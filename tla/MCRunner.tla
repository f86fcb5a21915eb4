------------------------------ MODULE MCRunner ------------------------------
(* Five hosts that may answer, two rounds, commands that take effect at    *)
(* once, before the next sleep ends, one sleep later, or much later.       *)
EXTENDS ParallelRunner

MCHosts == <<"h1", "h2", "h3", "h4", "h5">>
MCJobs == [localize : BOOLEAN, delay : 0 .. 1,
           rounds : {<<<<1, 2>>, <<2, 1>>>>, <<<<2, 2>>, <<1, 1>>>>, <<<<1, 1>>, <<0, 1>>>>,
                     <<<<1, 0>>>>}]
          \union [localize : {TRUE}, delay : {7}, rounds : {<<<<1, 1>>, <<1, 1>>>>}]
=============================================================================
