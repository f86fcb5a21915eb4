------------------------------ MODULE MCGCHeap ------------------------------
(***************************************************************************)
(* Instances of GCHeap for TLC: two nodes, at different workers.           *)
(***************************************************************************)
EXTENDS GCHeap, TLC

CONSTANTS w1, w2, c1, c2, n1, n2

TwoWorkers == {w1, w2}
TwoClients == {c1, c2}
Guest == {c2}

TwoNodes == {n1, n2}
Apart == (n1 :> w1) @@ (n2 :> w2)

AnyInitiator == {"console", "worker", "client"}
=============================================================================
