---------------------------- MODULE MCGCProtocol ----------------------------
(***************************************************************************)
(* Instances of GCProtocol for TLC.                                        *)
(***************************************************************************)
EXTENDS GCInvariant, TLC

CONSTANTS w1, w2, c1, c2, c3

TwoWorkers == {w1, w2}
TwoClients == {c1, c2}
ThreeClients == {c1, c2, c3}
Guest == {c2}

PairSymmetry == Permutations({w1, w2}) \cup Permutations({c1, c2})
=============================================================================
