-------------------------- MODULE MCCandidateGraph --------------------------
(* Small instances of CandidateGraph for TLC.                              *)
EXTENDS CandidateGraph, TLC

CONSTANTS k1, k2, k3, t1, t2

MCCandidates == {k1, k2, k3}
MCTables == {k1, k2}

(* Two of the objects have the same name in different schemas.             *)
MCLeaf == k1 :> t1 @@ k2 :> t1 @@ k3 :> t2
=============================================================================
