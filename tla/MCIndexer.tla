------------------------------ MODULE MCIndexer ------------------------------
(* Instances of the indexer for TLC: two orders of one portfolio in one market. *)
EXTENDS IndexerSafety, TLC

CONSTANTS p1, m1, o1, o2

OneOwner  == o1 :> p1 @@ o2 :> p1
OneMarket == o1 :> m1 @@ o2 :> m1

(* The binary search ends where FindDeploymentBlock says. *)
ASSUME BisectionIsRight == \A top \in 0 .. 40 : Bisection(top) = FindDeploymentBlock(top)
=============================================================================
