---------------------------- MODULE MCEventStore -----------------------------
(* An instance of a portfolio's event store for TLC. *)
EXTENDS EventStoreSafety

CONSTANT r1

(* The binary search ends where FindDeploymentBlock says. *)
ASSUME BisectionIsRight == \A latest \in DeployedAt .. 40 : Bisection(latest) = FindDeploymentBlock(latest)
=============================================================================
