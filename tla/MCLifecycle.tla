----------------------------- MODULE MCLifecycle -----------------------------
(* An instance of the keeper for TLC: one order of one portfolio. *)
EXTENDS LifecycleSafety, TLC

CONSTANTS p1, m1, o1

OneOrder  == o1 :> p1
OrderOnM1 == o1 :> m1
=============================================================================
