-------------------------------- MODULE Sums --------------------------------
(***************************************************************************)
(* The sum of a natural-valued function over a finite set, written as the  *)
(* number of points below its graph.  The definition is not recursive, so  *)
(* what the rest of the project says with it can be proved as well as      *)
(* evaluated (PortfolioProofs has its laws, MCPortfolio compares it with   *)
(* the community modules' fold).                                           *)
(***************************************************************************)
EXTENDS Integers, FiniteSets

Column(f, x) == {x} \X (1 .. f[x])

Sum(f, S) == Cardinality(UNION {Column(f, x) : x \in S})

=============================================================================
