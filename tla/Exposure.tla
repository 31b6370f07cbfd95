------------------------------ MODULE Exposure ------------------------------
(***************************************************************************)
(* The exposure arithmetic of AirspacePortfolio.sol: what an order escrows *)
(* and the interval of directional positions a market can still reach.     *)
(* Quantities and prices are naturals; One is the collateral value of one  *)
(* winning outcome token (oneCollateral).                                  *)
(***************************************************************************)
EXTENDS Integers

CONSTANT One

ASSUME OneAssumption == One \in Nat \ {0}

\* The four order kinds, in the order of Intent.kind (0 to 3).
Kinds == {"BUY_YES", "SELL_YES", "BUY_NO", "SELL_NO"}

IsBuy(kind) == kind \in {"BUY_YES", "BUY_NO"}
IsYes(kind) == kind \in {"BUY_YES", "SELL_YES"}

Larger(x, y) == IF x >= y THEN x ELSE y

\* Solidity's  x > y ? x - y : 0.
ClampedSub(x, y) == IF x > y THEN x - y ELSE 0

Abs(x) == IF x >= 0 THEN x ELSE -x

\* The price an order pays per contract: the price is quoted on the YES side.
UnitPrice(kind, price) == IF IsYes(kind) THEN price ELSE One - price

\* Collateral an order of this size can cost, rounded up.
ReserveFor(kind, price, quantity) ==
    (UnitPrice(kind, price) * quantity + One - 1) \div One

-----------------------------------------------------------------------------
(* The reachable interval.  open[k] is the unfilled quantity of kind k and   *)
(* b the realized position (YES balance minus NO balance, sells escrowed).   *)

\* Mutant: the netting of v1, where opposite orders cancel out.
UpperBoundNetted(b, open) ==
    b + open["BUY_YES"] + open["SELL_YES"] - open["BUY_NO"] - open["SELL_NO"]

UpperBound(b, open) == b + open["BUY_YES"] + open["SELL_YES"]
LowerBound(b, open) == b - open["BUY_NO"] - open["SELL_NO"]

WorstCase(up, dn) == Larger(Abs(up), Abs(dn))

=============================================================================
