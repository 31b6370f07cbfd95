------------------------------ MODULE MCOrders ------------------------------
(***************************************************************************)
(* Registries, policies and orders for the instances of the portfolio.    *)
(* The registry is given by functions over the markets of a run.           *)
(***************************************************************************)
EXTENDS AirspacePortfolio
LOCAL INSTANCE FiniteSetsExt

\* The sum the specification counts with is the ordinary one.
ASSUME SumIsFold ==
    \A f \in [1 .. 3 -> 0 .. 2], S \in SUBSET (1 .. 3) :
        Sum(f, S) = MapThenSumSet(LAMBDA x : f[x], S)

CONSTANTS m1, m2, p1, p2, d1, d2

\* Every market on a pool of its own, or successive markets on one pool.
OwnPool     == [m \in Markets |-> IF m = m1 THEN p1 ELSE p2]
SharedPool  == [m \in Markets |-> p1]
FirstGen    == [m \in Markets |-> 1]
Successive  == [m \in Markets |-> IF m = m1 THEN 1 ELSE 2]
SameDomain  == [m \in Markets |-> d1]
AlwaysOpen  == [m \in Markets |-> 0]
NeverCloses == [m \in Markets |-> 9]

\* Every kind of order on every market, at the given sizes.
OrdersOf(quantities, prices, gens) ==
    {[market |-> m, pool |-> PoolOf[m], marketNonce |-> g, kind |-> k,
      price |-> p, quantity |-> q, expireTimestamp |-> 1] :
        m \in Markets, g \in gens, k \in Kinds, p \in prices, q \in quantities}

OneOrTwo == OrdersOf({1, 2}, Prices, {1})
AnyGeneration == OrdersOf({1, 2}, Prices, {1, 2})

OpenGlobal ==
    [maxCommittedCapital |-> 9, maxReservedCollateral |-> 9,
     maxSingleOrderNotional |-> 9, maxBuyPrice |-> One, minSellPrice |-> 0,
     minHeadroomSec |-> 0, policyExpiry |-> 9]
OpenAgent ==
    [registered |-> TRUE, enabled |-> TRUE, maxCommitted |-> 9,
     maxOrderNotional |-> 9, maxBuyPrice |-> One, minSellPrice |-> 0,
     cooldownSec |-> 0]
Ceiling(n) ==
    [configured |-> TRUE, maxDomainRiskUsage |-> n, maxDomainCommitted |-> 0,
     maxLiveMarkets |-> 0]

\* The owner has configured and funded the portfolio: a state Init reaches by
\* the owner's calls, from which the runs about orders start.
EnvelopeInit == Fresh(OpenGlobal, Ceiling(3), OpenAgent, 4)

=============================================================================
