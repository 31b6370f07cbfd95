--------------------------- MODULE PortfolioSafety ---------------------------
(***************************************************************************)
(* What AirspacePortfolio promises: its books agree with each other and    *)
(* with the venue, its exposure figures never fall below what is still     *)
(* reachable, and an admitted order leaves the envelope inside its limits. *)
(***************************************************************************)
EXTENDS AirspacePortfolio

Records == {key \in OrderKeys : orderRec[key].qtyOpen # 0}

RecordsOf(m, kind) ==
    {key \in Records : orderRec[key].market = m /\ orderRec[key].kind = kind}

QtyOpen == [key \in OrderKeys |-> orderRec[key].qtyOpen]
CollReserved == [key \in OrderKeys |-> orderRec[key].collReserved]

Resting == {o \in Pools \X OrderIds : book[o].quantityRemaining # 0}

\* The record of a resting order: ids belong to the current generation.
KeyOf(o) == OrderKey(o[1], poolNonce[o[1]], o[2])

\* The resting orders of the generation a market was pinned to.
RestingOn(m) ==
    {o \in Resting : /\ o[1] = marketState[m].pool
                     /\ poolNonce[o[1]] = marketState[m].marketNonce}

Charged(m) == marketState[m].tracked /\ ~marketState[m].settled

-----------------------------------------------------------------------------
(* Invariants.                                                             *)

\* The four reservation counters of a market that is not settled are the sums
\* of its order records: no admission, partial fill, release or recycled id
\* makes the running totals drift (execute and releaseOrder).
ReservationsMatchRecords ==
    \A m \in Markets, kind \in Kinds :
        ~marketState[m].settled =>
            marketState[m].open[kind] = Sum(QtyOpen, RecordsOf(m, kind))

\* reservedCollateral, which gates admission, is the sum of the records' own
\* reservations: the clamp in releaseOrder never hides a difference.
ReservedMatchesRecords == reservedCollateral = Sum(CollReserved, Records)

\* Every resting order of the portfolio has a record that reserves at least
\* what rests, and at least the collateral the venue holds for it, through
\* partial fills and the rounding of partial releases.
RecordsCoverOrders ==
    \A o \in Resting :
        LET r == orderRec[KeyOf(o)]
            b == book[o]
        IN  /\ r.qtyOpen >= b.quantityRemaining
            /\ r.kind = b.kind
            /\ Hosts(o[1], r.market)
            /\ IsBuy(b.kind) =>
                 r.collReserved >= ReserveFor(b.kind, b.price, b.quantityRemaining)

\* "Uncertainty overstates, never understates": whichever resting orders fill
\* and whichever come back, the position the market ends in is within the
\* exposure it is charged for.  Each order resolves on its own.
NeverUnderstates ==
    \A m \in Markets : Charged(m) =>
        LET orders == RestingOn(m)
            rests  == [o \in orders |-> book[o].quantityRemaining]
            Of(kind, S) == {o \in S : book[o].kind = kind}
            End(filled) ==
                Realized(m)
                  + Sum(rests, Of("BUY_YES", filled) \cup Of("SELL_YES", orders \ filled))
                  - Sum(rests, Of("BUY_NO", filled) \cup Of("SELL_NO", orders \ filled))
        IN  \A filled \in SUBSET orders :
                Abs(End(filled)) <= MarketWorstCaseExposure(m)

\* A domain's list is exactly its tracked markets, each once and at its slot,
\* and within the cap, through every push, swap and pop: a market counted twice
\* or lost would misstate the domain's usage.
DomainListsMatchTracking ==
    /\ \A d \in Domains :
          /\ Len(domainMarkets[d]) <= MaxMarkets
          /\ \A k \in 1 .. Len(domainMarkets[d]) :
                LET m == domainMarkets[d][k]
                IN  marketState[m].tracked /\ marketState[m].domain = d /\ marketSlot[m] = k
    /\ \A m \in Markets : marketState[m].tracked =>
          /\ marketState[m].domain \in Domains
          /\ marketSlot[m] \in 1 .. Len(domainMarkets[marketState[m].domain])
          /\ domainMarkets[marketState[m].domain][marketSlot[m]] = m

\* A tracked market is pinned to the generation that hosts it, although the
\* gate compares the intent with the pool's current generation only: a market
\* is settled or past its expiry before its pool moves on.
PinnedToItsGeneration ==
    \A m \in Markets : marketState[m].tracked =>
        /\ marketState[m].pool = PoolOf[m]
        /\ marketState[m].marketNonce = GenOf[m]
        /\ marketState[m].domain = DomainOf[m]

\* What the records reserve for an agent is attributed to that agent: the
\* refund of unspent collateral never takes more than the order added.
AttributionCoversReservations ==
    \A a \in Agents :
        Sum(CollReserved, {key \in Records : orderRec[key].agent = a}) <= agentCommitted[a]

\* "A stuck reservation overstates usage ... and any party can clear it": once
\* an order has left the book, releaseOrder on its record does not revert.
StuckReservationsClear ==
    \A key \in Records :
        LET o == orderRec[key]
            released == o.qtyOpen - StillOpen(key)
        IN  released > 0 => marketState[o.market].open[o.kind] >= released

-----------------------------------------------------------------------------
(* Action properties.                                                      *)

\* An order of m's generation was placed in this step.
PlacedOn(m) ==
    /\ Registered(m)
    /\ GenOf[m] = poolNonce[PoolOf[m]]
    /\ nextId[PoolOf[m]]' = nextId[PoolOf[m]] + 1

UsageWithinCeilingAfter(m) ==
    DomainRiskUsage(DomainOf[m])' <= domainPolicy[DomainOf[m]].maxDomainRiskUsage

\* "It never admits an intent leaving a domain over its ceiling": after the
\* placement has been reconciled, whatever part of it filled, the usage the
\* domain reports is within the ceiling.  This is what the documentation says,
\* with no condition on the market (see KnownMarketKeepsCeiling).
AdmissionKeepsCeiling ==
    [][\A m \in Markets : PlacedOn(m) => UsageWithinCeilingAfter(m)]_vars

\* The markets execute can project: tracked already, or holding none of the
\* outcome tokens of their generation before the first order.
Projectable(m) ==
    \/ marketState[m].tracked
    \/ \A side \in Sides : bal[TokenId(PoolOf[m], GenOf[m], side)] = 0

\* The same for the markets execute can project.
KnownMarketKeepsCeiling ==
    [][\A m \in Markets :
          PlacedOn(m) /\ Projectable(m) => UsageWithinCeilingAfter(m)]_vars

\* An agent that trades again stays within its own share; an order that raises
\* the escrow or the commitment leaves both within the limits, the global ones
\* and its domain's, whoever used the rest of them up; and the markets at risk
\* stay within the domain's number, if the order's own can be projected.
AdmissionKeepsBudgets ==
    [][/\ \A a \in Agents : agentNonce[a]' # agentNonce[a] =>
             /\ agentCommitted[a]' > agentCommitted[a] =>
                  agentCommitted[a]' <= agentPolicy[a].maxCommitted
             /\ reservedCollateral' > reservedCollateral =>
                  reservedCollateral' <= globalPolicy.maxReservedCollateral
             /\ CommittedCapital' > CommittedCapital =>
                  CommittedCapital' <= globalPolicy.maxCommittedCapital
       /\ \A m \in Markets : PlacedOn(m) =>
             LET dp == domainPolicy[DomainOf[m]]
             IN  /\ dp.maxDomainCommitted # 0 /\ CommittedCapital' > CommittedCapital
                      => CommittedCapital' <= dp.maxDomainCommitted
                 /\ dp.maxLiveMarkets # 0 /\ Projectable(m)
                      => LiveMarkets(DomainOf[m])' <= dp.maxLiveMarkets]_vars

\* Every placement uses up one nonce of one agent, and a used nonce is never
\* seen again: no intent is executed twice.
OneOrderPerNonce ==
    [][/\ \A a \in Agents : agentNonce[a]' >= agentNonce[a]
       /\ (\E m \in Markets : PlacedOn(m)) =>
            Cardinality({a \in Agents : agentNonce[a]' > agentNonce[a]}) = 1]_vars

\* Releasing and pruning can only move the books towards the chain: a step
\* that neither trades nor moves a token never raises a domain's usage.
UsageRisesOnlyWithOrders ==
    [][UNCHANGED <<bal, agentNonce>> =>
          \A d \in Domains : DomainRiskUsage(d)' <= DomainRiskUsage(d)]_vars

=============================================================================
