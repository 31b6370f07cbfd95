-------------------------- MODULE AirspacePortfolio --------------------------
(***************************************************************************)
(* contracts/src/AirspacePortfolio.sol: one contract holds the capital,    *)
(* several agents propose orders, and an order is placed only when both    *)
(* the agent's own policy and the portfolio's shared envelope admit it.    *)
(*                                                                         *)
(* A step is one transaction.  The EVM runs transactions one at a time and *)
(* execute holds a reentrancy lock, so evaluation, reservation, placement  *)
(* and reconciliation are one action; fills, cancellations, settlement and *)
(* recycling happen in the venue's own transactions, between the           *)
(* portfolio's, without its being told.                                    *)
(***************************************************************************)
EXTENDS DreamDex, Sums, Sequences

CONSTANTS
    Agents,
    Domains,         \* structural risk domains
    NoDomain,        \* domainOf's zero: no canonical cadence fits
    DomainOf,        \* the domain of a market, from its registry record
    MaxMarkets,      \* MAX_MARKETS_PER_DOMAIN
    MaxNonce,        \* largest replay nonce an agent uses
    Intents,         \* what an agent may propose, apart from its nonce
    TickSize, LotSize, MinQuantity,     \* the pools' order grid
    GlobalPolicies, DomainPolicies, AgentPolicies   \* what the owner may set

GlobalPolicyType ==
    [maxCommittedCapital : Nat, maxReservedCollateral : Nat,
     maxSingleOrderNotional : Nat, maxBuyPrice : Nat, minSellPrice : Nat,
     minHeadroomSec : Nat, policyExpiry : Nat]

DomainPolicyType ==
    [configured : BOOLEAN, maxDomainRiskUsage : Nat,
     maxDomainCommitted : Nat, maxLiveMarkets : Nat]

\* registered stands for agentPolicyHash # 0.
AgentPolicyType ==
    [registered : BOOLEAN, enabled : BOOLEAN, maxCommitted : Nat,
     maxOrderNotional : Nat, maxBuyPrice : Nat, minSellPrice : Nat,
     cooldownSec : Nat]

IntentType ==
    [market : Markets, pool : Pools, marketNonce : Gens, kind : Kinds,
     price : Prices, quantity : Nat, expireTimestamp : Nat]

ASSUME PortfolioAssumption ==
    /\ NoDomain \notin Domains
    /\ DomainOf \in [Markets -> Domains \cup {NoDomain}]
    /\ MaxMarkets \in Nat
    /\ MaxNonce \in Nat
    /\ Intents \subseteq IntentType
    /\ TickSize \in Nat \ {0} /\ LotSize \in Nat \ {0} /\ MinQuantity \in Nat
    /\ GlobalPolicies \subseteq GlobalPolicyType
    /\ DomainPolicies \subseteq DomainPolicyType
    /\ AgentPolicies \subseteq AgentPolicyType

VARIABLES
    globalPolicy, domainPolicy, agentPolicy,
    agentCommitted,      \* collateral attributed to an agent
    agentLastTradeAt,
    agentNonce,          \* highest replay nonce an agent has used
    domainMarkets,       \* the markets a domain's usage is summed over
    marketSlot,          \* 1-based position of a market in that list, or 0
    marketState,         \* pinned generation and unfilled reservations
    orderRec,            \* one record per order believed to be resting
    capitalBase,
    reservedCollateral   \* escrow behind those orders

policyVars == <<globalPolicy, domainPolicy, agentPolicy>>
agentVars  == <<agentCommitted, agentLastTradeAt, agentNonce>>
marketVars == <<domainMarkets, marketSlot, marketState>>
bookVars   == <<orderRec, reservedCollateral>>
portfolioVars == <<policyVars, agentVars, marketVars, bookVars, capitalBase>>
vars == <<venueVars, portfolioVars>>

NoReservation == [k \in Kinds |-> 0]

MarketStates ==
    [pool : Pools, marketNonce : Gens, domain : Domains \cup {NoDomain},
     open : [Kinds -> Nat], tracked : BOOLEAN, settled : BOOLEAN]

\* Storage that was never written, for every market.
Untouched(m) ==
    [pool |-> PoolOf[m], marketNonce |-> GenOf[m], domain |-> NoDomain,
     open |-> NoReservation, tracked |-> FALSE, settled |-> FALSE]

\* Mutant: the key v1 of the contract might have used.
OrderKeyWithoutGeneration(pool, nonce, id) == <<pool, 1, id>>

\* Order ids repeat when a pool is recycled, so the generation is in the key.
OrderKey(pool, nonce, id) == <<pool, nonce, id>>
OrderKeys == Pools \X Gens \X OrderIds

NoRecord == [agent |-> "none", market |-> "none", kind |-> "BUY_YES",
             qtyOpen |-> 0, collReserved |-> 0]
OrderRecs == [agent : Agents, market : Markets, kind : Kinds,
              qtyOpen : Nat \ {0}, collReserved : Nat] \cup {NoRecord}

TypeOK ==
    /\ VenueTypeOK
    /\ globalPolicy \in GlobalPolicyType
    /\ domainPolicy \in [Domains -> DomainPolicyType]
    /\ agentPolicy \in [Agents -> AgentPolicyType]
    /\ agentCommitted \in [Agents -> Nat]
    /\ agentLastTradeAt \in [Agents -> Nat]
    /\ agentNonce \in [Agents -> Nat]
    /\ domainMarkets \in [Domains -> Seq(Markets)]
    /\ marketSlot \in [Markets -> Nat]
    /\ marketState \in [Markets -> MarketStates]
    /\ orderRec \in [OrderKeys -> OrderRecs]
    /\ capitalBase \in Nat
    /\ reservedCollateral \in Nat

-----------------------------------------------------------------------------
(* Measurement: read from the chain, never accumulated.                    *)

Realized(m) ==
    LET s == marketState[m]
    IN  bal[TokenId(s.pool, s.marketNonce, "YES")]
          - bal[TokenId(s.pool, s.marketNonce, "NO")]

Up(m) == UpperBound(Realized(m), marketState[m].open)
Dn(m) == LowerBound(Realized(m), marketState[m].open)

MarketWorstCaseExposure(m) ==
    IF ~marketState[m].tracked \/ marketState[m].settled
    THEN 0
    ELSE WorstCase(Up(m), Dn(m))

DomainRiskUsage(d) ==
    LET list == domainMarkets[d]
        risk == [k \in 1 .. Len(list) |-> MarketWorstCaseExposure(list[k])]
    IN  Sum(risk, 1 .. Len(list))

LiveMarkets(d) ==
    Cardinality({k \in 1 .. Len(domainMarkets[d]) :
                    MarketWorstCaseExposure(domainMarkets[d][k]) # 0})

CommittedCapital == ClampedSub(capitalBase, free)

-----------------------------------------------------------------------------
(* Evaluation: the gates an intent passes to be admitted.                  *)

\* Mutant: the watermark itself is accepted again.
AgentGatesWithReplay(a, i) ==
    LET ap == agentPolicy[a]
    IN  /\ ap.registered
        /\ ap.enabled
        /\ globalPolicy.policyExpiry # 0
        /\ now <= globalPolicy.policyExpiry
        /\ i.nonce >= agentNonce[a]
        /\ \/ agentLastTradeAt[a] = 0
           \/ now >= agentLastTradeAt[a] + ap.cooldownSec

AgentGates(a, i) ==
    LET ap == agentPolicy[a]
    IN  /\ ap.registered
        /\ ap.enabled
        /\ globalPolicy.policyExpiry # 0
        /\ now <= globalPolicy.policyExpiry
        /\ i.nonce > agentNonce[a]
        /\ \/ agentLastTradeAt[a] = 0
           \/ now >= agentLastTradeAt[a] + ap.cooldownSec

GenerationGates(i) ==
    LET prior == marketState[i.market]
    IN  /\ prior.tracked => /\ prior.pool = i.pool
                            /\ prior.marketNonce = i.marketNonce
                            /\ prior.domain = DomainOf[i.market]
        /\ poolNonce[i.pool] = i.marketNonce

\* Mutant: only the pool is asked whether the market is over.
TradingGatesOfPool(i) ==
    LET m == i.market
    IN  /\ ~Finalized(i.pool)
        /\ TradingStart[m] <= now /\ now < Expiry[m]
        /\ Expiry[m] - now >= globalPolicy.minHeadroomSec

TradingGates(i) ==
    LET m == i.market
    IN  /\ ~Finalized(i.pool)
        /\ ~IsSettled(m)
        /\ TradingStart[m] <= now /\ now < Expiry[m]
        /\ Expiry[m] - now >= globalPolicy.minHeadroomSec

MarketGates(i) ==
    /\ Registered(i.market)
    /\ i.pool = PoolOf[i.market]
    /\ DomainOf[i.market] # NoDomain
    /\ domainPolicy[DomainOf[i.market]].configured
    /\ GenerationGates(i)
    /\ TradingGates(i)

PriceGate(a, i) ==
    IF IsBuy(i.kind)
    THEN i.price <= agentPolicy[a].maxBuyPrice /\ i.price <= globalPolicy.maxBuyPrice
    ELSE i.price >= agentPolicy[a].minSellPrice /\ i.price >= globalPolicy.minSellPrice

ReserveRequired(i) == ReserveFor(i.kind, i.price, i.quantity)

OrderGates(a, i) ==
    /\ PriceGate(a, i)
    /\ i.price % TickSize = 0
    /\ i.quantity % LotSize = 0
    /\ i.quantity >= MinQuantity
    /\ i.expireTimestamp # 0 /\ i.expireTimestamp <= Expiry[i.market]
    /\ ReserveRequired(i) <= agentPolicy[a].maxOrderNotional
    /\ ReserveRequired(i) <= globalPolicy.maxSingleOrderNotional

\* An order widens one side of the reachable interval, whatever its fate.  A
\* market that is not tracked is projected from nothing.
WorstAfter(i) ==
    LET tracked == marketState[i.market].tracked
        up == IF tracked THEN Up(i.market) ELSE 0
        dn == IF tracked THEN Dn(i.market) ELSE 0
    IN  IF i.kind \in {"BUY_YES", "SELL_NO"}
        THEN WorstCase(up + i.quantity, dn)
        ELSE WorstCase(up, dn - i.quantity)

\* Mutant: the usage of the domain's other markets is forgotten.
DomainUsageAfterOfMarket(i) == WorstAfter(i)

DomainUsageAfter(i) ==
    DomainRiskUsage(DomainOf[i.market])
      - MarketWorstCaseExposure(i.market) + WorstAfter(i)

AgentCommittedAfter(a, i) ==
    IF IsBuy(i.kind) THEN agentCommitted[a] + ReserveRequired(i) ELSE agentCommitted[a]

\* Mutant: the reserved total is compared before the order is added to it.
CollateralGatesBeforeOrder(a, i) ==
    LET dp == domainPolicy[DomainOf[i.market]]
        committedAfter == CommittedCapital + ReserveRequired(i)
    IN  /\ free >= ReserveRequired(i)
        /\ AgentCommittedAfter(a, i) <= agentPolicy[a].maxCommitted
        /\ committedAfter <= globalPolicy.maxCommittedCapital
        /\ dp.maxDomainCommitted # 0 => committedAfter <= dp.maxDomainCommitted
        /\ reservedCollateral <= globalPolicy.maxReservedCollateral

CollateralGates(a, i) ==
    LET dp == domainPolicy[DomainOf[i.market]]
        committedAfter == CommittedCapital + ReserveRequired(i)
    IN  /\ free >= ReserveRequired(i)
        /\ AgentCommittedAfter(a, i) <= agentPolicy[a].maxCommitted
        /\ committedAfter <= globalPolicy.maxCommittedCapital
        /\ dp.maxDomainCommitted # 0 => committedAfter <= dp.maxDomainCommitted
        /\ reservedCollateral + ReserveRequired(i) <= globalPolicy.maxReservedCollateral

LiveMarketsAfter(i) ==
    LiveMarkets(DomainOf[i.market])
      + IF MarketWorstCaseExposure(i.market) = 0 /\ WorstAfter(i) # 0 THEN 1 ELSE 0

CapacityGates(a, i) ==
    LET d == DomainOf[i.market]
    IN  /\ DomainUsageAfter(i) <= domainPolicy[d].maxDomainRiskUsage
        /\ marketState[i.market].tracked \/ Len(domainMarkets[d]) < MaxMarkets
        /\ IsBuy(i.kind) => CollateralGates(a, i)
        /\ domainPolicy[d].maxLiveMarkets # 0
             => LiveMarketsAfter(i) <= domainPolicy[d].maxLiveMarkets

Admissible(a, i) ==
    AgentGates(a, i) /\ MarketGates(i) /\ OrderGates(a, i) /\ CapacityGates(a, i)

-----------------------------------------------------------------------------
(* Execution.                                                              *)

\* _commitReservation for a market the portfolio does not track yet.
Pinned(i) ==
    [marketState[i.market] EXCEPT !.pool = i.pool,
                                  !.marketNonce = i.marketNonce,
                                  !.domain = DomainOf[i.market],
                                  !.tracked = TRUE]

Track(i) ==
    LET d == DomainOf[i.market]
    IN  IF marketState[i.market].tracked
        THEN UNCHANGED <<domainMarkets, marketSlot>>
        ELSE /\ domainMarkets' = [domainMarkets EXCEPT ![d] = Append(@, i.market)]
             /\ marketSlot' = [marketSlot EXCEPT ![i.market] = Len(domainMarkets[d]) + 1]

\* The whole order is reserved before it is placed and what no longer rests is
\* dropped once the book has answered.
ReservedOpen(i, resting) ==
    LET gone == i.quantity - resting
    IN  [marketState[i.market].open EXCEPT ![i.kind] = @ + i.quantity - gone]

\* Mutant: the escrow of the resting part is refunded with the unspent part.
AgentCommittedWithEscrowRefund(a, i, collOut) ==
    IF IsBuy(i.kind)
    THEN AgentCommittedAfter(a, i) - ReserveRequired(i)
    ELSE agentCommitted[a]

\* Collateral reserved and not spent comes back to the agent's account.
AgentCommittedReconciled(a, i, collOut) ==
    LET unspent == ClampedSub(ReserveRequired(i), collOut)
    IN  IF IsBuy(i.kind)
        THEN AgentCommittedAfter(a, i) - unspent
        ELSE agentCommitted[a]

\* Mutant: the part that does not rest stays reserved.
ReservedCollateralKept(i, restingEscrow) ==
    IF IsBuy(i.kind) THEN reservedCollateral + ReserveRequired(i) ELSE reservedCollateral

\* Mutant: the difference is taken off without the order having been added.
ReservedCollateralUnadded(i, restingEscrow) ==
    IF IsBuy(i.kind)
    THEN reservedCollateral - (ReserveRequired(i) - restingEscrow)
    ELSE reservedCollateral

ReservedCollateralReconciled(i, restingEscrow) ==
    IF IsBuy(i.kind)
    THEN reservedCollateral + ReserveRequired(i) - (ReserveRequired(i) - restingEscrow)
    ELSE reservedCollateral

RestingEscrow(i, resting) ==
    IF IsBuy(i.kind) THEN ReserveFor(i.kind, i.price, resting) ELSE 0

RecordResting(a, i, resting) ==
    LET key == OrderKey(i.pool, i.marketNonce, nextId[i.pool])
    IN  IF resting = 0
        THEN UNCHANGED orderRec
        ELSE orderRec' = [orderRec EXCEPT ![key] =
                [agent |-> a, market |-> i.market, kind |-> i.kind,
                 qtyOpen |-> resting, collReserved |-> RestingEscrow(i, resting)]]

\* The order is placed and the books follow what the venue did with it.
PlaceAndReconcile(a, i, filled, resting, collOut) ==
    /\ PlaceBinaryOrder(i, filled, resting, collOut)
    /\ agentNonce' = [agentNonce EXCEPT ![a] = i.nonce]
    /\ agentLastTradeAt' = [agentLastTradeAt EXCEPT ![a] = now]
    /\ Track(i)
    /\ marketState' = [marketState EXCEPT ![i.market] =
                          [Pinned(i) EXCEPT !.open = ReservedOpen(i, resting)]]
    /\ agentCommitted' = [agentCommitted EXCEPT ![a] =
                             AgentCommittedReconciled(a, i, collOut)]
    /\ reservedCollateral' =
          ReservedCollateralReconciled(i, RestingEscrow(i, resting))
    /\ RecordResting(a, i, resting)
    /\ UNCHANGED <<policyVars, capitalBase>>

\* The exact allowance caps what the venue can take at the reservation.
Execute(a, i) ==
    /\ Admissible(a, i)
    /\ \E filled, resting \in 0 .. i.quantity, collOut \in 0 .. ReserveRequired(i) :
          PlaceAndReconcile(a, i, filled, resting, collOut)

-----------------------------------------------------------------------------
(* Lifecycle calls: permissionless, decided by what the chain says.        *)

\* What the pool still holds open of a recorded order.
StillOpen(key) ==
    LET pool == key[1]
        id   == key[3]
    IN  IF poolNonce[pool] # key[2] THEN 0 ELSE LiveRemaining(pool, id)

\* Mutant: the share is rounded up.
CollateralReleasedUp(o, released) ==
    (o.collReserved * released + o.qtyOpen - 1) \div o.qtyOpen

CollateralReleased(o, released) == (o.collReserved * released) \div o.qtyOpen

ReleaseOrder(key) ==
    LET o == orderRec[key]
        released == o.qtyOpen - StillOpen(key)
        coll == CollateralReleased(o, released)
        rest == [o EXCEPT !.qtyOpen = @ - released, !.collReserved = @ - coll]
    IN  /\ o.qtyOpen # 0
        /\ StillOpen(key) < o.qtyOpen
        /\ marketState[o.market].open[o.kind] >= released    \* checked subtraction
        /\ marketState' = [marketState EXCEPT ![o.market].open[o.kind] = @ - released]
        /\ reservedCollateral' = ClampedSub(reservedCollateral, coll)
        /\ orderRec' = [orderRec EXCEPT ![key] =
                           IF rest.qtyOpen = 0 THEN NoRecord ELSE rest]
        /\ UNCHANGED <<venueVars, policyVars, agentVars, domainMarkets, marketSlot,
                       capitalBase>>

ReleaseSettled(m) ==
    /\ Registered(m)
    /\ IsSettled(m)
    /\ marketState[m].tracked
    /\ ~marketState[m].settled
    /\ marketState' = [marketState EXCEPT ![m].open = NoReservation,
                                          ![m].settled = TRUE]
    /\ UNCHANGED <<venueVars, policyVars, agentVars, domainMarkets, marketSlot,
                   bookVars, capitalBase>>

Holds(m, side) ==
    bal[TokenId(marketState[m].pool, marketState[m].marketNonce, side)] # 0

\* Mutant: the last entry is not moved.
ListCutShort(list, slot) == SubSeq(list, 1, Len(list) - 1)

\* Swap and pop: the last market takes the freed slot.
ListWithout(list, slot) ==
    SubSeq([list EXCEPT ![slot] = list[Len(list)]], 1, Len(list) - 1)

PruneMarket(m) ==
    LET s == marketState[m]
        list == domainMarkets[s.domain]
        slot == marketSlot[m]
        moved == list[Len(list)]
    IN  /\ s.tracked
        /\ s.open = NoReservation
        /\ s.settled \/ ~(Holds(m, "YES") \/ Holds(m, "NO"))
        /\ slot # 0
        /\ domainMarkets' = [domainMarkets EXCEPT ![s.domain] = ListWithout(list, slot)]
        /\ marketSlot' = [marketSlot EXCEPT ![moved] = slot, ![m] = 0]
        /\ marketState' = [marketState EXCEPT ![m].tracked = FALSE]
        /\ UNCHANGED <<venueVars, policyVars, agentVars, bookVars, capitalBase>>

-----------------------------------------------------------------------------
(* Owner surface and funding.                                              *)

SetGlobalPolicy(gp) ==
    /\ globalPolicy' = gp
    /\ UNCHANGED <<venueVars, domainPolicy, agentPolicy, agentVars, marketVars,
                   bookVars, capitalBase>>

SetDomainPolicy(d, dp) ==
    /\ domainPolicy' = [domainPolicy EXCEPT ![d] = dp]
    /\ UNCHANGED <<venueVars, globalPolicy, agentPolicy, agentVars, marketVars,
                   bookVars, capitalBase>>

SetAgent(a, ap) ==
    /\ agentPolicy' = [agentPolicy EXCEPT ![a] = [ap EXCEPT !.registered = TRUE]]
    /\ UNCHANGED <<venueVars, globalPolicy, domainPolicy, agentVars, marketVars,
                   bookVars, capitalBase>>

RevokeAgent(a) == SetAgent(a, [agentPolicy[a] EXCEPT !.enabled = FALSE])

Fund(n) ==
    /\ free + n <= MaxHeld
    /\ capitalBase + n <= MaxHeld
    /\ free' = free + n
    /\ capitalBase' = capitalBase + n
    /\ UNCHANGED <<now, poolNonce, phase, nextId, book, bal, policyVars, agentVars,
                   marketVars, bookVars>>

SetCapitalBase(n) ==
    /\ capitalBase' = n
    /\ UNCHANGED <<venueVars, policyVars, agentVars, marketVars, bookVars>>

Withdraw(n) ==
    /\ n <= free
    /\ free' = free - n
    /\ capitalBase' = ClampedSub(capitalBase, n)
    /\ UNCHANGED <<now, poolNonce, phase, nextId, book, bal, policyVars, agentVars,
                   marketVars, bookVars>>

WithdrawOutcome(t, n) ==
    /\ n <= bal[t]
    /\ bal' = [bal EXCEPT ![t] = @ - n]
    /\ UNCHANGED <<now, poolNonce, phase, nextId, book, free, portfolioVars>>

CancelOrder(p, id) == RemoveOrder(p, id) /\ UNCHANGED portfolioVars

\* What the module pays for n tokens of one side of a settled market.
Payout(m, side, n) ==
    CASE phase[m] = "voided" -> n \div 2
      [] phase[m] = "resolvedYes" -> IF side = "YES" THEN n ELSE 0
      [] OTHER -> IF side = "NO" THEN n ELSE 0

Redeem(m, side, n) ==
    LET token == TokenId(PoolOf[m], GenOf[m], side)
    IN  /\ Registered(m)
        /\ IsSettled(m)
        /\ n <= bal[token]
        /\ bal' = [bal EXCEPT ![token] = @ - n]
        /\ free' = free + Payout(m, side, n)
        /\ UNCHANGED <<now, poolNonce, phase, nextId, book, portfolioVars>>

-----------------------------------------------------------------------------

ZeroGlobalPolicy ==
    [maxCommittedCapital |-> 0, maxReservedCollateral |-> 0,
     maxSingleOrderNotional |-> 0, maxBuyPrice |-> 0, minSellPrice |-> 0,
     minHeadroomSec |-> 0, policyExpiry |-> 0]

ZeroDomainPolicy ==
    [configured |-> FALSE, maxDomainRiskUsage |-> 0, maxDomainCommitted |-> 0,
     maxLiveMarkets |-> 0]

ZeroAgentPolicy ==
    [registered |-> FALSE, enabled |-> FALSE, maxCommitted |-> 0,
     maxOrderNotional |-> 0, maxBuyPrice |-> 0, minSellPrice |-> 0,
     cooldownSec |-> 0]

\* A portfolio nobody has traded on, under these policies and with this capital.
Fresh(gp, dp, ap, funds) ==
    /\ VenueInit
    /\ free = funds
    /\ capitalBase = funds
    /\ globalPolicy = gp
    /\ domainPolicy = [d \in Domains |-> dp]
    /\ agentPolicy = [a \in Agents |-> ap]
    /\ agentCommitted = [a \in Agents |-> 0]
    /\ agentLastTradeAt = [a \in Agents |-> 0]
    /\ agentNonce = [a \in Agents |-> 0]
    /\ domainMarkets = [d \in Domains |-> <<>>]
    /\ marketSlot = [m \in Markets |-> 0]
    /\ marketState = [m \in Markets |-> Untouched(m)]
    /\ orderRec = [k \in OrderKeys |-> NoRecord]
    /\ reservedCollateral = 0

\* Storage as initialize leaves it: no policy is set and no agent registered.
Init == Fresh(ZeroGlobalPolicy, ZeroDomainPolicy, ZeroAgentPolicy, 0)

WithNonce(i, n) ==
    [market |-> i.market, pool |-> i.pool, marketNonce |-> i.marketNonce,
     kind |-> i.kind, price |-> i.price, quantity |-> i.quantity,
     expireTimestamp |-> i.expireTimestamp, nonce |-> n]

AgentNext ==
    \E a \in Agents, i \in Intents, n \in 1 .. MaxNonce : Execute(a, WithNonce(i, n))

LifecycleNext ==
    \/ \E key \in OrderKeys : ReleaseOrder(key)
    \/ \E m \in Markets : ReleaseSettled(m)
    \/ \E m \in Markets : PruneMarket(m)

OwnerNext ==
    \/ \E gp \in GlobalPolicies : SetGlobalPolicy(gp)
    \/ \E d \in Domains, dp \in DomainPolicies : SetDomainPolicy(d, dp)
    \/ \E a \in Agents, ap \in AgentPolicies : SetAgent(a, ap)
    \/ \E a \in Agents : RevokeAgent(a)
    \/ \E n \in Amounts : Fund(n) \/ SetCapitalBase(n) \/ Withdraw(n)
    \/ \E t \in TokenIds, n \in Amounts : WithdrawOutcome(t, n)
    \/ \E p \in Pools, id \in OrderIds : CancelOrder(p, id)
    \/ \E m \in Markets, side \in Sides, n \in Amounts : Redeem(m, side, n)

Next ==
    \/ AgentNext
    \/ LifecycleNext
    \/ OwnerNext
    \/ VenueNext /\ UNCHANGED portfolioVars

Spec == Init /\ [][Next]_vars

=============================================================================
