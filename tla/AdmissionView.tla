---------------------------- MODULE AdmissionView ----------------------------
(***************************************************************************)
(* The answer of previewIntent and what the product makes of it.           *)
(*                                                                         *)
(* _evaluate stops at the first gate that refuses and hands out the code   *)
(* of that gate with the mask of the gates it had passed; the risk package *)
(* turns both into the rows of the gate stack.  AirspacePortfolio states   *)
(* the same gates as one conjunction, Admissible, which is what execute    *)
(* enforces; here they have their order.                                   *)
(***************************************************************************)
EXTENDS PortfolioSafety

\* The codes in the order in which _evaluate and _projectCapacity can return
\* them, and the bits of the mask that are set once a code has been passed.
Order ==
    << "NOT_AGENT", "AGENT_DISABLED", "POLICY_EXPIRED", "INTENT_REPLAYED", "COOLDOWN_ACTIVE",
       "MARKET_NOT_FOUND", "POOL_MISMATCH", "DOMAIN_UNSUPPORTED", "DOMAIN_NOT_CONFIGURED",
       "MARKET_GENERATION_MISMATCH", "MARKET_NOT_TRADING", "INSUFFICIENT_HEADROOM",
       "PRICE_OUTSIDE_POLICY", "OFF_TICK_GRID", "OFF_LOT_GRID", "BELOW_MIN_QUANTITY",
       "ORDER_EXPIRY_INVALID", "AGENT_ORDER_NOTIONAL_EXCEEDED",
       "GLOBAL_ORDER_NOTIONAL_EXCEEDED", "DOMAIN_RISK_EXCEEDED", "DOMAIN_MARKETS_FULL",
       "INSUFFICIENT_COLLATERAL", "AGENT_COMMITTED_EXCEEDED", "GLOBAL_COMMITTED_EXCEEDED",
       "DOMAIN_COMMITTED_EXCEEDED", "GLOBAL_RESERVED_EXCEEDED", "MAX_LIVE_MARKETS_EXCEEDED" >>

Gate ==
    [AGENT_REGISTERED |-> "NOT_AGENT", AGENT_POLICY |-> "COOLDOWN_ACTIVE",
     MARKET_RESOLVED |-> "MARKET_NOT_FOUND", DOMAIN_CONFIGURED |-> "DOMAIN_NOT_CONFIGURED",
     GENERATION |-> "MARKET_GENERATION_MISMATCH", MARKET_TRADING |-> "MARKET_NOT_TRADING",
     HEADROOM |-> "INSUFFICIENT_HEADROOM", PRICE |-> "PRICE_OUTSIDE_POLICY",
     GRID |-> "ORDER_EXPIRY_INVALID", DOMAIN_CAPACITY |-> "DOMAIN_RISK_EXCEEDED",
     GLOBAL_CAPACITY |-> "GLOBAL_RESERVED_EXCEEDED"]

\* Whether the gate that refuses with a code lets the intent pass.
AgentPasses(a, i, code) ==
    LET ap == agentPolicy[a]
        last == agentLastTradeAt[a]
    IN  CASE code = "NOT_AGENT"       -> ap.registered
          [] code = "AGENT_DISABLED"  -> ap.enabled
          [] code = "POLICY_EXPIRED"  -> globalPolicy.policyExpiry # 0 /\ now <= globalPolicy.policyExpiry
          [] code = "INTENT_REPLAYED" -> i.nonce > agentNonce[a]
          [] code = "COOLDOWN_ACTIVE" -> last = 0 \/ now >= last + ap.cooldownSec

MarketPasses(i, code) ==
    LET m == i.market
    IN  CASE code = "MARKET_NOT_FOUND"      -> Registered(m)
          [] code = "POOL_MISMATCH"         -> i.pool = PoolOf[m]
          [] code = "DOMAIN_UNSUPPORTED"    -> DomainOf[m] # NoDomain
          [] code = "DOMAIN_NOT_CONFIGURED" -> domainPolicy[DomainOf[m]].configured
          [] code = "MARKET_GENERATION_MISMATCH" -> GenerationGates(i)
          [] code = "MARKET_NOT_TRADING"    -> /\ ~Finalized(i.pool) /\ ~IsSettled(m)
                                               /\ TradingStart[m] <= now /\ now < Expiry[m]
          [] code = "INSUFFICIENT_HEADROOM" -> Expiry[m] - now >= globalPolicy.minHeadroomSec

OrderPasses(a, i, code) ==
    CASE code = "PRICE_OUTSIDE_POLICY" -> PriceGate(a, i)
      [] code = "OFF_TICK_GRID"        -> i.price % TickSize = 0
      [] code = "OFF_LOT_GRID"         -> i.quantity % LotSize = 0
      [] code = "BELOW_MIN_QUANTITY"   -> i.quantity >= MinQuantity
      [] code = "ORDER_EXPIRY_INVALID" ->
            i.expireTimestamp # 0 /\ i.expireTimestamp <= Expiry[i.market]
      [] code = "AGENT_ORDER_NOTIONAL_EXCEEDED"  -> ReserveRequired(i) <= agentPolicy[a].maxOrderNotional
      [] code = "GLOBAL_ORDER_NOTIONAL_EXCEEDED" -> ReserveRequired(i) <= globalPolicy.maxSingleOrderNotional

\* A sell passes the gates of the collateral unasked.
CollateralPasses(a, i, code) ==
    LET dp == domainPolicy[DomainOf[i.market]]
        committedAfter == CommittedCapital + ReserveRequired(i)
    IN  CASE code = "INSUFFICIENT_COLLATERAL"   -> free >= ReserveRequired(i)
          [] code = "AGENT_COMMITTED_EXCEEDED"  -> AgentCommittedAfter(a, i) <= agentPolicy[a].maxCommitted
          [] code = "GLOBAL_COMMITTED_EXCEEDED" -> committedAfter <= globalPolicy.maxCommittedCapital
          [] code = "DOMAIN_COMMITTED_EXCEEDED" ->
                dp.maxDomainCommitted # 0 => committedAfter <= dp.maxDomainCommitted
          [] code = "GLOBAL_RESERVED_EXCEEDED"  ->
                reservedCollateral + ReserveRequired(i) <= globalPolicy.maxReservedCollateral

CapacityPasses(a, i, code) ==
    LET d == DomainOf[i.market]
    IN  CASE code = "DOMAIN_RISK_EXCEEDED" -> DomainUsageAfter(i) <= domainPolicy[d].maxDomainRiskUsage
          [] code = "DOMAIN_MARKETS_FULL"  ->
                marketState[i.market].tracked \/ Len(domainMarkets[d]) < MaxMarkets
          [] code = "MAX_LIVE_MARKETS_EXCEEDED" ->
                domainPolicy[d].maxLiveMarkets # 0 => LiveMarketsAfter(i) <= domainPolicy[d].maxLiveMarkets
          [] OTHER -> IsBuy(i.kind) => CollateralPasses(a, i, code)

Passes(a, i, k) ==
    CASE k \in 1 .. 5   -> AgentPasses(a, i, Order[k])
      [] k \in 6 .. 12  -> MarketPasses(i, Order[k])
      [] k \in 13 .. 19 -> OrderPasses(a, i, Order[k])
      [] k \in 20 .. 27 -> CapacityPasses(a, i, Order[k])

\* previewIntent: the code of the first gate that fails, and the bits before it.
Preview(a, i) ==
    LET n == Len(Order)
        stop == IF \A k \in 1 .. n : Passes(a, i, k) THEN n + 1
                ELSE CHOOSE k \in 1 .. n : /\ ~Passes(a, i, k)
                                           /\ \A j \in 1 .. k - 1 : Passes(a, i, j)
    IN  [refusal |-> IF stop > n THEN "NONE" ELSE Order[stop],
         gates |-> {bit \in DOMAIN Gate : \E k \in 1 .. stop - 1 : Order[k] = Gate[bit]}]

-----------------------------------------------------------------------------
(* explainAdmission: rows of the stack, in the order they are shown.       *)

\* Mutant: the limits of the portfolio are filed under the domain, which has no row.
RefusalGateWithoutPortfolio(refusal) ==
    IF refusal \in {"INTENT_REPLAYED", "COOLDOWN_ACTIVE", "POLICY_EXPIRED", "NOT_AGENT"}
    THEN "agent" ELSE "domain"

RefusalGate(refusal) ==
    CASE refusal \in {"NOT_AGENT", "AGENT_DISABLED", "POLICY_EXPIRED", "INTENT_REPLAYED",
                      "COOLDOWN_ACTIVE", "AGENT_ORDER_NOTIONAL_EXCEEDED",
                      "AGENT_COMMITTED_EXCEEDED"} -> "agent"
      [] refusal \in {"MARKET_NOT_FOUND", "MARKET_NOT_TRADING"} -> "market"
      [] refusal \in {"POOL_MISMATCH", "MARKET_GENERATION_MISMATCH"} -> "generation"
      [] refusal = "INSUFFICIENT_HEADROOM" -> "headroom"
      [] refusal \in {"DOMAIN_UNSUPPORTED", "DOMAIN_NOT_CONFIGURED"} -> "domain"
      [] refusal = "PRICE_OUTSIDE_POLICY" -> "price"
      [] refusal \in {"OFF_TICK_GRID", "OFF_LOT_GRID", "BELOW_MIN_QUANTITY",
                      "ORDER_EXPIRY_INVALID"} -> "grid"
      [] OTHER -> "portfolio"

\* No row has the key "domain", and none shows the bit GLOBAL_CAPACITY.
GateRows ==
    << [key |-> "agent", bit |-> "AGENT_POLICY"], [key |-> "market", bit |-> "MARKET_TRADING"],
       [key |-> "generation", bit |-> "GENERATION"], [key |-> "grid", bit |-> "GRID"],
       [key |-> "price", bit |-> "PRICE"], [key |-> "headroom", bit |-> "HEADROOM"],
       [key |-> "portfolio", bit |-> "DOMAIN_CAPACITY"] >>

\* The row of the gate that refused, if it has one.
BlockedRow(view) ==
    LET rows == {k \in 1 .. Len(GateRows) : GateRows[k].key = RefusalGate(view.refusal)}
    IN  IF view.refusal = "NONE" \/ rows = {} THEN 0 ELSE CHOOSE k \in rows : TRUE

\* What the stack shows in a row: rows above the blocking one are set to PASS,
\* rows below it are not shown as results.
Shown(view, k) ==
    LET block == BlockedRow(view)
        pass == \/ GateRows[k].bit \in view.gates
                \/ block # 0 /\ k < block
    IN  IF block # 0 /\ k > block THEN "not reached"
        ELSE IF pass THEN "PASS" ELSE "FAIL"

Highlighted(view) == IF BlockedRow(view) = 0 THEN {} ELSE {BlockedRow(view)}

\* The headline above the stack.
Verdict(view) == IF view.refusal = "NONE" THEN "Admitted" ELSE "Blocked"

\* The form asks about any order of any agent; the route numbers it.  An agent
\* may also send the same order again, with the nonce it had.
Previewed ==
    {<<a, WithNonce(i, agentNonce[a] + next)>> : a \in Agents, i \in Intents, next \in {0, 1}}

-----------------------------------------------------------------------------
(* What the preview promises.                                              *)

\* Who sees every row of the stack pass and none highlighted sees an intent that
\* execute would admit now, and the other way round: evaluated gate by gate, the
\* preview takes the decision that is enforced, and no refusal, whatever row it
\* is filed under, looks like an admission (previewIntent, explainAdmission,
\* GateStack, Verdict).  The headline says the same as the rows.
CleanStackMeansAdmitted ==
    \A q \in Previewed :
        LET view == Preview(q[1], q[2])
            clean == /\ \A k \in 1 .. Len(GateRows) : Shown(view, k) = "PASS"
                     /\ Highlighted(view) = {}
        IN  /\ clean <=> Admissible(q[1], q[2])
            /\ clean <=> Verdict(view) = "Admitted"

=============================================================================
