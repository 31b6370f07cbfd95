----------------------------- MODULE MCPortfolio -----------------------------
(***************************************************************************)
(* Instances of the portfolio for TLC.  The owner's policies are generous  *)
(* except where the run is about them.                                     *)
(***************************************************************************)
EXTENDS MCOrders, AdmissionView, RiskVerifier, TLC

\* Everybody's steps but the owner's settings and transfers.
\* An agent takes its nonces in turn here; PolicySpec lets it skip some.
TradingNext ==
    \/ \E a \in Agents, i \in Intents :
          /\ agentNonce[a] < MaxNonce
          /\ Execute(a, WithNonce(i, agentNonce[a] + 1))
    \/ LifecycleNext
    \/ \E p \in Pools, id \in OrderIds : CancelOrder(p, id)
    \/ VenueNext /\ UNCHANGED portfolioVars

EnvelopeSpec == EnvelopeInit /\ [][TradingNext]_vars

AgentSymmetry  == Permutations(Agents)

-----------------------------------------------------------------------------
\* The run about the owner's settings starts from Init and lets everybody do
\* everything; the limits are tight enough for each of them to refuse something.
BriefWindow == [m \in Markets |-> 3]
TightGlobal == [OpenGlobal EXCEPT !.maxCommittedCapital = 1,
                                  !.maxReservedCollateral = 1,
                                  !.minHeadroomSec = 2, !.policyExpiry = 1]
LooseGlobal == [TightGlobal EXCEPT !.maxCommittedCapital = 2,
                                   !.maxReservedCollateral = 2,
                                   !.minHeadroomSec = 1, !.policyExpiry = 2]
MCGlobalPolicies == {TightGlobal, LooseGlobal}
MCDomainPolicies == {[Ceiling(4) EXCEPT !.maxDomainCommitted = 2, !.maxLiveMarkets = 1]}
MCAgentPolicies  == {[OpenAgent EXCEPT !.maxCommitted = 1, !.cooldownSec = 1]}
TwoContracts == {i \in OrdersOf({2}, {1}, {1}) : i.kind \in {"BUY_YES", "SELL_YES"}}

\* Nothing is admitted once the market is settled, so the run looks at settled
\* markets under one setting only.
SettledLast ==
    \A m \in Markets : IsSettled(m) /\ globalPolicy # OpenGlobal =>
        /\ now = MaxTime /\ globalPolicy = LooseGlobal
        /\ \A a \in Agents : agentPolicy[a].enabled

=============================================================================
