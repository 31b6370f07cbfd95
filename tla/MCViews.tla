------------------------------ MODULE MCViews -------------------------------
(* Instances of a portfolio's views for TLC: the markets, policies and orders
   are those of MCOrders. *)
EXTENDS MCOrders, ViewsSafety
LOCAL INSTANCE SequencesExt

ClosesSoon  == [m \in Markets |-> 2]
YesSides    == {i \in OrdersOf({2}, Prices, {1}) : i.kind \in {"BUY_YES", "SELL_YES"}}
Unset       == [configured |-> FALSE, maxDomainRiskUsage |-> 0, maxDomainCommitted |-> 0, maxLiveMarkets |-> 0]
SomePolicies == {Unset}
SomeAgents   == {OpenAgent}
SomeGlobals  == {OpenGlobal}

(* Bound: what the owner sets or moves late is the last thing that happens. *)
OwnerFirst ==
  \A n \in 4 .. Len(log) : log[n].name \in
    {"MarketTracked", "IntentAdmitted", "IntentReconciled", "ReservationReleased",
     "SettledExposureReleased", "MarketPruned", "Redeemed"}

(* Configured and funded, as the log says. *)
InitConfigured ==
  /\ EnvelopeInit
  /\ log = SetToSeq({AgentSet(a) : a \in Agents}) \o SetToSeq({DomainPolicySet(d, TRUE) : d \in Domains})
  /\ ask = NoRequest

MCSpec == InitConfigured /\ [][ViewsNext]_viewVars
=============================================================================
