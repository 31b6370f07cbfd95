----------------------------- MODULE RiskVerifier -----------------------------
(***************************************************************************)
(* scripts/risk-verifier.mjs: the campaign's independent check of the      *)
(* contract's exposure figure.  It takes balances from the token, open     *)
(* quantities from the pool, one order at a time, and order ids from the   *)
(* IntentAdmitted logs, and looks for the worst end of every market by     *)
(* enumeration.  It stops the campaign when the contract charges less.     *)
(*                                                                         *)
(* This module is a sample of one block, as --block takes it: every read   *)
(* names the same block.  RiskRound has the rounds of a watch, whose reads *)
(* come one after the other.                                               *)
(***************************************************************************)
EXTENDS PortfolioSafety

\* buildOrderIndex: the logs of the generation the pool is in name the ids it
\* has given out, but for the orders the verifier misses: those of a range of
\* logs whose read failed, those placed after the index was built, and those
\* whose own read fails, which counts as nothing open.
OrderIndex(m, missed) ==
    {o \in Pools \X OrderIds :
        o[1] = PoolOf[m] /\ o[2] < nextId[o[1]] /\ o \notin missed}

\* readVenueReservations: filled, cancelled and expired orders read as nothing.
VenueLive(m, missed) ==
    LET remaining == [o \in OrderIndex(m, missed) |-> LiveRemaining(o[1], o[2])]
        Live(kind) == Sum(remaining, {o \in DOMAIN remaining : book[o].kind = kind})
    IN  [BUY_YES |-> Live("BUY_YES"), SELL_YES |-> Live("SELL_YES"),
         BUY_NO |-> Live("BUY_NO"), SELL_NO |-> Live("SELL_NO")]

\* Mutant: a resting sell is taken for filled, its escrow never comes back.
DirectionSellsFilled(yes, no, live, fills) ==
    Abs((yes + (IF "BUY_YES" \in fills THEN live["BUY_YES"] ELSE 0))
          - (no + (IF "BUY_NO" \in fills THEN live["BUY_NO"] ELSE 0)))

\* One way for the four groups of orders to end: those in fills fill, the
\* others fall away and a sell's escrow returns.
Direction(yes, no, live, fills) ==
    Abs((yes + (IF "BUY_YES" \in fills THEN live["BUY_YES"] ELSE 0)
             + (IF "SELL_YES" \in fills THEN 0 ELSE live["SELL_YES"]))
          - (no + (IF "BUY_NO" \in fills THEN live["BUY_NO"] ELSE 0)
                + (IF "SELL_NO" \in fills THEN 0 ELSE live["SELL_NO"])))

\* The largest of the sixteen.
WorstEnd(yes, no, live) ==
    LET ends == {Direction(yes, no, live, fills) : fills \in SUBSET Kinds}
    IN  CHOOSE worst \in ends : \A e \in ends : e <= worst

IndependentWorstCase(m, missed) ==
    LET Held(side) == bal[TokenId(marketState[m].pool, marketState[m].marketNonce, side)]
    IN  WorstEnd(Held("YES"), Held("NO"), VenueLive(m, missed))

\* The markets sample looks at: the contract leaves the others out of its sum.
Sampled(d) ==
    {m \in Markets : /\ \E k \in 1 .. Len(domainMarkets[d]) : domainMarkets[d][k] = m
                     /\ Charged(m)}

\* report: a domain understates when one of its markets or their total does.
Understates(d, missed) ==
    LET independent == [m \in Sampled(d) |-> IndependentWorstCase(m, missed)]
        accounted == [m \in Sampled(d) |-> MarketWorstCaseExposure(m)]
    IN  \/ \E m \in Sampled(d) : accounted[m] < independent[m]
        \/ Sum(accounted, Sampled(d)) < Sum(independent, Sampled(d))

\* reportedUsage and the sum of what the markets are charged.
UsageMismatch(d) ==
    DomainRiskUsage(d)
      # Sum([m \in Sampled(d) |-> MarketWorstCaseExposure(m)], Sampled(d))

\* One domain that understates is critical.
RunOnce(domains, missed) ==
    \E d \in domains : /\ Sampled(d) # {} \/ DomainRiskUsage(d) # 0
                       /\ Understates(d, missed)

-----------------------------------------------------------------------------

\* The index knows a market's own orders only while its pool has not moved on.
OnItsGeneration(d) ==
    \A m \in Sampled(d) : poolNonce[marketState[m].pool] = marketState[m].marketNonce

\* The verdict on one block is right, both ways: no false alarm and no mismatch,
\* whichever orders the index or the reads miss, and when they miss none its
\* sixteen masks reach whatever the orders can do each on its own, so that a
\* contract that charged less would be caught (independentWorstCase, report,
\* runOnce with a block number).
VerifierJudgesRight ==
    LET judged == {d \in Domains : OnItsGeneration(d)}
    IN  /\ \A missed \in SUBSET (Pools \X OrderIds) : ~RunOnce(judged, missed)
        /\ \A d \in judged : ~UsageMismatch(d)
        /\ \A m \in UNION {Sampled(d) : d \in judged} :
              LET worst == IndependentWorstCase(m, {})
                  orders == RestingOn(m)
                  rests  == [o \in orders |-> book[o].quantityRemaining]
                  Of(kind, S) == {o \in S : book[o].kind = kind}
                  End(filled) ==
                      Realized(m)
                        + Sum(rests, Of("BUY_YES", filled) \cup Of("SELL_YES", orders \ filled))
                        - Sum(rests, Of("BUY_NO", filled) \cup Of("SELL_NO", orders \ filled))
              IN  \A filled \in SUBSET orders : Abs(End(filled)) <= worst

=============================================================================
