------------------------------ MODULE RiskRound ------------------------------
(***************************************************************************)
(* scripts/risk-verifier.mjs, the watch: rounds whose reads are taken one  *)
(* after the other at the latest block, while the contract and the venue   *)
(* move on between them.  A step is one awaited read, or one transaction   *)
(* of the portfolio and its venue.                                         *)
(***************************************************************************)
EXTENDS RiskVerifier

VARIABLE round

roundVars == <<vars, round>>

\* What a round has read so far.  Two fields are history: the markets whose
\* verdict the chain has overtaken since the round began, and those accused.
Idle ==
    [stage     |-> "idle",
     domains   |-> {},                      \* still to be sampled
     markets   |-> <<>>,                    \* left of the domain at hand
     index     |-> {},                      \* the orders the logs named
     accounted |-> 0,                       \* the contract's figure for the market
     unread    |-> {},                      \* balances under way
     held      |-> [side \in Sides |-> 0],
     left      |-> {},                      \* orders still to be looked up
     live      |-> [kind \in Kinds |-> 0],  \* found open so far
     moved     |-> {},
     accused   |-> {}]

UnderWay == round.stage \in {"domains", "market", "figures"}

\* The market at hand.
Current == Head(round.markets)

-----------------------------------------------------------------------------

\* A new round of the watch: the logs up to the round's block give the index,
\* but for the ranges whose read failed.
StartRound(missed) ==
    /\ round.stage = "idle"
    /\ round' = [Idle EXCEPT
          !.stage = "domains",
          !.domains = Domains,
          !.index = {o \in Pools \X OrderIds : o[2] < nextId[o[1]]} \ missed,
          !.moved = {m \in Markets : poolNonce[PoolOf[m]] # GenOf[m]}]

\* The list of a domain's markets; its usage, read with it, is only displayed.
ReadDomain(d) ==
    /\ round.stage = "domains" /\ round.markets = <<>>
    /\ d \in round.domains
    /\ round' = [round EXCEPT !.domains = @ \ {d}, !.markets = domainMarkets[d]]

\* marketState: a market the contract leaves out of its sum is passed over.
ReadMarket ==
    /\ round.stage = "domains" /\ round.markets # <<>>
    /\ round' = IF Charged(Current)
                THEN [round EXCEPT !.stage = "market"]
                ELSE [round EXCEPT !.markets = Tail(@)]

ReadAccounted ==
    /\ round.stage = "market"
    /\ round' = [round EXCEPT
          !.stage = "figures",
          !.accounted = MarketWorstCaseExposure(Current),
          !.unread = Sides,
          !.left = {o \in round.index : o[1] = PoolOf[Current]},
          !.live = Idle.live]

\* The two balances are asked for together and answered in any order.
ReadBalance(side) ==
    /\ round.stage = "figures"
    /\ side \in round.unread
    /\ round' = [round EXCEPT
          !.unread = @ \ {side},
          !.held[side] = bal[TokenId(PoolOf[Current], GenOf[Current], side)]]

\* Mutant: the orders are asked for together with the balances.
OrdersTurnAtOnce == TRUE

\* The orders are looked up once both balances are there.
OrdersTurn == round.unread = {}

\* getOrder, one order after the other: an order that is gone and a read that
\* failed are both nothing.
ReadOrder(found) ==
    LET o == CHOOSE first \in round.left : \A other \in round.left : first[2] <= other[2]
    IN  /\ round.stage = "figures" /\ OrdersTurn /\ round.left # {}
        /\ round' = [round EXCEPT
              !.left = @ \ {o},
              !.live[book[o].kind] = IF found THEN @ + LiveRemaining(o[1], o[2]) ELSE @]

\* The market's figures are there, and it understates or it does not.
Judge ==
    LET understates == round.accounted
                         < WorstEnd(round.held["YES"], round.held["NO"], round.live)
    IN  /\ round.stage = "figures" /\ round.unread = {} /\ round.left = {}
        /\ round' = [Idle EXCEPT
              !.stage = "domains",
              !.domains = round.domains,
              !.markets = Tail(round.markets),
              !.index = round.index,
              !.moved = round.moved,
              !.accused = IF understates THEN round.accused \cup {Current} ELSE round.accused]

\* One critical domain stops the campaign, else the next round comes.
EndRound ==
    /\ round.stage = "domains" /\ round.markets = <<>> /\ round.domains = {}
    /\ round' = IF round.accused = {}
                THEN Idle
                ELSE [Idle EXCEPT !.stage = "stopped", !.moved = round.moved,
                                  !.accused = round.accused]

\* Any other read that fails ends the round without a verdict.
AbandonRound ==
    /\ \/ round.stage = "domains" /\ (round.markets # <<>> \/ round.domains # {})
       \/ round.stage = "market"
       \/ round.stage = "figures" /\ round.unread # {}
    /\ round' = Idle

RoundStep ==
    \/ \E missed \in SUBSET (Pools \X OrderIds) : StartRound(missed)
    \/ \E d \in Domains : ReadDomain(d)
    \/ ReadMarket
    \/ ReadAccounted
    \/ \E side \in Sides : ReadBalance(side)
    \/ \E found \in BOOLEAN : ReadOrder(found)
    \/ Judge
    \/ EndRound
    \/ AbandonRound

-----------------------------------------------------------------------------

\* What overtakes a verdict on m: an order is placed on its pool or the pool
\* moves on, its settlement is booked, or its tokens come or go without a trade.
Overtakes(m) ==
    \/ <<poolNonce[PoolOf[m]], nextId[PoolOf[m]]>>' # <<poolNonce[PoolOf[m]], nextId[PoolOf[m]]>>
    \/ marketState[m].settled' # marketState[m].settled
    \/ /\ book' = book
       /\ \E side \in Sides :
             bal[TokenId(PoolOf[m], GenOf[m], side)]' # bal[TokenId(PoolOf[m], GenOf[m], side)]

Follow ==
    round' = IF UnderWay
             THEN [round EXCEPT !.moved = @ \cup {m \in Markets : Overtakes(m)}]
             ELSE round

RoundNext ==
    \/ RoundStep /\ UNCHANGED vars
    \/ Next /\ Follow

RoundSpec == Init /\ round = Idle /\ [][RoundNext]_roundVars

-----------------------------------------------------------------------------

\* A round accuses a market only when, while the round lasted, an order was
\* placed on its pool, its tokens came or went without a trade, its settlement
\* was booked or its pool moved on.  Fills, cancellations, drained orders and
\* released reservations may fall between any two reads, logs and orders may be
\* missed: they never make it cry wolf (sample, readVenueReservations).
AccusesOnlyTheOvertaken == round.accused \subseteq round.moved

=============================================================================
