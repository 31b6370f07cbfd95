--------------------------- MODULE PortfolioViews ---------------------------
(***************************************************************************)
(* What the API shows of a portfolio: rows folded from the logs that the   *)
(* contract has emitted, each measured again against the contract and the  *)
(* venue before it is answered.  The contract is the module                *)
(* AirspacePortfolio with its log.  The integrity check is a request of    *)
(* several reads, between which transactions are mined.                    *)
(***************************************************************************)
EXTENDS AirspacePortfolio
Seqs == INSTANCE SequencesExt

CONSTANTS
  MaxBehind,   \* how many transactions a history may lack and count as current
  PageSize,    \* rows of a page of the exposure page
  MaxRows,     \* rows that one answer holds at most: a hundred
  MaxLog       \* bound: transactions that emit logs

(* Agents are addresses and domains are hashes of fixed width. *)
ASSUME ViewsAssumption == /\ {MaxBehind, MaxLog} \subseteq Nat /\ {PageSize, MaxRows} \subseteq Nat \ {0}
                          /\ IsFiniteSet(Agents) /\ IsFiniteSet(Domains)

VARIABLES
  log,   \* the portfolio's logs, in the order of execution
  ask    \* the integrity request under way

viewVars == <<vars, log, ask>>

-----------------------------------------------------------------------------
(* The contract's logs, as toStoredEvent keeps them *)

MarketTracked(m, d)        == [name |-> "MarketTracked", market |-> m, domain |-> d]
MarketPruned(m)            == [name |-> "MarketPruned", market |-> m]
Redeemed(m)                == [name |-> "Redeemed", market |-> m]
SettledExposureReleased(m) == [name |-> "SettledExposureReleased", market |-> m]
AgentSet(a)                == [name |-> "AgentSet", agent |-> a]
AgentRevoked(a)            == [name |-> "AgentRevoked", agent |-> a]
DomainPolicySet(d, c)      == [name |-> "DomainPolicySet", domain |-> d, configured |-> c]

(* Logs that no fold reads: GlobalPolicySet, Funded, CapitalBaseSet, Withdrawn, OutcomeWithdrawn *)
Unread(name) == [name |-> name]

(* An intent's hash stands for its agent and its nonce, which are in it. *)
IntentAdmitted(hash, i, id) ==
  [name |-> "IntentAdmitted", intent |-> hash, market |-> i.market, domain |-> DomainOf[i.market],
   pool |-> i.pool, marketNonce |-> i.marketNonce, kind |-> i.kind, orderId |-> id]
IntentReconciled(hash, reserve, resting) ==
  [name |-> "IntentReconciled", intent |-> hash, reserveRequired |-> reserve, restingQty |-> resting]
ReservationReleased(key, m, q, c) ==
  [name |-> "ReservationReleased", key |-> key, market |-> m, qty |-> q, collateral |-> c]

(* The last log of its transaction, and the transactions of the first n logs *)
Closes(e)       == e.name \notin {"MarketTracked", "IntentAdmitted"}
Transactions(n) == Cardinality({k \in 1 .. n : Closes(log[k])})

Emit(entries) == Transactions(Len(log)) < MaxLog /\ log' = log \o entries

(* A history ends with a whole transaction. *)
EventsThrough(n) == SubSeq(log, 1, n)
Cuts             == {n \in 0 .. Len(log) : n > 0 => Closes(log[n])}

-----------------------------------------------------------------------------
(* Folds of the history *)

Named(events, name) == {e \in Seqs!ToSet(events) : e.name = name}

(* Every address ever registered; its policy is read from the contract. *)
AgentsFromEvents(events) == {e.agent : e \in Named(events, "AgentSet")}

(* The last policy of a domain decides. *)
ConfiguredDomains(events) ==
  LET Sets(n, d) == events[n].name = "DomainPolicySet" /\ events[n].domain = d
  IN {d \in Domains : \E n \in DOMAIN events : /\ Sets(n, d) /\ events[n].configured
                                             /\ \A k \in DOMAIN events : k > n => ~ Sets(k, d)}

AdmissionOf(events, hash) ==
  CHOOSE a \in {e \in Named(events, "IntentAdmitted") : e.intent = hash} : TRUE

Less(a, b) == IF a > b THEN a - b ELSE 0

Put(rows, key, row) == [k \in DOMAIN rows \cup {key} |-> IF k = key THEN row ELSE rows[k]]

(* A resting order opens a row; an order that rests nothing has none. *)
Opened(rows, events, e) ==
  LET a   == AdmissionOf(events, e.intent)
      key == OrderKey(a.pool, a.marketNonce, a.orderId)
  IN IF e.restingQty = 0 THEN rows
     ELSE Put(rows, key, [agent |-> e.intent[1], market |-> a.market, domain |-> a.domain,
                          kind |-> a.kind, qtyOpen |-> e.restingQty])

(* Mutant: the release of an order ends its row. *)
ReleasedWhole(rows, e) ==
  IF e.key \in DOMAIN rows THEN [rows EXCEPT ![e.key].qtyOpen = 0] ELSE rows

Released(rows, e) ==
  IF e.key \in DOMAIN rows THEN [rows EXCEPT ![e.key].qtyOpen = Less(@, e.qty)] ELSE rows

ReservationRows(rows, events, e) ==
  CASE e.name = "IntentReconciled" -> Opened(rows, events, e)
    [] e.name = "ReservationReleased" -> Released(rows, e)
    [] OTHER -> rows

ReservationHistory(events) ==
  LET rows[n \in 0 .. Len(events)] ==
        IF n = 0 THEN << >> ELSE ReservationRows(rows[n - 1], events, events[n])
  IN rows

ReservationsFromEvents(events) == ReservationHistory(events)[Len(events)]

(* trackedMarketsFromEvents: pruned ones are dropped, redeemed ones are marked *)
TrackedRows(rows, e) ==
  CASE e.name = "MarketTracked" -> Put(rows, e.market, [domain |-> e.domain, redeemed |-> FALSE])
    [] e.name = "MarketPruned" -> [m \in DOMAIN rows \ {e.market} |-> rows[m]]
    [] e.name = "Redeemed" /\ e.market \in DOMAIN rows -> [rows EXCEPT ![e.market].redeemed = TRUE]
    [] OTHER -> rows

TrackedHistory(events) ==
  LET rows[n \in 0 .. Len(events)] ==
        IF n = 0 THEN << >> ELSE TrackedRows(rows[n - 1], events[n])
  IN rows

TrackedMarketsFromEvents(events) == TrackedHistory(events)[Len(events)]

-----------------------------------------------------------------------------
(* What is measured again *)

OpenRows(events) ==
  LET rows == ReservationsFromEvents(events) IN {k \in DOMAIN rows : rows[k].qtyOpen > 0}

(* Mutant: a finalized market is taken to hold nothing. *)
StillOpenWhileTrading(key, failed) ==
  IF key \in failed \/ Finalized(key[1]) THEN 0 ELSE StillOpen(key)

(* The reads of the pool and the book.  The rows whose reads failed look like
   orders that are gone; a failed read of the record fails the whole answer. *)
StillOpenRead(key, failed) == IF key \in failed THEN 0 ELSE StillOpen(key)

OverlayReservation(key, failed) ==
  LET rec        == orderRec[key]
      releasable == Less(rec.qtyOpen, StillOpenRead(key, failed))
  IN [market |-> rec.market, kind |-> rec.kind, qtyOpen |-> rec.qtyOpen, collReserved |-> rec.collReserved, releasable |-> releasable,
      state |-> CASE rec.qtyOpen = 0 -> "FINALIZED"
                  [] releasable > 0 -> "NEEDS_RECONCILIATION"
                  [] OTHER -> "RESTING"]

(* The collateral behind the rows a history calls open *)
Explained(events) ==
  LET keys == OpenRows(events)
  IN Sum([k \in keys |-> OverlayReservation(k, {}).collReserved], keys)

Balance(m, side) == bal[TokenId(marketState[m].pool, marketState[m].marketNonce, side)]

(* Mutant: both sides are read under one id. *)
OverlayPositionOneId(m) ==
  [yes |-> Balance(m, "YES"), no |-> Balance(m, "YES"), settled |-> marketState[m].settled]

OverlayPosition(m) ==
  [yes |-> IF marketState[m].tracked THEN Balance(m, "YES") ELSE 0,
   no |-> IF marketState[m].tracked THEN Balance(m, "NO") ELSE 0,
   settled |-> marketState[m].settled]

Nothing == [yes |-> 0, no |-> 0, settled |-> FALSE]

(* The second implementation of marketWorstCaseExposure, in packages/risk *)
PositionRisk(p, open) ==
  IF p.settled THEN 0 ELSE WorstCase(UpperBound(p.yes - p.no, open), LowerBound(p.yes - p.no, open))

(* reconstructDomainWorstCase, of the positions and open rows of a domain *)
ReconstructedWorstCase(d, events) ==
  LET bases     == ReservationsFromEvents(events)
      keys      == {k \in DOMAIN bases : bases[k].domain = d /\ bases[k].qtyOpen > 0}
      tracked   == TrackedMarketsFromEvents(events)
      positions == {m \in DOMAIN tracked : tracked[m].domain = d}
      markets   == positions \cup {bases[k].market : k \in keys}
      Pending(m, kind) == LET of == {k \in keys : bases[k].market = m /\ bases[k].kind = kind}
                          IN Sum([k \in of |-> orderRec[k].qtyOpen], of)
      Position(m) == IF m \in positions THEN OverlayPosition(m) ELSE Nothing
      Open(m) == [BUY_YES |-> Pending(m, "BUY_YES"), SELL_YES |-> Pending(m, "SELL_YES"),
                  BUY_NO |-> Pending(m, "BUY_NO"), SELL_NO |-> Pending(m, "SELL_NO")]
  IN Sum([m \in markets |-> PositionRisk(Position(m), Open(m))], markets)

-----------------------------------------------------------------------------
(* Lists.  A view answers with a slice of its rows; the pager's buttons reach
   the offsets below.  Rows are newest first, which nothing here depends on. *)

Page(rows, offset) == SubSeq(rows, offset + 1, IF offset + PageSize < Len(rows) THEN offset + PageSize ELSE Len(rows))
Offsets(total)     == {0} \cup {n \in 0 .. total - 1 : n % PageSize = 0}

(* Whoever pages through a list sees these rows. *)
PagedRows(rows) == UNION {Seqs!ToSet(Page(rows, offset)) : offset \in Offsets(Len(rows))}

ReservationsListed == PagedRows(Seqs!SetToSeq(DOMAIN ReservationsFromEvents(log)))
PositionsListed    == PagedRows(Seqs!SetToSeq(DOMAIN TrackedMarketsFromEvents(log)))

(* The last log of a row; a block has one transaction here, so that the newest
   rows are well defined. *)
Touches(e, key) ==
  \/ e.name = "ReservationReleased" /\ e.key = key
  \/ /\ e.name = "IntentReconciled" /\ e.restingQty # 0
     /\ LET a == AdmissionOf(log, e.intent) IN key = OrderKey(a.pool, a.marketNonce, a.orderId)
Touched(key) ==
  CHOOSE n \in DOMAIN log : Touches(log[n], key) /\ \A k \in DOMAIN log : k > n => ~ Touches(log[k], key)

(* One answer: the newest rows, the finalized ones among them.  The card, the
   control room's line and its panel ask once and turn no pages. *)
LatestRows ==
  LET rows == DOMAIN ReservationsFromEvents(log)
      at   == [k \in rows |-> Touched(k)]
  IN {k \in rows : Cardinality({j \in rows \ {k} : at[j] > at[k]}) < MaxRows}

-----------------------------------------------------------------------------
(* What the pages make of it: quantities by agent, and buttons. *)

OpenStates == {"RESTING", "NEEDS_RECONCILIATION"}

(* What is open of an agent in a domain, by the agent its history names, among
   the rows that the page has.  A failed read of the book does not change it. *)
Attributed(d, a) ==
  LET rows == ReservationsFromEvents(log)
      own  == {k \in LatestRows : /\ rows[k].domain = d /\ rows[k].agent = a
                                  /\ OverlayReservation(k, {}).state \in OpenStates}
  IN Sum([k \in own |-> OverlayReservation(k, {}).qtyOpen], own)

(* The control room's line of a domain: a segment for each agent, and one for
   what is filled, which no agent is named for. *)
Segments(d) ==
  LET reserved == [a \in Agents |-> Attributed(d, a)]
  IN [reserved |-> reserved, pooled |-> Less(DomainRiskUsage(d), Sum(reserved, Agents))]

(* The card of an agent *)
ActivityOf(a) == [reservedQty |-> Sum([d \in Domains |-> Attributed(d, a)], Domains)]

(* The rows of the exposure page that offer a release *)
ReleaseOffered(failed) ==
  {k \in ReservationsListed : OverlayReservation(k, failed).state = "NEEDS_RECONCILIATION"}

(* summariseDomain counts them from the rows that the history calls open. *)
PendingReleases(d, failed) ==
  LET rows == ReservationsFromEvents(log)
  IN {k \in DOMAIN rows : /\ rows[k].domain = d /\ rows[k].qtyOpen > 0
                          /\ OverlayReservation(k, failed).state = "NEEDS_RECONCILIATION"}

(* The panel's button releases the oldest of the rows it was given. *)
PanelOffers(d, failed) ==
  LET rows == ReservationsFromEvents(log)
  IN \E k \in LatestRows : /\ rows[k].domain = d
                           /\ OverlayReservation(k, failed).state = "NEEDS_RECONCILIATION"

(* CancelOrderButton reads the pool and the id to cancel from the record, which
   stays when nothing of it is open. *)
CancelOffered(failed) ==
  {k \in ReservationsListed : OverlayReservation(k, failed).state \in OpenStates /\ orderRec[k] # NoRecord}

(* Mutant: the button redeems the first outcome. *)
FirstSide(m) == "YES"

(* The first outcome whose payout numerator is not zero; a void pays both *)
WinningSide(m) == IF phase[m] = "resolvedNo" THEN "NO" ELSE "YES"

(* The exposure page shows its row's buttons between two flags. *)
RowButtons ==
  LET rows == TrackedMarketsFromEvents(log)
  IN {m \in PositionsListed : marketState[m].settled /\ ~ rows[m].redeemed}

RedeemOffered == {m \in RowButtons : bal[TokenId(PoolOf[m], GenOf[m], WinningSide(m))] > 0}

-----------------------------------------------------------------------------
(* The integrity view: a history that may lack the newest transactions, then
   the contract's total, then the rows.  Requests share nothing, so there is
   one in a behaviour. *)

NoRequest == [pc |-> "idle", seen |-> 0, reserved |-> 0, mismatch |-> FALSE]

AskIntegrity ==
  /\ ask.pc = "idle"
  /\ \E n \in Cuts :
       /\ Transactions(Len(log)) <= Transactions(n) + MaxBehind
       /\ ask' = [NoRequest EXCEPT !.pc = "total", !.seen = n]
  /\ UNCHANGED <<vars, log>>

ReadTotal ==
  /\ ask.pc = "total"
  /\ ask' = [ask EXCEPT !.pc = "rows", !.reserved = reservedCollateral]
  /\ UNCHANGED <<vars, log>>

AnswerIntegrity ==
  /\ ask.pc = "rows"
  /\ ask' = [ask EXCEPT !.pc = "answered", !.mismatch = (Explained(EventsThrough(ask.seen)) # ask.reserved)]
  /\ UNCHANGED <<vars, log>>

ViewNext == AskIntegrity \/ ReadTotal \/ AnswerIntegrity

-----------------------------------------------------------------------------
(* The contract's transactions with what they emit *)

Executed(a, i) ==
  \E filled, resting \in 0 .. i.quantity, collOut \in 0 .. ReserveRequired(i) :
    /\ Admissible(a, i)
    /\ PlaceAndReconcile(a, i, filled, resting, collOut)
    /\ LET tracking == IF marketState[i.market].tracked THEN <<>> ELSE <<MarketTracked(i.market, DomainOf[i.market])>>
       IN Emit(tracking \o <<IntentAdmitted(<<a, i.nonce>>, i, nextId[i.pool]),
                             IntentReconciled(<<a, i.nonce>>, ReserveRequired(i), resting)>>)

ReleasedOrder(key) ==
  LET o == orderRec[key]
      released == o.qtyOpen - StillOpen(key)
  IN /\ ReleaseOrder(key)
     /\ Emit(<<ReservationReleased(key, o.market, released, CollateralReleased(o, released))>>)

PortfolioTransaction ==
  \/ \E a \in Agents, i \in Intents, n \in 1 .. MaxNonce : Executed(a, WithNonce(i, n))
  \/ \E key \in OrderKeys : ReleasedOrder(key)
  \/ \E m \in Markets : \/ ReleaseSettled(m) /\ Emit(<<SettledExposureReleased(m)>>)
                        \/ PruneMarket(m) /\ Emit(<<MarketPruned(m)>>)
                        \/ \E side \in Sides, n \in Amounts : Redeem(m, side, n) /\ Emit(<<Redeemed(m)>>)
  \/ \E d \in Domains, dp \in DomainPolicies : SetDomainPolicy(d, dp) /\ Emit(<<DomainPolicySet(d, dp.configured)>>)
  \/ \E a \in Agents : \/ \E ap \in AgentPolicies : SetAgent(a, ap) /\ Emit(<<AgentSet(a)>>)
                       \/ RevokeAgent(a) /\ Emit(<<AgentRevoked(a)>>)
  \/ \E gp \in GlobalPolicies : SetGlobalPolicy(gp) /\ Emit(<<Unread("GlobalPolicySet")>>)
  \/ \E n \in Amounts : \/ Fund(n) /\ Emit(<<Unread("Funded")>>)
                        \/ SetCapitalBase(n) /\ Emit(<<Unread("CapitalBaseSet")>>)
                        \/ Withdraw(n) /\ Emit(<<Unread("Withdrawn")>>)
                        \/ \E t \in TokenIds : WithdrawOutcome(t, n) /\ Emit(<<Unread("OutcomeWithdrawn")>>)

(* The venue's transactions, and the owner's that only the venue logs *)
VenueTransaction ==
  /\ \/ \E p \in Pools, id \in OrderIds : CancelOrder(p, id)
     \/ VenueNext /\ UNCHANGED portfolioVars
  /\ UNCHANGED log

ChainStep == PortfolioTransaction \/ VenueTransaction

ViewsInit == Init /\ log = <<>> /\ ask = NoRequest
ViewsNext == (ChainStep /\ UNCHANGED ask) \/ ViewNext
ViewsSpec == ViewsInit /\ [][ViewsNext]_viewVars
=============================================================================
