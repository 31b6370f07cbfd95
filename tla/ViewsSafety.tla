---------------------------- MODULE ViewsSafety -----------------------------
(* What a reader of the API's views and pages may rely on. *)
EXTENDS PortfolioViews

(* Every row that is open is among those of one answer. *)
AllShown == OpenRows(log) \subseteq LatestRows

(* reservationsFromEvents: "Reservations the way the contract itself accounts
   for them".  The quantities counted from the events are the contract's, the
   collateral behind them adds up to what it reports as reserved, and no agent
   that may trade or has, and no ceiling in force, is missing from the lists
   (agentsFromEvents, configuredDomainsFromEvents).  The card of an agent never
   shows more than its records hold, and shows all of it unless a row that is
   open has left the newest MaxRows, which takes more rows than that. *)
HistoryExplainsTheContract ==
  LET rows == ReservationsFromEvents(log)
      Own(a) == {k \in OrderKeys : orderRec[k].agent = a}
  IN /\ \A k \in OrderKeys : orderRec[k].qtyOpen = IF k \in DOMAIN rows THEN rows[k].qtyOpen ELSE 0
     /\ Explained(log) = reservedCollateral
     /\ Cardinality(DOMAIN rows) <= MaxRows => AllShown
     /\ \A a \in Agents :
          /\ LET shown == ActivityOf(a).reservedQty
                 held  == Sum([k \in Own(a) |-> orderRec[k].qtyOpen], Own(a))
             IN shown <= held /\ (AllShown => shown = held)
          /\ agentPolicy[a].enabled \/ agentNonce[a] # 0 => a \in AgentsFromEvents(log)
     /\ ConfiguredDomains(log) = {d \in Domains : domainPolicy[d].configured}

(* The API's second implementation of the risk of a domain gives the contract's
   number while none of its orders has been left behind by its market, and the
   control room's segments never add up to less than that. *)
IndependentAgrees ==
  \A d \in Domains :
    (\A k \in OrderKeys : orderRec[k].qtyOpen > 0 => ~ marketState[orderRec[k].market].settled)
      => LET usage == DomainRiskUsage(d)
             line  == Segments(d)
         IN ReconstructedWorstCase(d, log) = usage /\ Sum(line.reserved, Agents) + line.pooled >= usage

(* What releaseOrder would accept; releaseSettled's leftovers are left out,
   StuckReservationsClear is about them. *)
Freeable(k) == marketState[orderRec[k].market].settled \/ ENABLED ReleaseOrder(k)

(* portfolio-live.ts: a row is measured "the same way releaseOrder combines
   them".  A row that was read whole is offered for release only when the
   contract could free it, whatever has filled, expired or been recycled since.
   Whatever reads fail, what is pending is offered on the pages, and by the
   panel unless it has left the newest MaxRows, and an order that still rests
   can be cancelled from its row. *)
OfferedIsReleasable ==
  LET freeable == {k \in OpenRows(log) : Freeable(k)}
      resting  == {k \in OrderKeys : StillOpen(k) > 0}
      pending  == [d \in Domains |-> PendingReleases(d, {})]
      due      == {d \in Domains : pending[d] # {} /\ AllShown}
  IN \A failed \in SUBSET ReservationsListed :
       LET offered == ReleaseOffered(failed)
       IN /\ offered \ failed \subseteq freeable
          /\ \A d \in Domains : pending[d] \subseteq offered
          /\ \A d \in due : PanelOffers(d, failed)
          /\ resting \subseteq CancelOffered(failed)

(* RedeemButton redeems the balance "of that winning id": what it redeems is
   worth something, or it is one base unit of a void, whose half is rounded
   down to nothing. *)
OfferedRedeemPays ==
  \A m \in RedeemOffered :
    LET side == WinningSide(m)
        held == bal[TokenId(PoolOf[m], GenOf[m], side)]
    IN Payout(m, side, held) > 0 \/ (phase[m] = "voided" /\ held = 1)

(* history-status: a mismatch is only ever reported when the portfolio's logs
   have moved past the history the request had. *)
AlarmOnlyWhileMoving == ask.pc = "answered" /\ ask.mismatch => ask.seen < Len(log)
=============================================================================
