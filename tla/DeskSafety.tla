----------------------------- MODULE DeskSafety -----------------------------
(***************************************************************************)
(* What an agent's desk is trusted with: that it pays for a refusal only   *)
(* when somebody, or the clock, was faster, that what the API keeps is     *)
(* what the contract said, and that it goes on quoting.                    *)
(***************************************************************************)
EXTENDS Desk

Pcs == {"idle", "nonce", "preview", "estimate", "send", "receipt", "report", "done"}
Outcomes == {"none", "no-market", "no-signal", "refused-preflight", "refused-onchain", "submitted",
             "venue-rejected", "out-of-gas", "send-failed", "threw"}

\* Everything keeps its type: the offset stays between the default and the
\* most, no refusal is kept without a code, the domain stays under its ceiling.
DeskTypeOK ==
    /\ offset \in DefaultOffset .. MaxOffset
    /\ last \in Outcomes
    /\ \A k \in Ticks : tick[k].pc \in Pcs /\ tick[k].outcome \in Outcomes
    /\ \A h \in DOMAIN refusals : refusals[h].code \in RefusalCodes
    /\ portfolio.usage \in 0 .. Ceiling

\* The refusals that time brings by itself, and how long they take at least: a
\* market is picked with MinRemaining left, its policy has not ended by then.
Overtaken(t) ==
    \/ t.result = "MARKET_NOT_TRADING" /\ t.took >= MinRemaining
    \/ t.result = "INSUFFICIENT_HEADROOM" /\ t.took > MinRemaining - Headroom
    \/ t.result = "POLICY_EXPIRED" /\ t.took > 0

\* A transaction of the desk comes back reverted only if the portfolio or the
\* book has moved since it was estimated, or if it came too late: after the end
\* of the policy, or later by more than the market had to spare when it was
\* picked.  No cooldown, nonce or venue refuses an order that nobody overtook
\* (tick, lines 163, 225-228 and 316-317 of the worker; _evaluate).
PaysOnlyWhenOvertaken ==
    \A k \in Ticks :
        tick[k].pc \in {"receipt", "report"} /\ tick[k].result \notin {"NONE", "SUCCESS"} =>
            tick[k].moved \/ Overtaken(tick[k])

\* The padded gas limit outlives one market that another agent tracks between
\* the estimate and the block: only further ones starve the transaction.
StarvedOnlyByMore ==
    \A k \in Ticks : tick[k].pc = "receipt" /\ tick[k].result = "OUT_OF_GAS" => tick[k].grown > 1

\* The API replays at the end of the block, the contract decided in the middle
\* of it: where nothing followed in the block, the recorded code is the one the
\* transaction reverted with (POST /api/intents/report).
RecordedCodeIsTheRevert ==
    \A h \in DOMAIN refusals : refusals[h].clean => refusals[h].code = refusals[h].own

\* An intent that was sent once is answered with its own decision: an admitted
\* one has no refusal, a reported refusal no admission (intentsFromEvents,
\* receiptsFromEvents).
SentOnceShowsItsDecision ==
    \A k \in Ticks :
        tick[k].pc = "done" /\ ~tick[k].repeated =>
            /\ tick[k].outcome = "submitted" => Decisions(tick[k].i) = {"ADMITTED"}
            /\ tick[k].outcome = "refused-onchain" =>
                 Decisions(tick[k].i) \in {{}, {"REFUSED"}}
            /\ tick[k].reported => Decisions(tick[k].i) = {"REFUSED"}

\* The venue does not reject the desk for ever: it backs off until its orders
\* rest whatever the band, although overlapping ticks write the offset over
\* each other (nextOffset).
WidensUntilItRests ==
    []<>(last # "venue-rejected" \/ \A band \in Bands : offset >= band)

=============================================================================
