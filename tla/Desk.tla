-------------------------------- MODULE Desk --------------------------------
(***************************************************************************)
(* A trading agent's worker between two others: the portfolio, which other *)
(* agents, keepers and the owner move meanwhile, and the API, which keeps  *)
(* the refusals it is told of.                                             *)
(*                                                                         *)
(* A tick picks a market and a price, reads the nonce, asks for a preview, *)
(* estimates the gas, sends, waits for the receipt and reports a refusal.  *)
(* Every step awaits an answer; the cron and POST /tick start ticks that   *)
(* overlap.  The contract is reduced to the gates that can close between   *)
(* the preview and the block: the agent's policy, its nonce, the usage of  *)
(* the shared domain, which others move, and the gates of time, which      *)
(* close by themselves.  The worker's clock is taken to be the chain's.    *)
(***************************************************************************)
EXTENDS Integers, FiniteSets

CONSTANTS
    Ticks,         \* slots for overlapping invocations
    MaxNonce,      \* bound: from this nonce on the agent makes no new proposals
    MaxRecords,    \* bound: refusals the API keeps; further reports fail
    MaxFaults,     \* bound: sends, answers and reports that fail
    MaxMoves,      \* bound: changes made by others
    Ceiling,       \* the domain's ceiling, in orders
    MaxMarkets,    \* most markets the domain tracks
    Expiries,      \* the times at which the markets end
    MinRemaining,  \* the least time a market has left when it is picked
    Headroom,      \* the owner's: the least time it has left when it is traded
    Cooldown,      \* the owner's: the pause between two orders of the agent
    PolicyEnds,    \* the owner's: the times at which the portfolio's policy ends
    MaxTime,       \* bound: the chain's clock stops there
    Bids,          \* best bids the book may show, in ticks of the price
    Bands,         \* the venue's: distances from the bid within which an order crosses
    Kinds          \* the sides the strategy buys

ASSUME DeskConstants ==
    /\ "nobody" \notin Ticks
    /\ {MaxNonce, MaxRecords, MaxFaults, MaxMoves, Ceiling, MaxMarkets} \subseteq Nat
    /\ {MinRemaining, Headroom, Cooldown, MaxTime} \subseteq Nat
    /\ Bids \cup Bands \cup Expiries \cup PolicyEnds \subseteq Nat
    /\ Kinds \subseteq {"BUY_YES", "BUY_NO"}

VARIABLES
    portfolio,     \* what execute depends on, as of the latest transaction
    admitted,      \* the intents of the IntentAdmitted events
    mempool,       \* transactions that are out and not mined
    offset,        \* the agent's KV state: distance from the bid, in ticks
    last,          \* the agent's KV state: what the last tick came to
    tick,          \* the running invocations
    refusals,      \* the API's records, by intent hash
    faults,        \* counters of the bounds
    moves

chainVars == <<portfolio, admitted, mempool>>
kv == <<offset, last>>
budgets == <<faults, moves>>
vars == <<portfolio, admitted, mempool, offset, last, tick, refusals, faults, moves>>

-----------------------------------------------------------------------------
(* The strategy.                                                           *)

ONE == 1000
DefaultOffset == 60
MaxOffset == 400

Lesser(a, b) == IF a < b THEN a ELSE b
Greater(a, b) == IF a > b THEN a ELSE b

\* Mutant: a cross backs off from the default instead of from where it was.
NextOffsetFromDefault(current, crossed) ==
    IF crossed THEN DefaultOffset * 2 ELSE Greater(DefaultOffset, (current * 3) \div 4)

NextOffset(current, crossed) ==
    IF crossed THEN Lesser(MaxOffset, Greater(DefaultOffset, current) * 2)
    ELSE Greater(DefaultOffset, (current * 3) \div 4)

Price(kind, bid, off) ==
    IF kind = "BUY_NO" THEN bid + off
    ELSE IF bid > off THEN bid - off ELSE 0

\* What a strategy may make of the book: an order, if its price is one.
Proposals(off) ==
    {p \in {[kind |-> k, price |-> Price(k, b, off), off |-> off] : k \in Kinds, b \in Bids} :
        0 < p.price /\ p.price < ONE}

-----------------------------------------------------------------------------
(* The contract, as far as its gates can close under a transaction: the    *)
(* agent's, the policy's, the market's and the domain's, in their order.   *)

Cooled(s) == s.lastTrade = 0 \/ s.now >= s.lastTrade + Cooldown

Evaluate(s, i) ==
    IF ~s.enabled THEN "AGENT_DISABLED"
    ELSE IF s.policyEnd = 0 \/ s.now > s.policyEnd THEN "POLICY_EXPIRED"
    ELSE IF i.nonce <= s.nonce THEN "INTENT_REPLAYED"
    ELSE IF ~Cooled(s) THEN "COOLDOWN_ACTIVE"
    ELSE IF s.now >= i.expiry THEN "MARKET_NOT_TRADING"
    ELSE IF i.expiry - s.now < Headroom THEN "INSUFFICIENT_HEADROOM"
    ELSE IF s.usage + 1 > Ceiling THEN "DOMAIN_RISK_EXCEEDED"
    ELSE "NONE"

RefusalCodes == {"AGENT_DISABLED", "POLICY_EXPIRED", "INTENT_REPLAYED", "COOLDOWN_ACTIVE",
                 "MARKET_NOT_TRADING", "INSUFFICIENT_HEADROOM", "DOMAIN_RISK_EXCEEDED"}

\* execute walks the domain's markets.
GasCost(markets) == markets + 1

\* A transaction against a state of the portfolio: the contract decides before
\* the venue does.
Result(s, i, gas) ==
    IF Evaluate(s, i) # "NONE" THEN Evaluate(s, i)
    ELSE IF GasCost(s.markets) > gas THEN "OUT_OF_GAS"
    ELSE IF i.off < s.band THEN "POST_ONLY_WOULD_CROSS"
    ELSE "SUCCESS"

Executed(s, i) ==
    [s EXCEPT !.nonce = i.nonce, !.lastTrade = s.now, !.usage = @ + 1,
              !.markets = Lesser(@ + 1, MaxMarkets)]

\* Mutant: two intents with one nonce share a record.
IntentHashOfNonce(i) == [i EXCEPT !.kind = "NONE", !.price = 0, !.off = 0, !.expiry = 0]

\* The hash covers the whole intent.
IntentHash(i) == i

-----------------------------------------------------------------------------

NoIntent == [kind |-> "NONE", price |-> 0, off |-> 0, expiry |-> 0, nonce |-> 0]

\* moved, repeated, clean and took are history: whether the portfolio or the book
\* has moved since the estimate, whether the same intent was sent before or after,
\* whether the transaction left its block as it found it, and how long it took
\* from the picking of the market to that block.
IdleTick ==
    [pc |-> "idle", i |-> NoIntent, picked |-> 0, markets |-> 0, gas |-> 0, result |-> "NONE",
     took |-> 0, sealed |-> FALSE, replay |-> "NONE", grown |-> 0, moved |-> FALSE, clean |-> TRUE,
     repeated |-> FALSE, outcome |-> "none", reported |-> FALSE]

Goto(k, t) == tick' = [tick EXCEPT ![k] = t]

\* runAndRecord: a tick ends and its report is kept.
End(k, outcome, reported) ==
    /\ Goto(k, IF outcome \in {"submitted", "refused-onchain"}
               THEN [IdleTick EXCEPT !.pc = "done", !.i = tick[k].i, !.repeated = tick[k].repeated,
                                     !.outcome = outcome, !.reported = reported]
               ELSE [IdleTick EXCEPT !.pc = "done", !.outcome = outcome])
    /\ last' = outcome

-----------------------------------------------------------------------------
(* The tick.                                                               *)

\* None of the latest markets of the registry has time left and trades.
NoMarket(k) ==
    /\ tick[k].pc \in {"idle", "done"}
    /\ End(k, "no-market", FALSE)
    /\ UNCHANGED <<chainVars, offset, refusals, budgets>>

\* A book the strategy makes nothing of.
NoSignal(k) ==
    /\ tick[k].pc \in {"idle", "done"}
    /\ End(k, "no-signal", FALSE)
    /\ UNCHANGED <<chainVars, offset, refusals, budgets>>

\* A tick starts: it discovers the markets that have enough time left, picks its
\* own, reads the book and its back-off, and has an order to propose.
Propose(k) ==
    /\ tick[k].pc \in {"idle", "done"}
    /\ portfolio.nonce < MaxNonce
    /\ \E e \in Expiries, p \in Proposals(offset) :
          /\ e - portfolio.now >= MinRemaining
          /\ Goto(k, [IdleTick EXCEPT !.pc = "nonce", !.picked = portfolio.now,
                         !.i = [kind |-> p.kind, price |-> p.price, off |-> p.off,
                                expiry |-> e, nonce |-> 0]])
    /\ UNCHANGED <<chainVars, kv, refusals, budgets>>

ReadNonce(k) ==
    /\ tick[k].pc = "nonce"
    /\ Goto(k, [tick[k] EXCEPT !.pc = "preview", !.i.nonce = portfolio.nonce + 1])
    /\ UNCHANGED <<chainVars, kv, refusals, budgets>>

Preflight(k) ==
    /\ tick[k].pc = "preview"
    /\ IF Evaluate(portfolio, tick[k].i) = "NONE"
       THEN Goto(k, [tick[k] EXCEPT !.pc = "estimate"]) /\ UNCHANGED last
       ELSE End(k, "refused-preflight", FALSE)
    /\ UNCHANGED <<chainVars, offset, refusals, budgets>>

GasLimit(estimate) == estimate * 2

\* Mutant: only what the venue says of the simulation is listened to.
StopsUnlessVenue(result) == result = "POST_ONLY_WOULD_CROSS"

Stops(result) == result # "SUCCESS"

\* The estimate simulates the transaction.  The venue's refusal shows here;
\* the contract's does too, and is filed under send-failed.
Estimate(k) ==
    /\ tick[k].pc = "estimate"
    /\ LET cost == GasCost(portfolio.markets)
           result == Result(portfolio, tick[k].i, cost)
       IN  \/ /\ ~Stops(result)
              /\ Goto(k, [tick[k] EXCEPT !.pc = "send", !.gas = GasLimit(cost),
                                         !.markets = portfolio.markets])
              /\ UNCHANGED kv
           \/ /\ Stops(result) /\ result = "POST_ONLY_WOULD_CROSS"
              /\ offset' = NextOffset(tick[k].i.off, TRUE)
              /\ End(k, "venue-rejected", FALSE)
           \/ /\ Stops(result) /\ result # "POST_ONLY_WOULD_CROSS"
              /\ End(k, "send-failed", FALSE)
              /\ UNCHANGED offset
    /\ UNCHANGED <<chainVars, refusals, budgets>>

\* Every intent that has been sent and left a trace.
Sent == admitted \cup {x.i : x \in mempool} \cup DOMAIN refusals
          \cup {tick[k].i : k \in {j \in Ticks : tick[j].pc \in {"receipt", "report", "done"}}}

Out(k, owner) == [i |-> tick[k].i, gas |-> tick[k].gas, tick |-> owner]

\* Whoever has sent the same intent before learns of it.
Repeats(k) == [j \in Ticks |-> [tick[j] EXCEPT !.repeated = @ \/ (j # k /\ tick[j].i = tick[k].i)]]

Send(k) ==
    /\ tick[k].pc = "send"
    /\ mempool' = mempool \cup {Out(k, k)}
    /\ tick' = [Repeats(k) EXCEPT ![k].pc = "receipt", ![k].repeated = tick[k].i \in Sent]
    /\ UNCHANGED <<portfolio, admitted, kv, refusals, budgets>>

\* The node does not answer; the transaction may be out all the same, and then
\* nobody waits for it.
SendFails(k) ==
    /\ tick[k].pc = "send"
    /\ faults < MaxFaults /\ faults' = faults + 1
    /\ last' = "send-failed"
    /\ \E out \in SUBSET {Out(k, "nobody")} : mempool' = mempool \cup out
    /\ tick' = [Repeats(k) EXCEPT ![k] =
                   [IdleTick EXCEPT !.pc = "done", !.outcome = "send-failed"]]
    /\ UNCHANGED <<portfolio, admitted, offset, refusals, moves>>

GivesUp(t) == t.pc = "receipt" /\ ~t.sealed

\* waitForTransactionReceipt gives up and the tick throws.
Throw(k) ==
    /\ GivesUp(tick[k])
    /\ mempool' = {IF x.tick = k THEN [x EXCEPT !.tick = "nobody"] ELSE x : x \in mempool}
    /\ End(k, "threw", FALSE)
    /\ UNCHANGED <<portfolio, admitted, offset, refusals, budgets>>

Receipt(k) ==
    /\ tick[k].pc = "receipt" /\ tick[k].sealed
    /\ \/ /\ tick[k].result = "SUCCESS"
          /\ offset' = NextOffset(tick[k].i.off, FALSE)
          /\ End(k, "submitted", FALSE)
       \/ /\ tick[k].result = "OUT_OF_GAS"
          /\ End(k, "out-of-gas", FALSE)
          /\ UNCHANGED offset
       \/ /\ tick[k].result \notin {"SUCCESS", "OUT_OF_GAS"}
          /\ Goto(k, [tick[k] EXCEPT !.pc = "report"])
          /\ UNCHANGED kv
    /\ UNCHANGED <<chainVars, refusals, budgets>>

-----------------------------------------------------------------------------
(* The report.                                                             *)

\* Mutant: the call is replayed against the latest state.
ReplayLatest(t) == Evaluate(portfolio, t.i)

\* The API replays the call at the block it failed in, that is, against the
\* state that block left.
Replay(t) == t.replay

Recorded(t) ==
    LET h == IntentHash(t.i)
        record == [code |-> Replay(t), own |-> t.result, clean |-> t.clean]
    IN  [g \in DOMAIN refusals \cup {h} |-> IF g = h THEN record ELSE refusals[g]]

HasRoom(t) == IntentHash(t.i) \in DOMAIN refusals \/ Cardinality(DOMAIN refusals) < MaxRecords

\* A revert that does not replay as Refused(code) is not recorded.
Report(k) ==
    /\ tick[k].pc = "report"
    /\ IF Replay(tick[k]) \in RefusalCodes /\ HasRoom(tick[k])
       THEN refusals' = Recorded(tick[k]) /\ End(k, "refused-onchain", TRUE)
       ELSE End(k, "refused-onchain", FALSE) /\ UNCHANGED refusals
    /\ UNCHANGED <<chainVars, offset, budgets>>

\* The request or its answer is lost.
ReportFails(k) ==
    /\ tick[k].pc = "report"
    /\ faults < MaxFaults /\ faults' = faults + 1
    /\ \/ UNCHANGED refusals
       \/ Replay(tick[k]) \in RefusalCodes /\ HasRoom(tick[k]) /\ refusals' = Recorded(tick[k])
    /\ End(k, "refused-onchain", FALSE)
    /\ UNCHANGED <<chainVars, offset, moves>>

\* The rows the API answers with for an intent.
Decisions(i) ==
    (IF i \in admitted THEN {"ADMITTED"} ELSE {})
      \cup (IF IntentHash(i) \in DOMAIN refusals THEN {"REFUSED"} ELSE {})

-----------------------------------------------------------------------------
(* The chain.                                                              *)

\* A change of the portfolio, or of the book, under ticks that have estimated
\* and under transactions whose block is not closed.
Shaken(ticks, s) ==
    [k \in Ticks |->
        IF s = portfolio THEN ticks[k]
        ELSE [ticks[k] EXCEPT
                !.moved = @ \/ (ticks[k].pc \in {"send", "receipt"} /\ ticks[k].result = "NONE"),
                !.clean = @ /\ (ticks[k].result = "NONE" \/ ticks[k].sealed)]]

Mine(x) ==
    /\ x \in mempool
    /\ mempool' = mempool \ {x}
    /\ LET result == Result(portfolio, x.i, x.gas)
           s == IF result = "SUCCESS" THEN Executed(portfolio, x.i) ELSE portfolio
           shaken == Shaken(tick, s)
       IN  /\ portfolio' = s
           /\ admitted' = IF result = "SUCCESS" THEN admitted \cup {x.i} ELSE admitted
           /\ tick' = [k \in Ticks |->
                         IF k # x.tick THEN shaken[k]
                         ELSE [tick[k] EXCEPT !.result = result,
                                              !.took = portfolio.now - tick[k].picked,
                                              !.grown = portfolio.markets - tick[k].markets]]
    /\ UNCHANGED <<kv, refusals, budgets>>

\* The block ends; the call replayed at it meets the state it ends in.
CloseBlock ==
    /\ \E k \in Ticks : tick[k].pc = "receipt" /\ tick[k].result # "NONE" /\ ~tick[k].sealed
    /\ tick' = [k \in Ticks |->
                  IF tick[k].pc = "receipt" /\ tick[k].result # "NONE" /\ ~tick[k].sealed
                  THEN [tick[k] EXCEPT !.sealed = TRUE, !.replay = Evaluate(portfolio, tick[k].i)]
                  ELSE tick[k]]
    /\ UNCHANGED <<chainVars, kv, refusals, budgets>>

\* Time passes between two blocks: every transaction of a block has its time.
Pass ==
    /\ portfolio.now < MaxTime
    /\ \A k \in Ticks : tick[k].result # "NONE" => tick[k].sealed
    /\ portfolio' = [portfolio EXCEPT !.now = @ + 1]
    /\ UNCHANGED <<admitted, mempool, kv, tick, refusals, budgets>>

\* A transaction nobody will ever mine.
Drop(x) ==
    /\ x \in mempool
    /\ mempool' = mempool \ {x}
    /\ UNCHANGED <<portfolio, admitted, kv, tick, refusals, budgets>>

\* Other agents use headroom and track markets, keepers release and prune, the
\* owner enables and disables the agent and sets the end of the policy, market
\* makers move the book.
Elsewhere ==
    {s \in [now : {portfolio.now}, enabled : BOOLEAN, policyEnd : PolicyEnds,
            nonce : {portfolio.nonce}, lastTrade : {portfolio.lastTrade}, usage : 0 .. Ceiling,
            markets : 0 .. MaxMarkets, band : Bands] :
        \E f \in {"enabled", "policyEnd", "usage", "markets", "band"} :
            /\ s[f] # portfolio[f]
            /\ f \in {"usage", "markets"} => s[f] - portfolio[f] \in {-1, 1}
            /\ \A g \in DOMAIN portfolio \ {f} : s[g] = portfolio[g]}

Others ==
    /\ moves < MaxMoves /\ moves' = moves + 1
    /\ \E s \in Elsewhere : portfolio' = s /\ tick' = Shaken(tick, s)
    /\ UNCHANGED <<admitted, mempool, kv, refusals, faults>>

-----------------------------------------------------------------------------

Init ==
    /\ portfolio \in [now : {1}, enabled : {TRUE}, policyEnd : PolicyEnds, nonce : {0}, lastTrade : {0},
                    usage : {0}, markets : {0}, band : Bands]
    /\ admitted = {} /\ mempool = {}
    /\ offset = DefaultOffset /\ last = "none"
    /\ tick = [k \in Ticks |-> IdleTick]
    /\ refusals = [h \in {} |-> NoIntent]
    /\ faults = 0 /\ moves = 0

Start(k) == NoMarket(k) \/ NoSignal(k) \/ Propose(k)

Step(k) ==
    \/ ReadNonce(k) \/ Preflight(k) \/ Estimate(k)
    \/ Send(k) \/ SendFails(k) \/ Throw(k) \/ Receipt(k) \/ Report(k) \/ ReportFails(k)

Chain == (\E x \in mempool : Mine(x) \/ Drop(x)) \/ CloseBlock \/ Pass \/ Others

Next == (\E k \in Ticks : Start(k) \/ Step(k)) \/ Chain

Spec == Init /\ [][Next]_vars

\* The cron starts ticks for ever, an invocation runs on, a block that holds a
\* transaction ends.  Nothing says that a transaction is mined, nor when.
FairSpec ==
    /\ Spec
    /\ \A k \in Ticks : WF_vars(Start(k)) /\ WF_vars(Step(k))
    /\ WF_vars(CloseBlock)

=============================================================================
