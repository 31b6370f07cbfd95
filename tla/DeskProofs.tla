---------------------------- MODULE DeskProofs ----------------------------
(***************************************************************************)
(* Proofs about the desk, for any number of overlapping ticks, any ceiling *)
(* and any book.                                                           *)
(***************************************************************************)
EXTENDS DeskSafety, TLAPS

-----------------------------------------------------------------------------
(* Types.                                                                  *)

Intents == [kind : Kinds \cup {"NONE"}, price : Nat, off : 0 .. MaxOffset, expiry : Nat,
            nonce : Nat]
Refused == RefusalCodes \cup {"POST_ONLY_WOULD_CROSS"}
Results == Refused \cup {"NONE", "OUT_OF_GAS", "SUCCESS"}
Owners == Ticks \cup {"nobody"}

Portfolios == [now : Nat, enabled : BOOLEAN, policyEnd : Nat, nonce : Nat, lastTrade : Nat,
               usage : 0 .. Ceiling, markets : Nat, band : Nat]
Transactions == [i : Intents, gas : Nat, tick : Owners]
Records == [code : RefusalCodes, own : Results, clean : BOOLEAN]
Invocations ==
    [pc : Pcs, i : Intents, picked : Nat, markets : Nat, gas : Nat, result : Results,
     took : Int, sealed : BOOLEAN,
     replay : RefusalCodes \cup {"NONE"}, grown : Int, moved : BOOLEAN, clean : BOOLEAN,
     repeated : BOOLEAN, outcome : Outcomes, reported : BOOLEAN]

Typed ==
    /\ portfolio \in Portfolios
    /\ admitted \subseteq Intents
    /\ mempool \subseteq Transactions
    /\ offset \in DefaultOffset .. MaxOffset
    /\ last \in Outcomes
    /\ tick \in [Ticks -> Invocations]
    /\ DOMAIN refusals \subseteq Intents
    /\ \A h \in DOMAIN refusals : refusals[h] \in Records

-----------------------------------------------------------------------------
(* Strengthenings.                                                         *)

\* What the fields of an invocation say of each other.
InShape(t) ==
    /\ t.result = "NONE" => ~t.sealed
    /\ t.pc \notin {"receipt", "report"} => t.result = "NONE"
    /\ t.pc = "report" => t.result \in Refused /\ t.sealed
    /\ t.pc # "done" => t.outcome = "none"
    /\ t.reported => t.outcome = "refused-onchain"
    /\ t.pc \in {"send", "receipt"} => t.gas = GasLimit(GasCost(t.markets))
    /\ t.pc \in {"nonce", "preview", "estimate", "send", "receipt"} =>
         t.i.expiry - t.picked >= MinRemaining

\* A transaction that somebody waits for is that invocation's own, and the only one.
Awaited(x, k) ==
    /\ tick[k].pc = "receipt" /\ tick[k].result = "NONE"
    /\ x.i = tick[k].i /\ x.gas = tick[k].gas

\* A market was picked before now.
PickedBefore == \A k \in Ticks : tick[k].picked <= portfolio.now

ShapeOK ==
    /\ \A k \in Ticks : InShape(tick[k])
    /\ PickedBefore
    /\ \A x \in mempool, k \in Ticks : x.tick = k => Awaited(x, k)

\* What was estimated still goes through while nothing has moved, or comes too
\* late: only the gates of time can have closed.
GoesThrough(k) ==
    /\ portfolio.enabled /\ Cooled(portfolio)
    /\ portfolio.policyEnd # 0 /\ portfolio.policyEnd >= tick[k].picked
    /\ tick[k].i.nonce > portfolio.nonce
    /\ portfolio.usage + 1 <= Ceiling
    /\ tick[k].i.off >= portfolio.band
    /\ tick[k].markets = portfolio.markets

Undecided(t) == t.pc = "send" \/ (t.pc = "receipt" /\ t.result = "NONE")

UnmovedGoesThrough ==
    \A k \in Ticks :
        /\ Undecided(tick[k]) /\ ~tick[k].moved => GoesThrough(k)
        /\ tick[k].result \notin {"NONE", "SUCCESS"} => tick[k].moved \/ Overtaken(tick[k])
        /\ tick[k].result = "OUT_OF_GAS" => tick[k].grown > 1

\* What the contract has said, whatever the venue said after it.
Verdict(result) == IF result \in RefusalCodes THEN result ELSE "NONE"

CleanReplays ==
    /\ \A k \in Ticks :
          tick[k].clean /\ tick[k].result \in Refused =>
              IF tick[k].sealed THEN tick[k].replay = Verdict(tick[k].result)
              ELSE Evaluate(portfolio, tick[k].i) = Verdict(tick[k].result)
    /\ RecordedCodeIsTheRevert

\* An invocation whose intent may have left a trace.
Traced(t) ==
    t.pc \in {"receipt", "report"} \/ (t.pc = "done" /\ t.outcome \in {"submitted", "refused-onchain"})

OnlyTrace(k) ==
    LET t == tick[k]
    IN  /\ \A x \in mempool : x.i = t.i => x.tick = k
        /\ \A j \in Ticks \ {k} : Traced(tick[j]) => tick[j].i # t.i
        /\ t.i \in admitted <=> t.result = "SUCCESS" \/ t.outcome = "submitted"
        /\ t.i \in DOMAIN refusals => t.outcome = "refused-onchain"
        /\ t.reported => t.i \in DOMAIN refusals

UnrepeatedIsAlone == \A k \in Ticks : Traced(tick[k]) /\ ~tick[k].repeated => OnlyTrace(k)

-----------------------------------------------------------------------------
(* Types are kept.                                                         *)

\* An invocation that has not started is typed.
LEMMA IdleTyped == IdleTick \in Invocations /\ InShape(IdleTick) /\ ~Traced(IdleTick)
  BY DEF IdleTick, NoIntent, Invocations, InShape, Traced, Intents, Pcs, Results, Refused, Outcomes, MaxOffset

\* The offset stays between the default and the most, whatever order it answers.
LEMMA OffsetBounds ==
    ASSUME NEW off \in 0 .. MaxOffset, NEW crossed \in BOOLEAN
    PROVE  NextOffset(off, crossed) \in DefaultOffset .. MaxOffset
  BY DEF NextOffset, Lesser, Greater, DefaultOffset, MaxOffset

\* An order that is proposed is an intent, for whatever nonce it gets.
LEMMA ProposalsTyped ==
    ASSUME offset \in DefaultOffset .. MaxOffset, NEW p \in Proposals(offset), NEW e \in Expiries,
           NEW n \in Nat
    PROVE  [kind |-> p.kind, price |-> p.price, off |-> p.off, expiry |-> e, nonce |-> n] \in Intents
<1>1. PICK k \in Kinds, b \in Bids : p = [kind |-> k, price |-> Price(k, b, offset), off |-> offset]
  BY DEF Proposals
<1>2. Price(k, b, offset) \in Nat
  BY DeskConstants DEF Price, DefaultOffset, MaxOffset
<1> QED  BY <1>1, <1>2, DeskConstants DEF Intents, DefaultOffset

\* What a transaction comes to is a result, and its verdict a code or none.
LEMMA ResultTyped ==
    ASSUME NEW s, NEW i, NEW gas
    PROVE  /\ Evaluate(s, i) \in RefusalCodes \cup {"NONE"}
           /\ Result(s, i, gas) \in Results \ {"NONE"}
           /\ Result(s, i, gas) \in Refused => Evaluate(s, i) = Verdict(Result(s, i, gas))
  BY DEF Evaluate, Result, Results, Refused, RefusalCodes, Verdict

\* An invocation that ends keeps its intent if the chain has decided on it, and
\* nothing else.
Ends(t, s, outcome, reported) ==
    /\ t \in Invocations /\ InShape(t)
    /\ t.pc = "done" /\ t.result = "NONE" /\ ~t.moved /\ t.outcome = outcome /\ ~t.sealed
    /\ t.picked = 0 /\ (t.reported => reported)
    /\ Traced(t) => t.i = s.i /\ t.repeated = s.repeated /\ outcome \in {"submitted", "refused-onchain"}

LEMMA Ending ==
    ASSUME Typed, NEW k \in Ticks, NEW outcome \in Outcomes, NEW reported \in BOOLEAN,
           reported => outcome = "refused-onchain", End(k, outcome, reported)
    PROVE  /\ \E t : Ends(t, tick[k], outcome, reported) /\ tick' = [tick EXCEPT ![k] = t]
           /\ last' \in Outcomes
<1>0. tick[k] \in Invocations  BY DEF Typed
<1>1. CASE outcome \in {"submitted", "refused-onchain"}
  <2> DEFINE t == [IdleTick EXCEPT !.pc = "done", !.i = tick[k].i, !.repeated = tick[k].repeated,
                                   !.outcome = outcome, !.reported = reported]
  <2>1. tick' = [tick EXCEPT ![k] = t]  BY <1>1 DEF End, Goto
  <2>2. t \in Invocations
    BY <1>0, IdleTyped DEF IdleTick, Invocations, Pcs
  <2>3. /\ t.pc = "done" /\ t.result = "NONE" /\ ~t.moved /\ t.outcome = outcome /\ ~t.sealed
        /\ t.i = tick[k].i /\ t.repeated = tick[k].repeated /\ t.picked = 0
    BY DEF IdleTick
  <2>4. t.reported = reported  BY DEF IdleTick
  <2>5. Ends(t, tick[k], outcome, reported)
    <3> HIDE DEF t
    <3> QED  BY <1>1, <2>2, <2>3, <2>4 DEF Ends, InShape, Traced
  <2> QED  BY <2>1, <2>5 DEF End
<1>2. CASE outcome \notin {"submitted", "refused-onchain"}
  <2> DEFINE t == [IdleTick EXCEPT !.pc = "done", !.outcome = outcome]
  <2>1. tick' = [tick EXCEPT ![k] = t]  BY <1>2 DEF End, Goto
  <2>2. t \in Invocations  BY IdleTyped DEF IdleTick, Invocations, Pcs
  <2>3. /\ t.pc = "done" /\ t.result = "NONE" /\ ~t.moved /\ t.outcome = outcome /\ ~t.sealed
        /\ ~t.reported /\ t.picked = 0
    BY DEF IdleTick
  <2>4. Ends(t, tick[k], outcome, reported)
    <3> HIDE DEF t
    <3> QED  BY <1>2, <2>2, <2>3 DEF Ends, InShape, Traced
  <2> QED  BY <2>1, <2>4 DEF End
<1> QED  BY <1>1, <1>2

\* The same invocation, except that its intent may have been repeated.
Alike(t, s) ==
    /\ t \in Invocations
    /\ t.pc = s.pc /\ t.i = s.i /\ t.markets = s.markets /\ t.gas = s.gas /\ t.result = s.result
    /\ t.picked = s.picked /\ t.took = s.took
    /\ t.sealed = s.sealed /\ t.replay = s.replay /\ t.grown = s.grown /\ t.moved = s.moved
    /\ t.clean = s.clean /\ t.outcome = s.outcome /\ t.reported = s.reported
    /\ s.repeated => t.repeated

\* Sending an intent only marks the others that sent the same one.
LEMMA Repeating ==
    ASSUME Typed, NEW k \in Ticks, NEW j \in Ticks
    PROVE  /\ Alike(Repeats(k)[j], tick[j])
           /\ j # k /\ tick[j].i = tick[k].i => Repeats(k)[j].repeated
<1>1. tick[j] \in Invocations  BY DEF Typed
<1>2. ASSUME NEW b \in BOOLEAN, Repeats(k)[j] = [tick[j] EXCEPT !.repeated = b], tick[j].repeated => b
      PROVE  Alike(Repeats(k)[j], tick[j]) /\ Repeats(k)[j].repeated = b
  BY <1>1, <1>2 DEF Alike, Invocations
<1> DEFINE b == tick[j].repeated \/ (j # k /\ tick[j].i = tick[k].i)
<1>3. b \in BOOLEAN  OBVIOUS
<1>4. Repeats(k)[j] = [tick[j] EXCEPT !.repeated = b]  BY DEF Repeats
<1>5. (tick[j].repeated => b) /\ (j # k /\ tick[j].i = tick[k].i => b)  OBVIOUS
<1> HIDE DEF b
<1> QED  BY <1>2, <1>3, <1>4, <1>5

\* A transaction that leaves: its invocation waits for it, the others may learn
\* that theirs was sent before.
Leaves(k) ==
    /\ tick[k].pc = "send"
    /\ \A j \in Ticks \ {k} : /\ Alike(tick'[j], tick[j])
                              /\ tick[j].i = tick[k].i => tick'[j].repeated
    /\ DOMAIN tick' = Ticks

LEMMA Sending ==
    ASSUME Typed, NEW k \in Ticks, Send(k)
    PROVE  /\ Leaves(k) /\ mempool' = mempool \cup {Out(k, k)}
           /\ tick'[k] \in Invocations
           /\ tick'[k].pc = "receipt" /\ tick'[k].repeated = (tick[k].i \in Sent)
           /\ tick'[k].i = tick[k].i /\ tick'[k].gas = tick[k].gas
           /\ tick'[k].result = tick[k].result /\ tick'[k].sealed = tick[k].sealed
           /\ tick'[k].moved = tick[k].moved /\ tick'[k].markets = tick[k].markets
           /\ tick'[k].picked = tick[k].picked
           /\ tick'[k].outcome = tick[k].outcome /\ tick'[k].reported = tick[k].reported
<1> DEFINE r == Repeats(k)
           b == tick[k].i \in Sent
<1>0. DOMAIN r = Ticks /\ tick[k] \in Invocations  BY DEF Repeats, Typed
<1>1. \A j \in Ticks : /\ Alike(r[j], tick[j])
                       /\ j # k /\ tick[j].i = tick[k].i => r[j].repeated
  BY Repeating
<1>2. tick' = [r EXCEPT ![k].pc = "receipt", ![k].repeated = b]  BY DEF Send
<1>3. tick[k].pc = "send" /\ mempool' = mempool \cup {Out(k, k)}  BY DEF Send
<1>4. b \in BOOLEAN  OBVIOUS
<1> HIDE DEF r, b
<1>5. \A j \in Ticks \ {k} : tick'[j] = r[j]  BY <1>0, <1>2
<1>6. DOMAIN tick' = Ticks  BY <1>0, <1>2
<1>7. tick'[k] = [[r[k] EXCEPT !.pc = "receipt"] EXCEPT !.repeated = b]  BY <1>0, <1>2
<1>8. Alike(r[k], tick[k])  BY <1>1
<1>9. /\ tick'[k] \in Invocations
      /\ tick'[k].pc = "receipt" /\ tick'[k].repeated = b
      /\ tick'[k].i = tick[k].i /\ tick'[k].gas = tick[k].gas
      /\ tick'[k].result = tick[k].result /\ tick'[k].sealed = tick[k].sealed
      /\ tick'[k].moved = tick[k].moved /\ tick'[k].markets = tick[k].markets
      /\ tick'[k].picked = tick[k].picked
      /\ tick'[k].outcome = tick[k].outcome /\ tick'[k].reported = tick[k].reported
  BY <1>4, <1>7, <1>8 DEF Alike, Invocations, Pcs
<1> QED  BY <1>1, <1>3, <1>5, <1>6, <1>9 DEF b, Leaves

LEMMA SendingFails ==
    ASSUME Typed, NEW k \in Ticks, SendFails(k)
    PROVE  /\ Leaves(k) /\ mempool' \in {mempool, mempool \cup {Out(k, "nobody")}}
           /\ Ends(tick'[k], tick[k], "send-failed", FALSE)
<1> DEFINE r == Repeats(k)
           t == [IdleTick EXCEPT !.pc = "done", !.outcome = "send-failed"]
<1>0. DOMAIN r = Ticks  BY DEF Repeats
<1>1. \A j \in Ticks : /\ Alike(r[j], tick[j])
                       /\ j # k /\ tick[j].i = tick[k].i => r[j].repeated
  BY Repeating
<1>2. tick' = [r EXCEPT ![k] = t]  BY DEF SendFails
<1>3. tick[k].pc = "send" /\ mempool' \in {mempool, mempool \cup {Out(k, "nobody")}}
  BY DEF SendFails
<1>4. Ends(t, tick[k], "send-failed", FALSE)
  <2>1. t \in Invocations  BY IdleTyped DEF IdleTick, Invocations, Pcs, Outcomes
  <2>2. /\ t.pc = "done" /\ t.result = "NONE" /\ ~t.moved /\ t.outcome = "send-failed"
        /\ ~t.sealed /\ ~t.reported /\ t.picked = 0
    BY DEF IdleTick
  <2> HIDE DEF t
  <2> QED  BY <2>1, <2>2 DEF Ends, InShape, Traced
<1> HIDE DEF r, t
<1>5. tick'[k] = t /\ \A j \in Ticks \ {k} : tick'[j] = r[j]  BY <1>0, <1>2
<1>6. DOMAIN tick' = Ticks  BY <1>0, <1>2
<1> QED  BY <1>1, <1>3, <1>4, <1>5, <1>6 DEF Leaves

\* What an invocation does keeps every type.
LEMMA TypedLocal == ASSUME Typed, NEW k \in Ticks, Start(k) \/ Step(k) PROVE Typed'
<1>0. tick[k] \in Invocations /\ tick[k].i \in Intents /\ portfolio \in Portfolios
  BY DEF Typed, Invocations
<1>1. ASSUME NEW t \in Invocations, tick' = [tick EXCEPT ![k] = t],
             UNCHANGED <<portfolio, admitted, mempool, offset, last, refusals>>
      PROVE  Typed'
  BY <1>1 DEF Typed
<1>2. ASSUME NEW outcome \in Outcomes, NEW reported \in BOOLEAN, reported => outcome = "refused-onchain",
             End(k, outcome, reported), offset' \in DefaultOffset .. MaxOffset,
             UNCHANGED <<portfolio, admitted, refusals>>, mempool' \subseteq Transactions
      PROVE  Typed'
  BY <1>2, Ending DEF Typed, Ends
<1>3. NextOffset(tick[k].i.off, TRUE) \in DefaultOffset .. MaxOffset
      /\ NextOffset(tick[k].i.off, FALSE) \in DefaultOffset .. MaxOffset
  BY <1>0, OffsetBounds DEF Intents
<1>4. CASE NoMarket(k)  BY <1>2, <1>4 DEF NoMarket, Typed, Outcomes, chainVars
<1>5. CASE NoSignal(k)  BY <1>2, <1>5 DEF NoSignal, Typed, Outcomes, chainVars
<1>6. CASE Propose(k)
  <2>1. PICK e \in Expiries, p \in Proposals(offset) :
           Goto(k, [IdleTick EXCEPT !.pc = "nonce", !.picked = portfolio.now,
                       !.i = [kind |-> p.kind, price |-> p.price, off |-> p.off,
                              expiry |-> e, nonce |-> 0]])
    BY <1>6 DEF Propose
  <2> DEFINE i == [kind |-> p.kind, price |-> p.price, off |-> p.off, expiry |-> e, nonce |-> 0]
  <2>2. i \in Intents  BY ProposalsTyped DEF Typed
  <2> HIDE DEF i
  <2>3. [IdleTick EXCEPT !.pc = "nonce", !.picked = portfolio.now, !.i = i] \in Invocations
    BY <1>0, <2>2, IdleTyped DEF IdleTick, Invocations, Pcs, Portfolios
  <2> QED  BY <1>1, <1>6, <2>1, <2>3 DEF Propose, Goto, chainVars, kv, i
<1>7. CASE ReadNonce(k)
  <2>1. portfolio.nonce + 1 \in Nat  BY <1>0 DEF Portfolios
  <2>2. [tick[k].i EXCEPT !.nonce = portfolio.nonce + 1] \in Intents  BY <1>0, <2>1 DEF Intents
  <2>3. [tick[k] EXCEPT !.pc = "preview", !.i.nonce = portfolio.nonce + 1] \in Invocations
    BY <1>0, <2>2 DEF Invocations, Pcs
  <2> QED  BY <1>1, <1>7, <2>3 DEF ReadNonce, Goto, chainVars, kv
<1>8. CASE Preflight(k)
  <2>1. [tick[k] EXCEPT !.pc = "estimate"] \in Invocations  BY <1>0 DEF Invocations, Pcs
  <2> QED  BY <1>1, <1>2, <1>8, <2>1 DEF Preflight, Goto, Typed, Outcomes, chainVars
<1>9. CASE Estimate(k)
  <2>1. portfolio.markets \in Nat /\ GasLimit(GasCost(portfolio.markets)) \in Nat
    BY <1>0 DEF Portfolios, GasLimit, GasCost
  <2>2. \A c \in Nat : [tick[k] EXCEPT !.pc = "send", !.gas = c, !.markets = portfolio.markets] \in Invocations
    BY <1>0, <2>1 DEF Invocations, Pcs
  <2>3. CASE \E c \in Nat : Goto(k, [tick[k] EXCEPT !.pc = "send", !.gas = c, !.markets = portfolio.markets])
             /\ UNCHANGED kv
    BY <1>1, <1>9, <2>2, <2>3 DEF Estimate, Goto, chainVars, kv
  <2>4. CASE offset' = NextOffset(tick[k].i.off, TRUE) /\ End(k, "venue-rejected", FALSE)
    BY <1>2, <1>3, <1>9, <2>4 DEF Estimate, Typed, Outcomes, chainVars
  <2>5. CASE End(k, "send-failed", FALSE) /\ UNCHANGED offset
    BY <1>2, <1>9, <2>5 DEF Estimate, Typed, Outcomes, chainVars
  <2> QED  BY <1>9, <2>1, <2>3, <2>4, <2>5 DEF Estimate
<1>10. CASE Send(k)
  <2>1. Out(k, k) \in Transactions  BY <1>0 DEF Out, Transactions, Owners, Invocations
  <2>2. \A j \in Ticks : tick'[j] \in Invocations  BY <1>10, Sending DEF Leaves, Alike
  <2>3. tick' \in [Ticks -> Invocations]
    BY <1>10, <2>2 DEF Send, Repeats
  <2>4. mempool' \subseteq Transactions  BY <1>10, <2>1 DEF Send, Typed
  <2> QED  BY <1>10, <2>3, <2>4 DEF Send, Typed, kv
<1>11. CASE SendFails(k)
  <2>1. Out(k, "nobody") \in Transactions  BY <1>0 DEF Out, Transactions, Owners, Invocations
  <2>2. \A j \in Ticks : tick'[j] \in Invocations  BY <1>11, SendingFails DEF Leaves, Alike, Ends
  <2>3. tick' \in [Ticks -> Invocations]
    BY <1>11, <2>2 DEF SendFails, Repeats
  <2>4. mempool' \subseteq Transactions  BY <1>11, <2>1, SendingFails DEF Typed
  <2> QED  BY <1>11, <2>3, <2>4 DEF SendFails, Typed, Outcomes
<1>12. CASE Throw(k)
  <2>1. \A x \in mempool : [x EXCEPT !.tick = "nobody"] \in Transactions
    BY DEF Typed, Transactions, Owners
  <2>2. mempool' \subseteq Transactions  BY <1>12, <2>1 DEF Throw, Typed
  <2> QED  BY <1>2, <1>12, <2>2 DEF Throw, Typed, Outcomes
<1>13. CASE Receipt(k)
  <2>1. [tick[k] EXCEPT !.pc = "report"] \in Invocations  BY <1>0 DEF Invocations, Pcs
  <2> QED  BY <1>1, <1>2, <1>3, <1>13, <2>1 DEF Receipt, Goto, Typed, Outcomes, chainVars, kv
<1>14. CASE Report(k) \/ ReportFails(k)
  <2>1. \E reported \in BOOLEAN : End(k, "refused-onchain", reported)
    BY <1>14 DEF Report, ReportFails
  <2>2. UNCHANGED <<portfolio, admitted, mempool, offset>>
    BY <1>14 DEF Report, ReportFails, chainVars
  <2>3. UNCHANGED refusals \/ (refusals' = Recorded(tick[k]) /\ tick[k].replay \in RefusalCodes)
    BY <1>14 DEF Report, ReportFails, Replay
  <2>4. DOMAIN refusals' \subseteq Intents /\ \A h \in DOMAIN refusals' : refusals'[h] \in Records
    <3>1. CASE UNCHANGED refusals  BY <3>1 DEF Typed
    <3>2. CASE refusals' = Recorded(tick[k]) /\ tick[k].replay \in RefusalCodes
      <4> DEFINE r == [code |-> tick[k].replay, own |-> tick[k].result, clean |-> tick[k].clean]
      <4>1. r \in Records  BY <1>0, <3>2 DEF Records, Invocations
      <4>2. refusals' = [g \in DOMAIN refusals \cup {tick[k].i} |-> IF g = tick[k].i THEN r ELSE refusals[g]]
        BY <3>2 DEF Recorded, IntentHash, Replay
      <4> HIDE DEF r
      <4> QED  BY <1>0, <4>1, <4>2 DEF Typed
    <3> QED  BY <2>3, <3>1, <3>2
  <2>5. last' \in Outcomes /\ tick' \in [Ticks -> Invocations]
    BY <2>1, Ending DEF Ends, Typed, Outcomes
  <2> QED  BY <2>2, <2>4, <2>5 DEF Typed
<1> QED
  BY <1>4, <1>5, <1>6, <1>7, <1>8, <1>9, <1>10, <1>11, <1>12, <1>13, <1>14 DEF Start, Step

\* A change elsewhere is remembered, and alters an invocation in nothing else.
Stirred(t, s) ==
    /\ t \in Invocations
    /\ t.pc = s.pc /\ t.i = s.i /\ t.markets = s.markets /\ t.gas = s.gas /\ t.result = s.result
    /\ t.picked = s.picked /\ t.took = s.took
    /\ t.sealed = s.sealed /\ t.replay = s.replay /\ t.grown = s.grown
    /\ t.outcome = s.outcome /\ t.reported = s.reported /\ t.repeated = s.repeated
    /\ s.moved => t.moved
    /\ t.clean => s.clean

LEMMA Shaking ==
    ASSUME Typed, NEW s, NEW j \in Ticks
    PROVE  /\ Stirred(Shaken(tick, s)[j], tick[j])
           /\ s # portfolio /\ Undecided(tick[j]) /\ InShape(tick[j]) => Shaken(tick, s)[j].moved
           /\ s # portfolio /\ tick[j].result # "NONE" /\ ~tick[j].sealed => ~Shaken(tick, s)[j].clean
<1>1. tick[j] \in Invocations  BY DEF Typed
<1>2. CASE s = portfolio
  <2>1. Shaken(tick, s)[j] = tick[j]  BY <1>2 DEF Shaken
  <2> QED  BY <1>1, <1>2, <2>1 DEF Stirred
<1>3. CASE s # portfolio
  <2> DEFINE m == tick[j].moved \/ (tick[j].pc \in {"send", "receipt"} /\ tick[j].result = "NONE")
             c == tick[j].clean /\ (tick[j].result = "NONE" \/ tick[j].sealed)
  <2>1. Shaken(tick, s)[j] = [[tick[j] EXCEPT !.moved = m] EXCEPT !.clean = c]  BY <1>3 DEF Shaken
  <2>2. m \in BOOLEAN /\ c \in BOOLEAN  OBVIOUS
  <2>3. /\ tick[j].moved => m
        /\ Undecided(tick[j]) /\ InShape(tick[j]) => m
        /\ c => tick[j].clean
        /\ tick[j].result # "NONE" /\ ~tick[j].sealed => ~c
    BY DEF Undecided, InShape
  <2> HIDE DEF m, c
  <2>4. ASSUME NEW t, t = [[tick[j] EXCEPT !.moved = m] EXCEPT !.clean = c]
        PROVE  /\ t \in Invocations /\ t.moved = m /\ t.clean = c
               /\ t.pc = tick[j].pc /\ t.i = tick[j].i /\ t.markets = tick[j].markets
               /\ t.gas = tick[j].gas /\ t.result = tick[j].result
               /\ t.sealed = tick[j].sealed /\ t.replay = tick[j].replay /\ t.grown = tick[j].grown
               /\ t.outcome = tick[j].outcome /\ t.reported = tick[j].reported
               /\ t.repeated = tick[j].repeated
    BY <1>1, <2>2, <2>4 DEF Invocations
  <2>5. /\ Shaken(tick, s)[j] \in Invocations
        /\ Shaken(tick, s)[j].moved = m /\ Shaken(tick, s)[j].clean = c
    BY <2>1, <2>4
  <2> QED  BY <2>1, <2>3, <2>4, <2>5 DEF Stirred
<1> QED  BY <1>2, <1>3

\* A transaction is mined: the state it leaves, and what its invocation learns.
Outcome(x) == Result(portfolio, x.i, x.gas)
After(x) == IF Outcome(x) = "SUCCESS" THEN Executed(portfolio, x.i) ELSE portfolio

LEMMA Mining ==
    ASSUME Typed, NEW x \in mempool, Mine(x)
    PROVE  /\ portfolio' = After(x) /\ After(x) \in Portfolios
           /\ \A j \in Ticks : j # x.tick => tick'[j] = Shaken(tick, After(x))[j]
           /\ x.tick \in Ticks =>
                /\ tick'[x.tick] \in Invocations
                /\ tick'[x.tick] = [tick[x.tick] EXCEPT !.result = Outcome(x),
                                       !.took = portfolio.now - tick[x.tick].picked,
                                       !.grown = portfolio.markets - tick[x.tick].markets]
           /\ tick' \in [Ticks -> Invocations]
<1>1. portfolio' = After(x)  BY DEF Mine, After, Outcome
<1>2. \A j \in Ticks : tick'[j] = IF j # x.tick THEN Shaken(tick, After(x))[j]
                                  ELSE [tick[j] EXCEPT !.result = Outcome(x),
                                           !.took = portfolio.now - tick[j].picked,
                                           !.grown = portfolio.markets - tick[j].markets]
  BY DEF Mine, After, Outcome
<1>3. After(x) \in Portfolios
  <2>1. portfolio \in Portfolios /\ x.i \in Intents  BY DEF Typed, Transactions
  <2>2. CASE Outcome(x) = "SUCCESS"
    <3>1. Evaluate(portfolio, x.i) = "NONE"
      BY <2>2, ResultTyped DEF Outcome, Result, RefusalCodes
    <3>2. portfolio.usage + 1 <= Ceiling
      BY <2>1, <3>1, DeskConstants DEF Evaluate, Portfolios
    <3>3. portfolio.usage + 1 \in 0 .. Ceiling /\ Lesser(portfolio.markets + 1, MaxMarkets) \in Nat
      BY <2>1, <3>2, DeskConstants DEF Portfolios, Lesser
    <3> QED  BY <2>1, <2>2, <3>3 DEF After, Executed, Portfolios, Intents
  <2> QED  BY <2>1, <2>2 DEF After
<1>4. \A j \in Ticks : [tick[j] EXCEPT !.result = Outcome(x),
                                       !.took = portfolio.now - tick[j].picked,
                                       !.grown = portfolio.markets - tick[j].markets] \in Invocations
  <2>1. Outcome(x) \in Results  BY ResultTyped DEF Outcome
  <2>2. \A j \in Ticks : /\ tick[j] \in Invocations
                         /\ portfolio.markets - tick[j].markets \in Int
                         /\ portfolio.now - tick[j].picked \in Int
    BY DEF Typed, Portfolios, Invocations
  <2> QED  BY <2>1, <2>2 DEF Invocations
<1>5. \A j \in Ticks : tick'[j] \in Invocations  BY <1>2, <1>4, Shaking DEF Stirred
<1>6. tick' \in [Ticks -> Invocations]  BY <1>5 DEF Mine
<1> QED  BY <1>1, <1>2, <1>3, <1>4, <1>6

\* The block ends for every invocation it decided on.
LEMMA Closing ==
    ASSUME Typed, CloseBlock, NEW j \in Ticks
    PROVE  /\ tick'[j] \in Invocations
           /\ \/ tick'[j] = tick[j] /\ ~(tick[j].pc = "receipt" /\ tick[j].result # "NONE" /\ ~tick[j].sealed)
              \/ /\ tick[j].pc = "receipt" /\ tick[j].result # "NONE" /\ ~tick[j].sealed
                 /\ tick'[j] = [tick[j] EXCEPT !.sealed = TRUE,
                                               !.replay = Evaluate(portfolio, tick[j].i)]
<1>1. tick[j] \in Invocations  BY DEF Typed
<1>2. Evaluate(portfolio, tick[j].i) \in RefusalCodes \cup {"NONE"}  BY ResultTyped
<1>3. [tick[j] EXCEPT !.sealed = TRUE, !.replay = Evaluate(portfolio, tick[j].i)] \in Invocations
  BY <1>1, <1>2 DEF Invocations
<1> QED  BY <1>1, <1>3 DEF CloseBlock

\* Time passes: nothing else changes, and every block that has decided is closed.
LEMMA Passing ==
    ASSUME Typed, Pass
    PROVE  /\ portfolio' = [portfolio EXCEPT !.now = portfolio.now + 1]
           /\ portfolio' \in Portfolios
           /\ UNCHANGED <<admitted, mempool, tick, refusals>>
           /\ \A k \in Ticks : tick[k].result # "NONE" => tick[k].sealed
  BY DEF Pass, Typed, Portfolios

LEMMA TypedChain == ASSUME Typed, Chain PROVE Typed'
<1>1. ASSUME NEW x \in mempool, Mine(x) PROVE Typed'
  <2>1. portfolio' \in Portfolios /\ tick' \in [Ticks -> Invocations]  BY <1>1, Mining
  <2>2. admitted' \subseteq Intents  BY <1>1 DEF Mine, Typed, Transactions
  <2> QED  BY <1>1, <2>1, <2>2 DEF Mine, Typed, kv, budgets
<1>2. ASSUME NEW x \in mempool, Drop(x) PROVE Typed'
  BY <1>2 DEF Drop, Typed, kv
<1>3. CASE CloseBlock
  <2>1. \A j \in Ticks : tick'[j] \in Invocations  BY <1>3, Closing
  <2>2. tick' \in [Ticks -> Invocations]  BY <1>3, <2>1 DEF CloseBlock
  <2> QED  BY <1>3, <2>2 DEF CloseBlock, Typed, chainVars, kv
<1>4. CASE Others
  <2>1. PICK s \in Elsewhere : portfolio' = s /\ tick' = Shaken(tick, s)  BY <1>4 DEF Others
  <2>2. s \in Portfolios
    <3>1. s \in [now : {portfolio.now}, enabled : BOOLEAN, policyEnd : PolicyEnds,
                 nonce : {portfolio.nonce}, lastTrade : {portfolio.lastTrade}, usage : 0 .. Ceiling,
                 markets : 0 .. MaxMarkets, band : Bands]
      BY DEF Elsewhere
    <3>2. /\ {portfolio.now, portfolio.nonce, portfolio.lastTrade} \subseteq Nat
          /\ Bands \cup PolicyEnds \subseteq Nat /\ 0 .. MaxMarkets \subseteq Nat
      BY DeskConstants DEF Typed, Portfolios
    <3> QED  BY <3>1, <3>2 DEF Portfolios
  <2>3. \A j \in Ticks : tick'[j] \in Invocations  BY <2>1, Shaking DEF Stirred
  <2>4. tick' \in [Ticks -> Invocations]  BY <2>1, <2>3 DEF Shaken
  <2> QED  BY <1>4, <2>1, <2>2, <2>4 DEF Others, Typed, kv
<1>5. CASE Pass
  <2>1. portfolio' \in Portfolios  BY <1>5, Passing
  <2> QED  BY <1>5, <2>1 DEF Pass, Typed, kv
<1> QED  BY <1>1, <1>2, <1>3, <1>4, <1>5 DEF Chain

LEMMA TypedStep == ASSUME Typed, [Next]_vars PROVE Typed'
  BY TypedLocal, TypedChain DEF Next, vars, Typed

LEMMA TypedInit == ASSUME Init PROVE Typed
<1>1. portfolio \in Portfolios
  <2>1. 0 \in 0 .. Ceiling /\ Bands \cup PolicyEnds \subseteq Nat  BY DeskConstants
  <2>2. portfolio \in [now : {1}, enabled : {TRUE}, policyEnd : PolicyEnds, nonce : {0},
                        lastTrade : {0}, usage : {0}, markets : {0}, band : Bands]
    BY DEF Init
  <2>3. PICK e \in PolicyEnds, b \in Bands :
           portfolio = [now |-> 1, enabled |-> TRUE, policyEnd |-> e, nonce |-> 0, lastTrade |-> 0,
                        usage |-> 0, markets |-> 0, band |-> b]
    BY <2>2
  <2>4. e \in Nat /\ b \in Nat  BY <2>1
  <2> QED  BY <2>1, <2>3, <2>4 DEF Portfolios
<1>2. tick \in [Ticks -> Invocations]  BY IdleTyped DEF Init
<1>3. last \in Outcomes /\ offset \in DefaultOffset .. MaxOffset  BY DEF Init, Outcomes, DefaultOffset, MaxOffset
<1> QED  BY <1>1, <1>2, <1>3 DEF Init, Typed

\* Everything keeps its type: the offset stays between the default and the
\* most, no refusal is kept without a code, the domain stays under its ceiling
\* (strategies.ts, tick of the worker).
THEOREM DeskTypeCorrect == Spec => []DeskTypeOK
<1>1. Init => Typed  BY TypedInit
<1>2. Typed /\ [Next]_vars => Typed'  BY TypedStep
<1>3. Typed => DeskTypeOK  BY DEF Typed, DeskTypeOK, Invocations, Records, Portfolios
<1> QED  BY <1>1, <1>2, <1>3, PTL DEF Spec

-----------------------------------------------------------------------------
(* What an invocation does.                                                *)

\* It prepares an order: nothing of it has left the worker.
Prepares(k) ==
    /\ tick'[k].pc \in {"nonce", "preview", "estimate"} /\ tick'[k].result = "NONE" /\ InShape(tick'[k])
    /\ tick'[k].picked <= portfolio.now
    /\ UNCHANGED <<mempool, refusals>> /\ tick[k].pc \notin {"send", "receipt", "report"}

\* Its estimate went through.
Estimates(k) ==
    /\ tick[k].pc = "estimate" /\ tick'[k].pc = "send" /\ tick'[k].result = "NONE" /\ InShape(tick'[k])
    /\ tick'[k].picked = tick[k].picked /\ GoesThrough(k)' /\ UNCHANGED <<mempool, refusals>>

\* The chain has refused its intent.
Reports(k) ==
    /\ tick[k].pc = "receipt" /\ tick'[k].pc = "report" /\ InShape(tick'[k])
    /\ tick'[k].i = tick[k].i /\ tick'[k].result = tick[k].result /\ tick'[k].sealed = tick[k].sealed
    /\ tick'[k].replay = tick[k].replay /\ tick'[k].moved = tick[k].moved
    /\ tick'[k].clean = tick[k].clean /\ tick'[k].grown = tick[k].grown
    /\ tick'[k].repeated = tick[k].repeated /\ tick'[k].outcome = tick[k].outcome
    /\ tick'[k].reported = tick[k].reported /\ tick'[k].picked = tick[k].picked
    /\ tick'[k].took = tick[k].took
    /\ tick[k].result \notin {"NONE", "SUCCESS", "OUT_OF_GAS"} /\ tick[k].sealed
    /\ UNCHANGED <<mempool, refusals>>

\* A transaction that invocation k may just have given up.
Freed(x, y, k) ==
    /\ x.i = y.i /\ x.gas = y.gas
    /\ x.tick = y.tick \/ (y.tick = k /\ x.tick = "nobody")

\* It ends; nothing in the mempool is awaited by it any more.
Finishes(k) ==
    \E outcome \in Outcomes, reported \in BOOLEAN :
        /\ Ends(tick'[k], tick[k], outcome, reported)
        /\ outcome = "submitted" => tick[k].pc = "receipt" /\ tick[k].result = "SUCCESS"
        /\ outcome = "refused-onchain" => tick[k].pc = "report"
        /\ \A x \in mempool' : /\ x.tick # k
                               /\ \E y \in mempool : Freed(x, y, k)
        /\ outcome \in {"submitted", "refused-onchain"} => UNCHANGED mempool
        /\ \/ UNCHANGED refusals /\ ~reported
           \/ /\ tick[k].pc = "report" /\ outcome = "refused-onchain"
              /\ refusals' = Recorded(tick[k]) /\ tick[k].replay \in RefusalCodes

\* An invocation that ends from where nothing of it is awaited.
LEMMA Finishing ==
    ASSUME Typed, ShapeOK, NEW k \in Ticks, NEW outcome \in Outcomes, End(k, outcome, FALSE),
           outcome = "submitted" => tick[k].pc = "receipt" /\ tick[k].result = "SUCCESS",
           outcome = "refused-onchain" => tick[k].pc = "report",
           ~Undecided(tick[k]), UNCHANGED <<mempool, refusals>>
    PROVE  Finishes(k) /\ \A j \in Ticks \ {k} : tick'[j] = tick[j]
<1>1. PICK t : Ends(t, tick[k], outcome, FALSE) /\ tick' = [tick EXCEPT ![k] = t]  BY Ending
<1>2. Ends(tick'[k], tick[k], outcome, FALSE) /\ \A j \in Ticks \ {k} : tick'[j] = tick[j]
  BY <1>1 DEF Typed
<1>3. \A x \in mempool : x.tick # k  BY DEF ShapeOK, Awaited, Undecided
<1> QED  BY <1>2, <1>3 DEF Finishes, Freed

LEMMA LocalForms ==
    ASSUME Typed, ShapeOK, NEW k \in Ticks, Start(k) \/ Step(k)
    PROVE  /\ UNCHANGED <<portfolio, admitted>>
           /\ \/ Send(k) \/ SendFails(k)
              \/ /\ Prepares(k) \/ Estimates(k) \/ Reports(k) \/ Finishes(k)
                 /\ \A j \in Ticks \ {k} : tick'[j] = tick[j]
<1>0. /\ tick[k] \in Invocations /\ tick[k].i \in Intents /\ portfolio \in Portfolios
      /\ DOMAIN tick = Ticks /\ InShape(tick[k])
  BY DEF Typed, Invocations, ShapeOK
<1>t. tick[k].picked <= portfolio.now /\ portfolio.now \in Nat
  BY <1>0 DEF ShapeOK, PickedBefore, Portfolios
<1> DEFINE Form == \/ Send(k) \/ SendFails(k)
                   \/ /\ Prepares(k) \/ Estimates(k) \/ Reports(k) \/ Finishes(k)
                      /\ \A j \in Ticks \ {k} : tick'[j] = tick[j]
<1>1. UNCHANGED <<portfolio, admitted>>
  BY DEF Start, Step, NoMarket, NoSignal, Propose, ReadNonce, Preflight, Estimate, Send, SendFails,
         Throw, Receipt, Report, ReportFails, chainVars
<1>2. ASSUME NEW t, tick' = [tick EXCEPT ![k] = t] PROVE tick'[k] = t /\ \A j \in Ticks \ {k} : tick'[j] = tick[j]
  BY <1>0, <1>2
<1>3. tick[k].pc \in {"idle", "done", "preview", "estimate"} => ~Undecided(tick[k])
  BY DEF Undecided
<1>4. CASE NoMarket(k)  BY <1>3, <1>4, Finishing DEF NoMarket, Outcomes, chainVars
<1>5. CASE NoSignal(k)  BY <1>3, <1>5, Finishing DEF NoSignal, Outcomes, chainVars
<1>6. CASE Propose(k)
  <2>1. PICK e \in Expiries, p \in Proposals(offset) :
           /\ e - portfolio.now >= MinRemaining
           /\ Goto(k, [IdleTick EXCEPT !.pc = "nonce", !.picked = portfolio.now,
                         !.i = [kind |-> p.kind, price |-> p.price, off |-> p.off,
                                expiry |-> e, nonce |-> 0]])
    BY <1>6 DEF Propose
  <2> DEFINE i == [kind |-> p.kind, price |-> p.price, off |-> p.off, expiry |-> e, nonce |-> 0]
             t == [IdleTick EXCEPT !.pc = "nonce", !.picked = portfolio.now, !.i = i]
  <2>2. i.expiry = e  OBVIOUS
  <2> HIDE DEF i
  <2>3. /\ t.pc = "nonce" /\ t.result = "NONE" /\ ~t.sealed /\ t.outcome = "none" /\ ~t.reported
        /\ t.i = i /\ t.picked = portfolio.now
    BY DEF IdleTick
  <2>4. tick' = [tick EXCEPT ![k] = t]  BY <2>1 DEF Goto, i
  <2> HIDE DEF t
  <2>5. InShape(t)  BY <2>1, <2>2, <2>3 DEF InShape
  <2>6. tick'[k] = t /\ \A j \in Ticks \ {k} : tick'[j] = tick[j]  BY <1>2, <2>4
  <2>7. /\ UNCHANGED <<mempool, refusals>> /\ tick[k].pc \notin {"send", "receipt", "report"}
    BY <1>6 DEF Propose, chainVars
  <2>8. t.picked <= portfolio.now  BY <1>t, <2>3
  <2>9. Prepares(k)  BY <2>3, <2>5, <2>6, <2>7, <2>8 DEF Prepares
  <2> QED  BY <1>1, <2>6, <2>9
<1>7. CASE ReadNonce(k)
  <2> DEFINE t == [tick[k] EXCEPT !.pc = "preview", !.i.nonce = portfolio.nonce + 1]
  <2>1. tick' = [tick EXCEPT ![k] = t]  BY <1>7 DEF ReadNonce, Goto
  <2>2. /\ t.pc = "preview" /\ t.result = tick[k].result /\ t.sealed = tick[k].sealed
        /\ t.outcome = tick[k].outcome /\ t.reported = tick[k].reported
        /\ t.i = [tick[k].i EXCEPT !.nonce = portfolio.nonce + 1] /\ t.picked = tick[k].picked
    BY <1>0 DEF Invocations
  <2>3. t.i.expiry = tick[k].i.expiry
    <3> HIDE DEF t
    <3> QED  BY <1>0, <2>2 DEF Intents
  <2> HIDE DEF t
  <2> QED  BY <1>t, <1>0, <1>2, <1>7, <2>1, <2>2, <2>3 DEF ReadNonce, chainVars, Prepares, InShape
<1>8. CASE Preflight(k)
  <2>1. CASE Goto(k, [tick[k] EXCEPT !.pc = "estimate"])
    <3>1. tick'[k] = [tick[k] EXCEPT !.pc = "estimate"] /\ \A j \in Ticks \ {k} : tick'[j] = tick[j]
      BY <1>2, <2>1 DEF Goto
    <3>2. /\ tick'[k].pc = "estimate" /\ tick'[k].result = tick[k].result
          /\ tick'[k].sealed = tick[k].sealed /\ tick'[k].outcome = tick[k].outcome
          /\ tick'[k].reported = tick[k].reported
          /\ tick'[k].i = tick[k].i /\ tick'[k].picked = tick[k].picked
      BY <1>0, <3>1 DEF Invocations
    <3> QED  BY <1>t, <1>0, <1>8, <3>1, <3>2 DEF Preflight, chainVars, Prepares, InShape
  <2>2. CASE End(k, "refused-preflight", FALSE)
    BY <1>3, <1>8, <2>2, Finishing DEF Preflight, Outcomes, chainVars
  <2> QED  BY <1>8, <2>1, <2>2 DEF Preflight
<1>9. CASE Estimate(k)
  <2> DEFINE cost == GasCost(portfolio.markets)
  <2>1. CASE /\ Result(portfolio, tick[k].i, cost) = "SUCCESS"
             /\ Goto(k, [tick[k] EXCEPT !.pc = "send", !.gas = GasLimit(cost), !.markets = portfolio.markets])
    <3> DEFINE g == GasLimit(cost)
    <3>1. tick' = [tick EXCEPT ![k] = [tick[k] EXCEPT !.pc = "send", !.gas = g, !.markets = portfolio.markets]]
      BY <2>1 DEF Goto
    <3> HIDE DEF g
    <3>2. /\ tick'[k] = [tick[k] EXCEPT !.pc = "send", !.gas = g, !.markets = portfolio.markets]
          /\ \A j \in Ticks \ {k} : tick'[j] = tick[j]
      BY <1>2, <3>1
    <3>3. /\ tick'[k].pc = "send" /\ tick'[k].result = tick[k].result /\ tick'[k].i = tick[k].i
          /\ tick'[k].markets = portfolio.markets /\ tick'[k].gas = g
          /\ tick'[k].sealed = tick[k].sealed /\ tick'[k].outcome = tick[k].outcome
          /\ tick'[k].reported = tick[k].reported /\ tick'[k].picked = tick[k].picked
      BY <1>0, <3>2 DEF Invocations
    <3>4. Evaluate(portfolio, tick[k].i) = "NONE" /\ tick[k].i.off >= portfolio.band
      <4>1. Evaluate(portfolio, tick[k].i) = "NONE"
        BY <2>1, ResultTyped DEF Result, RefusalCodes
      <4>2. ~(tick[k].i.off < portfolio.band)  BY <2>1, <4>1 DEF Result
      <4> QED  BY <1>0, <4>1, <4>2 DEF Intents, Portfolios
    <3>5. GoesThrough(k)'
      <4>1. tick[k].picked <= portfolio.now  BY DEF ShapeOK, PickedBefore
      <4>2. /\ portfolio.enabled /\ Cooled(portfolio) /\ portfolio.policyEnd # 0
            /\ ~(portfolio.now > portfolio.policyEnd) /\ ~(tick[k].i.nonce <= portfolio.nonce)
            /\ ~(portfolio.usage + 1 > Ceiling)
        BY <3>4 DEF Evaluate
      <4>3. /\ portfolio.policyEnd >= tick[k].picked /\ tick[k].i.nonce > portfolio.nonce
            /\ portfolio.usage + 1 <= Ceiling
        BY <1>0, <4>1, <4>2, DeskConstants DEF Portfolios, Intents, Invocations
      <4> QED  BY <1>1, <3>3, <3>4, <4>2, <4>3 DEF GoesThrough
    <3>6. InShape(tick'[k])  BY <1>0, <1>9, <3>3 DEF Estimate, InShape, g
    <3> QED  BY <1>0, <1>1, <1>9, <3>2, <3>3, <3>5, <3>6 DEF Estimate, Estimates, InShape, chainVars
  <2>2. CASE End(k, "venue-rejected", FALSE)
    BY <1>3, <1>9, <2>2, Finishing DEF Estimate, Outcomes, chainVars
  <2>3. CASE End(k, "send-failed", FALSE)
    BY <1>3, <1>9, <2>3, Finishing DEF Estimate, Outcomes, chainVars
  <2> QED  BY <1>9, <2>1, <2>2, <2>3 DEF Estimate, Stops
<1>10. CASE Throw(k)
  <2>1. End(k, "threw", FALSE) /\ UNCHANGED refusals  BY <1>10 DEF Throw
  <2>2. PICK t : Ends(t, tick[k], "threw", FALSE) /\ tick' = [tick EXCEPT ![k] = t]
    BY <2>1, Ending DEF Outcomes
  <2>3. Ends(tick'[k], tick[k], "threw", FALSE) /\ \A j \in Ticks \ {k} : tick'[j] = tick[j]
    BY <1>2, <2>2
  <2>4. ASSUME NEW x \in mempool'
        PROVE  x.tick # k /\ \E y \in mempool : Freed(x, y, k)
    <3>1. PICK y \in mempool : x = IF y.tick = k THEN [y EXCEPT !.tick = "nobody"] ELSE y
      BY <1>10 DEF Throw
    <3>2. y \in Transactions  BY DEF Typed
    <3>3. CASE y.tick = k
      <4>1. x.i = y.i /\ x.gas = y.gas /\ x.tick = "nobody"  BY <3>1, <3>2, <3>3 DEF Transactions
      <4> QED  BY <3>3, <4>1, DeskConstants DEF Freed
    <3>4. CASE y.tick # k  BY <3>1, <3>4 DEF Freed
    <3> QED  BY <3>3, <3>4
  <2>5. Finishes(k)  BY <2>1, <2>3, <2>4 DEF Finishes, Outcomes
  <2> QED  BY <1>1, <2>3, <2>5
<1>11. CASE Receipt(k)
  <2>1. tick[k].pc = "receipt" /\ tick[k].sealed /\ ~Undecided(tick[k]) /\ UNCHANGED <<mempool, refusals>>
    BY <1>0, <1>11 DEF Receipt, Undecided, InShape, chainVars
  <2>2. CASE tick[k].result = "SUCCESS" /\ End(k, "submitted", FALSE)
    BY <1>1, <2>1, <2>2, Finishing DEF Outcomes
  <2>3. CASE End(k, "out-of-gas", FALSE)  BY <1>1, <2>1, <2>3, Finishing DEF Outcomes
  <2>4. CASE /\ tick[k].result \notin {"SUCCESS", "OUT_OF_GAS"}
             /\ Goto(k, [tick[k] EXCEPT !.pc = "report"])
    <3>1. tick'[k] = [tick[k] EXCEPT !.pc = "report"] /\ \A j \in Ticks \ {k} : tick'[j] = tick[j]
      BY <1>2, <2>4 DEF Goto
    <3>2. tick[k].result \notin {"NONE", "SUCCESS", "OUT_OF_GAS"}
      BY <1>0, <2>1, <2>4 DEF InShape
    <3>3. /\ tick'[k].pc = "report" /\ tick'[k].i = tick[k].i /\ tick'[k].result = tick[k].result
          /\ tick'[k].sealed = tick[k].sealed /\ tick'[k].replay = tick[k].replay
          /\ tick'[k].moved = tick[k].moved /\ tick'[k].clean = tick[k].clean
          /\ tick'[k].grown = tick[k].grown /\ tick'[k].repeated = tick[k].repeated
          /\ tick'[k].outcome = tick[k].outcome /\ tick'[k].reported = tick[k].reported
          /\ tick'[k].picked = tick[k].picked /\ tick'[k].took = tick[k].took
      BY <1>0, <3>1 DEF Invocations
    <3>4. tick[k].result \in Refused  BY <1>0, <3>2 DEF Invocations, Results
    <3>5. InShape(tick'[k])  BY <1>0, <2>1, <3>2, <3>3, <3>4 DEF InShape
    <3> QED  BY <1>1, <2>1, <3>1, <3>2, <3>3, <3>5 DEF Reports
  <2> QED  BY <1>11, <2>2, <2>3, <2>4 DEF Receipt
<1>12. CASE Report(k) \/ ReportFails(k)
  <2>1. PICK reported \in BOOLEAN :
           /\ End(k, "refused-onchain", reported)
           /\ \/ UNCHANGED refusals /\ ~reported
              \/ refusals' = Recorded(tick[k]) /\ tick[k].replay \in RefusalCodes
    BY <1>12 DEF Report, ReportFails, Replay
  <2>2. tick[k].pc = "report" /\ UNCHANGED mempool  BY <1>12 DEF Report, ReportFails, chainVars
  <2>3. PICK t : Ends(t, tick[k], "refused-onchain", reported) /\ tick' = [tick EXCEPT ![k] = t]
    BY <2>1, Ending DEF Outcomes
  <2>4. Ends(tick'[k], tick[k], "refused-onchain", reported) /\ \A j \in Ticks \ {k} : tick'[j] = tick[j]
    BY <1>2, <2>3
  <2>5. \A x \in mempool : x.tick # k  BY <2>2 DEF ShapeOK, Awaited
  <2>6. Finishes(k)  BY <2>1, <2>2, <2>4, <2>5 DEF Finishes, Freed, Outcomes
  <2> QED  BY <1>1, <2>4, <2>6
<1>13. Form
  BY <1>4, <1>5, <1>6, <1>7, <1>8, <1>9, <1>10, <1>11, <1>12 DEF Start, Step
<1> QED  BY <1>1, <1>13

-----------------------------------------------------------------------------
(* Transactions and those who wait for them.                               *)

LEMMA ShapeLocal == ASSUME Typed, ShapeOK, NEW k \in Ticks, Start(k) \/ Step(k) PROVE ShapeOK'
<1>0. UNCHANGED portfolio /\ portfolio.now \in Nat  BY LocalForms DEF Typed, Portfolios
<1>1. CASE Send(k)
  <2>1. /\ tick'[k].pc = "receipt" /\ tick'[k].i = tick[k].i /\ tick'[k].gas = tick[k].gas
        /\ tick'[k].result = tick[k].result /\ tick'[k].sealed = tick[k].sealed
        /\ tick'[k].markets = tick[k].markets
        /\ tick'[k].outcome = tick[k].outcome /\ tick'[k].reported = tick[k].reported
        /\ mempool' = mempool \cup {Out(k, k)} /\ Leaves(k) /\ tick'[k].picked = tick[k].picked
    BY <1>1, Sending
  <2>2. InShape(tick[k]) /\ tick[k].pc = "send"  BY <2>1 DEF ShapeOK, Leaves
  <2>3. InShape(tick'[k])  BY <2>1, <2>2 DEF InShape
  <2>6. PickedBefore'  BY <1>0, <2>1 DEF Leaves, Alike, ShapeOK, PickedBefore
  <2>4. ASSUME NEW j \in Ticks \ {k} PROVE InShape(tick'[j])
    BY <2>1 DEF Leaves, Alike, ShapeOK, InShape
  <2>5. ASSUME NEW x \in mempool', NEW j \in Ticks, x.tick = j PROVE Awaited(x, j)'
    <3>1. CASE x = Out(k, k)
      <4>1. x.i = tick[k].i /\ x.gas = tick[k].gas /\ j = k  BY <2>5, <3>1 DEF Out
      <4> QED  BY <2>1, <2>2, <4>1 DEF Awaited, InShape
    <3>2. CASE x \in mempool
      <4>1. Awaited(x, j)  BY <2>5, <3>2 DEF ShapeOK
      <4>2. j # k  BY <2>2, <4>1 DEF Awaited
      <4> QED  BY <2>1, <4>1, <4>2 DEF Leaves, Alike, Awaited
    <3> QED  BY <2>1, <3>1, <3>2
  <2> QED  BY <2>3, <2>4, <2>5, <2>6 DEF ShapeOK
<1>2. CASE SendFails(k)
  <2>1. /\ Leaves(k) /\ mempool' \in {mempool, mempool \cup {Out(k, "nobody")}} /\ InShape(tick'[k])
        /\ tick'[k].picked = 0
    BY <1>2, SendingFails DEF Ends
  <2>4. PickedBefore'  BY <1>0, <2>1 DEF Leaves, Alike, ShapeOK, PickedBefore
  <2>2. ASSUME NEW j \in Ticks \ {k} PROVE InShape(tick'[j])
    BY <2>1 DEF Leaves, Alike, ShapeOK, InShape
  <2>3. ASSUME NEW x \in mempool', NEW j \in Ticks, x.tick = j PROVE Awaited(x, j)'
    <3>1. x # Out(k, "nobody")  BY <2>3, DeskConstants DEF Out
    <3>2. Awaited(x, j)  BY <2>1, <2>3, <3>1 DEF ShapeOK
    <3>3. j # k  BY <2>1, <3>2 DEF Awaited, Leaves
    <3> QED  BY <2>1, <3>2, <3>3 DEF Leaves, Alike, Awaited
  <2> QED  BY <2>1, <2>2, <2>3, <2>4 DEF ShapeOK
<1>3. ASSUME InShape(tick'[k]), tick'[k].picked <= portfolio.now,
             \A j \in Ticks \ {k} : tick'[j] = tick[j],
             \A x \in mempool' : x.tick # k /\ \E y \in mempool : Freed(x, y, k)
      PROVE  ShapeOK'
  <2>1. \A j \in Ticks : InShape(tick'[j])  BY <1>3 DEF ShapeOK
  <2>2. ASSUME NEW x \in mempool', NEW j \in Ticks, x.tick = j PROVE Awaited(x, j)'
    <3>1. PICK y \in mempool : Freed(x, y, k)  BY <1>3
    <3>2. j # k /\ y.tick = j /\ y.i = x.i /\ y.gas = x.gas
      BY <1>3, <2>2, <3>1, DeskConstants DEF Freed
    <3>3. Awaited(y, j)  BY <3>2 DEF ShapeOK
    <3> QED  BY <1>3, <3>2, <3>3 DEF Awaited
  <2>3. PickedBefore'  BY <1>0, <1>3 DEF ShapeOK, PickedBefore
  <2> QED  BY <2>1, <2>2, <2>3 DEF ShapeOK
<1>4. CASE /\ Prepares(k) \/ Estimates(k) \/ Reports(k)
           /\ \A j \in Ticks \ {k} : tick'[j] = tick[j]
  <2>1. ~Undecided(tick[k])  BY <1>4 DEF Prepares, Estimates, Reports, Undecided
  <2>2. \A x \in mempool : x.tick # k  BY <2>1 DEF ShapeOK, Awaited, Undecided
  <2>3. tick[k].picked <= portfolio.now  BY DEF ShapeOK, PickedBefore
  <2> QED  BY <1>3, <1>4, <2>2, <2>3 DEF Prepares, Estimates, Reports, Freed
<1>5. CASE Finishes(k) /\ \A j \in Ticks \ {k} : tick'[j] = tick[j]
  BY <1>0, <1>3, <1>5 DEF Finishes, Ends
<1> QED  BY <1>1, <1>2, <1>4, <1>5, LocalForms

LEMMA PickedChain == ASSUME Typed, PickedBefore, Chain PROVE PickedBefore'
<1>0. portfolio \in Portfolios /\ \A j \in Ticks : tick[j] \in Invocations  BY DEF Typed
<1>1. ASSUME NEW x \in mempool, Mine(x) PROVE PickedBefore'
  <2>1. portfolio'.now = portfolio.now
    BY <1>0, <1>1, Mining DEF After, Executed, Portfolios
  <2>2. ASSUME NEW j \in Ticks PROVE tick'[j].picked = tick[j].picked
    <3>1. CASE j # x.tick
      <4>1. tick'[j] = Shaken(tick, After(x))[j]  BY <1>1, <3>1, Mining
      <4> QED  BY <4>1, Shaking DEF Stirred
    <3>2. CASE j = x.tick
      <4>1. tick'[j] = [tick[j] EXCEPT !.result = Outcome(x),
                                      !.took = portfolio.now - tick[j].picked,
                                      !.grown = portfolio.markets - tick[j].markets]
        BY <1>1, <3>2, Mining
      <4> QED  BY <1>0, <4>1 DEF Invocations
    <3> QED  BY <3>1, <3>2
  <2> QED  BY <2>1, <2>2 DEF PickedBefore
<1>2. ASSUME NEW x \in mempool, Drop(x) PROVE PickedBefore'
  BY <1>2 DEF Drop, PickedBefore
<1>3. CASE CloseBlock
  <2>1. ASSUME NEW j \in Ticks PROVE tick'[j].picked = tick[j].picked
    BY <1>0, <1>3, Closing DEF Invocations
  <2> QED  BY <1>3, <2>1 DEF CloseBlock, chainVars, PickedBefore
<1>4. CASE Others
  <2>1. PICK s \in Elsewhere : portfolio' = s /\ tick' = Shaken(tick, s)  BY <1>4 DEF Others
  <2>2. s.now = portfolio.now  BY DEF Elsewhere
  <2>3. \A j \in Ticks : tick'[j].picked = tick[j].picked  BY <2>1, Shaking DEF Stirred
  <2> QED  BY <2>1, <2>2, <2>3 DEF PickedBefore
<1>5. CASE Pass
  <2>1. portfolio'.now = portfolio.now + 1 /\ UNCHANGED tick  BY <1>0, <1>5, Passing DEF Portfolios
  <2>2. portfolio.now \in Nat /\ \A j \in Ticks : tick[j].picked \in Nat
    BY <1>0 DEF Portfolios, Invocations
  <2> QED  BY <2>1, <2>2 DEF PickedBefore
<1> QED  BY <1>1, <1>2, <1>3, <1>4, <1>5 DEF Chain

LEMMA ShapeChain == ASSUME Typed, ShapeOK, Chain PROVE ShapeOK'
<1>0. \A j \in Ticks : tick[j] \in Invocations  BY DEF Typed
<1>p. PickedBefore'  BY PickedChain DEF ShapeOK
<1>1. ASSUME NEW x \in mempool, Mine(x) PROVE ShapeOK'
  <2>1. mempool' = mempool \ {x}  BY <1>1 DEF Mine
  <2>2. ASSUME NEW j \in Ticks, j # x.tick
        PROVE  InShape(tick'[j]) /\ \A y \in mempool : Awaited(y, j) => Awaited(y, j)'
    <3>1. Stirred(tick'[j], tick[j])  BY <1>1, <2>2, Mining, Shaking
    <3> QED  BY <3>1 DEF Stirred, ShapeOK, InShape, Awaited
  <2>3. ASSUME NEW j \in Ticks, j = x.tick
        PROVE  InShape(tick'[j]) /\ \A y \in mempool : y.tick = j => y = x
    <3>1. Awaited(x, j) /\ InShape(tick[j])  BY <2>3 DEF ShapeOK
    <3>2. tick'[j] = [tick[j] EXCEPT !.result = Outcome(x),
                                    !.took = portfolio.now - tick[j].picked,
                                    !.grown = portfolio.markets - tick[j].markets]
      BY <1>1, <2>3, Mining
    <3>3. Outcome(x) # "NONE"  BY ResultTyped DEF Outcome
    <3>4. /\ tick'[j].pc = tick[j].pc /\ tick'[j].result = Outcome(x) /\ tick'[j].sealed = tick[j].sealed
          /\ tick'[j].outcome = tick[j].outcome /\ tick'[j].reported = tick[j].reported
          /\ tick'[j].gas = tick[j].gas /\ tick'[j].markets = tick[j].markets
          /\ tick'[j].i = tick[j].i /\ tick'[j].picked = tick[j].picked
      BY <1>0, <3>2 DEF Invocations
    <3>5. InShape(tick'[j])  BY <3>1, <3>3, <3>4 DEF InShape, Awaited
    <3>6. ASSUME NEW y \in mempool, y.tick = j PROVE y = x
      <4>1. Awaited(y, j)  BY <3>6 DEF ShapeOK
      <4>2. y.i = x.i /\ y.gas = x.gas /\ y.tick = x.tick  BY <2>3, <3>1, <3>6, <4>1 DEF Awaited
      <4> QED  BY <4>2 DEF Typed, Transactions
    <3> QED  BY <3>5, <3>6
  <2> QED  BY <1>p, <2>1, <2>2, <2>3 DEF ShapeOK
<1>2. ASSUME NEW x \in mempool, Drop(x) PROVE ShapeOK'
  BY <1>p, <1>2 DEF Drop, ShapeOK, Awaited
<1>3. CASE CloseBlock
  <2>1. ASSUME NEW j \in Ticks
        PROVE  InShape(tick'[j]) /\ \A y \in mempool : Awaited(y, j) => Awaited(y, j)'
    <3>1. CASE tick'[j] = tick[j]  BY <3>1 DEF ShapeOK, Awaited
    <3>2. CASE /\ tick[j].pc = "receipt" /\ tick[j].result # "NONE" /\ ~tick[j].sealed
               /\ tick'[j] = [tick[j] EXCEPT !.sealed = TRUE, !.replay = Evaluate(portfolio, tick[j].i)]
      <4>1. /\ tick'[j].pc = tick[j].pc /\ tick'[j].result = tick[j].result
            /\ tick'[j].outcome = tick[j].outcome /\ tick'[j].reported = tick[j].reported
            /\ tick'[j].gas = tick[j].gas /\ tick'[j].markets = tick[j].markets
            /\ tick'[j].i = tick[j].i /\ tick'[j].picked = tick[j].picked
        BY <1>0, <3>2 DEF Invocations
      <4> QED  BY <3>2, <4>1 DEF ShapeOK, InShape, Awaited
    <3> QED  BY <1>3, <3>1, <3>2, Closing
  <2> QED  BY <1>p, <1>3, <2>1 DEF CloseBlock, ShapeOK, chainVars
<1>4. CASE Others
  <2>1. PICK s \in Elsewhere : portfolio' = s /\ tick' = Shaken(tick, s)  BY <1>4 DEF Others
  <2>2. \A j \in Ticks : Stirred(tick'[j], tick[j])  BY <2>1, Shaking
  <2> QED  BY <1>p, <1>4, <2>2 DEF Others, Stirred, ShapeOK, InShape, Awaited
<1>5. CASE Pass
  BY <1>p, <1>5, Passing DEF ShapeOK, Awaited
<1> QED  BY <1>1, <1>2, <1>3, <1>4, <1>5 DEF Chain

LEMMA ShapeStep == ASSUME Typed, ShapeOK, [Next]_vars PROVE ShapeOK'
<1>1. CASE UNCHANGED vars  BY <1>1 DEF vars, ShapeOK, PickedBefore, Awaited
<1> QED  BY <1>1, ShapeLocal, ShapeChain DEF Next

LEMMA ShapeInit == ASSUME Init PROVE ShapeOK
<1>1. PickedBefore
  <2>1. portfolio.now = 1 /\ \A k \in Ticks : tick[k].picked = 0  BY DEF Init, IdleTick
  <2> QED  BY <2>1 DEF PickedBefore
<1> QED  BY <1>1, IdleTyped DEF Init, ShapeOK

-----------------------------------------------------------------------------
(* Nobody pays for a refusal unless something has moved, or time has run.  *)

\* What time alone makes of an intent that went through when it was estimated.
Late(s, t, code) ==
    \/ code = "MARKET_NOT_TRADING" /\ s.now - t.picked >= MinRemaining
    \/ code = "INSUFFICIENT_HEADROOM" /\ s.now - t.picked > MinRemaining - Headroom
    \/ code = "POLICY_EXPIRED" /\ s.now - t.picked > 0

LEMMA LateOnly ==
    ASSUME Typed, ShapeOK, NEW k \in Ticks, tick[k].pc = "receipt", GoesThrough(k)
    PROVE  \/ Evaluate(portfolio, tick[k].i) = "NONE"
           \/ Late(portfolio, tick[k], Evaluate(portfolio, tick[k].i))
<1>1. /\ portfolio.now \in Nat /\ portfolio.policyEnd \in Nat /\ portfolio.nonce \in Nat
      /\ portfolio.usage \in Nat /\ tick[k].picked \in Nat /\ tick[k].i.expiry \in Nat
      /\ tick[k].i.nonce \in Nat /\ {MinRemaining, Headroom, Ceiling} \subseteq Nat
  BY DeskConstants DEF Typed, Portfolios, Invocations, Intents
<1>2. tick[k].i.expiry - tick[k].picked >= MinRemaining  BY DEF ShapeOK, InShape
<1>3. /\ portfolio.enabled /\ ~(tick[k].i.nonce <= portfolio.nonce) /\ Cooled(portfolio)
      /\ ~(portfolio.usage + 1 > Ceiling) /\ portfolio.policyEnd # 0
      /\ portfolio.policyEnd >= tick[k].picked
  BY <1>1 DEF GoesThrough
<1>4. CASE portfolio.now > portfolio.policyEnd
  <2>1. Evaluate(portfolio, tick[k].i) = "POLICY_EXPIRED"  BY <1>3, <1>4 DEF Evaluate
  <2>2. portfolio.now - tick[k].picked > 0  BY <1>1, <1>3, <1>4
  <2> QED  BY <2>1, <2>2 DEF Late
<1>5. CASE ~(portfolio.now > portfolio.policyEnd) /\ portfolio.now >= tick[k].i.expiry
  <2>1. Evaluate(portfolio, tick[k].i) = "MARKET_NOT_TRADING"  BY <1>3, <1>5 DEF Evaluate
  <2>2. portfolio.now - tick[k].picked >= MinRemaining  BY <1>1, <1>2, <1>5
  <2> QED  BY <2>1, <2>2 DEF Late
<1>6. CASE /\ ~(portfolio.now > portfolio.policyEnd) /\ ~(portfolio.now >= tick[k].i.expiry)
           /\ tick[k].i.expiry - portfolio.now < Headroom
  <2>1. Evaluate(portfolio, tick[k].i) = "INSUFFICIENT_HEADROOM"  BY <1>3, <1>6 DEF Evaluate
  <2>2. portfolio.now - tick[k].picked > MinRemaining - Headroom  BY <1>1, <1>2, <1>6
  <2> QED  BY <2>1, <2>2 DEF Late
<1>7. CASE /\ ~(portfolio.now > portfolio.policyEnd) /\ ~(portfolio.now >= tick[k].i.expiry)
           /\ ~(tick[k].i.expiry - portfolio.now < Headroom)
  BY <1>3, <1>7 DEF Evaluate
<1> QED  BY <1>4, <1>5, <1>6, <1>7

LEMMA MovedLocal ==
    ASSUME Typed, ShapeOK, UnmovedGoesThrough, NEW k \in Ticks, Start(k) \/ Step(k)
    PROVE  UnmovedGoesThrough'
<1> USE DEF UnmovedGoesThrough
<1>0. UNCHANGED portfolio  BY LocalForms
<1> DEFINE Kept(j) == /\ Undecided(tick'[j]) /\ ~tick'[j].moved => GoesThrough(j)'
                      /\ tick'[j].result \notin {"NONE", "SUCCESS"} => tick'[j].moved \/ Overtaken(tick'[j])
                      /\ tick'[j].result = "OUT_OF_GAS" => tick'[j].grown > 1
<1>1. ASSUME NEW j \in Ticks \ {k}, tick'[j] = tick[j] \/ Alike(tick'[j], tick[j]) PROVE Kept(j)
  BY <1>0, <1>1 DEF Alike, Undecided, GoesThrough, Overtaken
<1>2. CASE Send(k)
  <2>1. /\ tick'[k].i = tick[k].i /\ tick'[k].result = tick[k].result
        /\ tick'[k].moved = tick[k].moved /\ tick'[k].markets = tick[k].markets /\ Leaves(k)
        /\ tick'[k].picked = tick[k].picked
    BY <1>2, Sending
  <2>2. InShape(tick[k]) /\ tick[k].pc = "send"  BY <2>1 DEF ShapeOK, Leaves
  <2>3. Undecided(tick[k]) /\ tick[k].result = "NONE"  BY <2>2 DEF Undecided, InShape
  <2>4. Kept(k)  BY <1>0, <2>1, <2>3 DEF GoesThrough
  <2> QED  BY <1>1, <2>1, <2>4 DEF Leaves
<1>3. CASE SendFails(k)
  <2>1. Kept(k) /\ Leaves(k)  BY <1>3, SendingFails DEF Ends, Undecided
  <2> QED  BY <1>1, <2>1 DEF Leaves
<1>4. CASE /\ Prepares(k) \/ Estimates(k) \/ Reports(k) \/ Finishes(k)
           /\ \A j \in Ticks \ {k} : tick'[j] = tick[j]
  <2>2. CASE Estimates(k)  BY <1>1, <1>4, <2>2 DEF Estimates, Undecided
  <2>3. CASE Reports(k)  BY <1>1, <1>4, <2>3 DEF Reports, Undecided, Overtaken
  <2>4. CASE Finishes(k)  BY <1>1, <1>4, <2>4 DEF Finishes, Ends, Undecided
  <2>1. CASE Prepares(k)  BY <1>1, <1>4, <2>1 DEF Prepares, Undecided
  <2> QED  BY <1>4, <2>1, <2>2, <2>3, <2>4
<1> QED  BY <1>2, <1>3, <1>4, LocalForms

LEMMA MovedChain == ASSUME Typed, ShapeOK, UnmovedGoesThrough, Chain PROVE UnmovedGoesThrough'
<1> USE DEF UnmovedGoesThrough
<1>0. portfolio \in Portfolios /\ \A j \in Ticks : tick[j] \in Invocations /\ InShape(tick[j])
  BY DEF Typed, ShapeOK
<1> DEFINE Kept(j) == /\ Undecided(tick'[j]) /\ ~tick'[j].moved => GoesThrough(j)'
                      /\ tick'[j].result \notin {"NONE", "SUCCESS"} => tick'[j].moved \/ Overtaken(tick'[j])
                      /\ tick'[j].result = "OUT_OF_GAS" => tick'[j].grown > 1
<1>1. ASSUME NEW s, portfolio' = s, NEW j \in Ticks, tick'[j] = Shaken(tick, s)[j] PROVE Kept(j)
  <2>1. CASE s = portfolio
    <3>1. tick'[j] = tick[j]  BY <1>1, <2>1 DEF Shaken
    <3> QED  BY <1>1, <2>1, <3>1 DEF GoesThrough
  <2>2. CASE s # portfolio
    <3>1. Stirred(tick'[j], tick[j]) /\ (Undecided(tick[j]) => tick'[j].moved)
      BY <1>0, <1>1, <2>2, Shaking
    <3>2. Undecided(tick'[j]) => Undecided(tick[j])  BY <3>1 DEF Stirred, Undecided
    <3> QED  BY <3>1, <3>2 DEF Stirred, Overtaken
  <2> QED  BY <2>1, <2>2
<1>2. ASSUME NEW x \in mempool, Mine(x) PROVE UnmovedGoesThrough'
  <2>1. ASSUME NEW j \in Ticks, j # x.tick PROVE Kept(j)  BY <1>1, <1>2, <2>1, Mining
  <2>2. ASSUME NEW j \in Ticks, j = x.tick PROVE Kept(j)
    <3>1. Awaited(x, j)  BY <2>2 DEF ShapeOK
    <3>2. tick'[j] = [tick[j] EXCEPT !.result = Outcome(x),
                                    !.took = portfolio.now - tick[j].picked,
                                    !.grown = portfolio.markets - tick[j].markets]
      BY <1>2, <2>2, Mining
    <3>3. Outcome(x) # "NONE"  BY ResultTyped DEF Outcome
    <3>4. /\ tick'[j].pc = "receipt" /\ tick'[j].result = Outcome(x) /\ tick'[j].moved = tick[j].moved
          /\ tick'[j].grown = portfolio.markets - tick[j].markets
          /\ tick'[j].took = portfolio.now - tick[j].picked
      BY <1>0, <3>1, <3>2 DEF Invocations, Awaited
    <3>5. tick[j].markets \in Nat /\ portfolio.markets \in Nat /\ tick[j].i.off \in Nat /\ portfolio.band \in Nat
      BY <1>0 DEF Invocations, Portfolios, Intents
    <3>6. x.gas = 2 * (tick[j].markets + 1)
      BY <1>0, <3>1, <3>5 DEF Awaited, InShape, GasLimit, GasCost
    <3>7. ASSUME ~tick[j].moved PROVE Outcome(x) = "SUCCESS" \/ Overtaken(tick'[j])
      <4>1. GoesThrough(j)  BY <3>1, <3>7 DEF Awaited, Undecided
      <4>2. ~(GasCost(portfolio.markets) > x.gas) /\ ~(x.i.off < portfolio.band)
        BY <3>1, <3>5, <3>6, <4>1 DEF GoesThrough, Awaited, GasCost
      <4>3. Outcome(x) = IF Evaluate(portfolio, x.i) # "NONE" THEN Evaluate(portfolio, x.i) ELSE "SUCCESS"
        BY <4>2 DEF Outcome, Result
      <4>4. Evaluate(portfolio, x.i) = "NONE" \/ Late(portfolio, tick[j], Evaluate(portfolio, x.i))
        BY <1>0, <3>1, <4>1, LateOnly DEF Awaited
      <4> QED  BY <3>4, <4>3, <4>4 DEF Late, Overtaken
    <3>8. ASSUME Outcome(x) = "OUT_OF_GAS" PROVE portfolio.markets - tick[j].markets > 1
      <4>1. GasCost(portfolio.markets) > x.gas
        BY <3>8, ResultTyped DEF Outcome, Result, RefusalCodes
      <4> QED  BY <3>5, <3>6, <4>1 DEF GasCost
    <3> QED  BY <3>3, <3>4, <3>7, <3>8 DEF Undecided
  <2> QED  BY <2>1, <2>2
<1>3. ASSUME NEW x \in mempool, Drop(x) PROVE UnmovedGoesThrough'
  BY <1>3 DEF Drop, GoesThrough
<1>4. CASE CloseBlock
  <2>1. ASSUME NEW j \in Ticks PROVE Kept(j)
    <3>1. CASE tick'[j] = tick[j]  BY <1>4, <3>1 DEF CloseBlock, chainVars, GoesThrough
    <3>2. CASE /\ tick[j].pc = "receipt" /\ tick[j].result # "NONE" /\ ~tick[j].sealed
               /\ tick'[j] = [tick[j] EXCEPT !.sealed = TRUE, !.replay = Evaluate(portfolio, tick[j].i)]
      <4>1. /\ tick'[j].pc = tick[j].pc /\ tick'[j].result = tick[j].result
            /\ tick'[j].moved = tick[j].moved /\ tick'[j].grown = tick[j].grown
            /\ tick'[j].took = tick[j].took
        BY <1>0, <3>2 DEF Invocations
      <4> QED  BY <3>2, <4>1 DEF Undecided, Overtaken
    <3> QED  BY <1>4, <3>1, <3>2, Closing
  <2> QED  BY <2>1
<1>5. CASE Others
  <2>1. PICK s \in Elsewhere : portfolio' = s /\ tick' = Shaken(tick, s)  BY <1>5 DEF Others
  <2> QED  BY <1>1, <2>1
<1>6. CASE Pass
  <2>1. portfolio' = [portfolio EXCEPT !.now = portfolio.now + 1] /\ UNCHANGED tick  BY <1>6, Passing
  <2>2. Cooled(portfolio) => Cooled(portfolio')
    BY <1>0, <2>1, DeskConstants DEF Cooled, Portfolios
  <2>3. /\ portfolio'.enabled = portfolio.enabled /\ portfolio'.policyEnd = portfolio.policyEnd
        /\ portfolio'.nonce = portfolio.nonce /\ portfolio'.usage = portfolio.usage
        /\ portfolio'.band = portfolio.band /\ portfolio'.markets = portfolio.markets
    BY <1>0, <2>1 DEF Portfolios
  <2> QED  BY <2>1, <2>2, <2>3 DEF GoesThrough
<1> QED  BY <1>2, <1>3, <1>4, <1>5, <1>6 DEF Chain

LEMMA MovedStep == ASSUME Typed, ShapeOK, UnmovedGoesThrough, [Next]_vars PROVE UnmovedGoesThrough'
<1>1. CASE UNCHANGED vars  BY <1>1 DEF vars, UnmovedGoesThrough, GoesThrough
<1> QED  BY <1>1, MovedLocal, MovedChain DEF Next

LEMMA MovedInit == ASSUME Init PROVE UnmovedGoesThrough
  BY DEF Init, UnmovedGoesThrough, IdleTick, Undecided

\* A transaction of the desk comes back reverted only if the portfolio or the
\* book has moved since it was estimated, or if it came too late: after the end
\* of the policy, or later by more than the market had to spare when it was
\* picked (tick, lines 163, 225-228 and 316-317 of the worker; _evaluate).
THEOREM DeskPaysOnlyWhenOvertaken == Spec => []PaysOnlyWhenOvertaken
<1> DEFINE I == Typed /\ ShapeOK /\ UnmovedGoesThrough
<1>1. Init => I  BY TypedInit, ShapeInit, MovedInit
<1>2. I /\ [Next]_vars => I'  BY TypedStep, ShapeStep, MovedStep
<1>3. I => PaysOnlyWhenOvertaken  BY DEF UnmovedGoesThrough, PaysOnlyWhenOvertaken
<1> QED  BY <1>1, <1>2, <1>3, PTL DEF Spec

\* The padded gas limit outlives one market that another agent tracks between
\* the estimate and the block: only further ones starve the transaction
\* (GAS_HEADROOM_BPS, tick of the worker).
THEOREM DeskStarvedOnlyByMore == Spec => []StarvedOnlyByMore
<1> DEFINE I == Typed /\ ShapeOK /\ UnmovedGoesThrough
<1>1. Init => I  BY TypedInit, ShapeInit, MovedInit
<1>2. I /\ [Next]_vars => I'  BY TypedStep, ShapeStep, MovedStep
<1>3. I => StarvedOnlyByMore  BY DEF UnmovedGoesThrough, StarvedOnlyByMore
<1> QED  BY <1>1, <1>2, <1>3, PTL DEF Spec

-----------------------------------------------------------------------------
(* What the API keeps is what the contract said.                           *)

LEMMA CleanLocal ==
    ASSUME Typed, ShapeOK, CleanReplays, NEW k \in Ticks, Start(k) \/ Step(k)
    PROVE  CleanReplays'
<1>0. UNCHANGED portfolio  BY LocalForms
<1> DEFINE Kept(j) == tick'[j].clean /\ tick'[j].result \in Refused =>
                         IF tick'[j].sealed THEN tick'[j].replay = Verdict(tick'[j].result)
                         ELSE Evaluate(portfolio', tick'[j].i) = Verdict(tick'[j].result)
<1>1. ASSUME NEW j \in Ticks \ {k}, tick'[j] = tick[j] \/ Alike(tick'[j], tick[j]) PROVE Kept(j)
  BY <1>0, <1>1 DEF Alike, CleanReplays
<1>2. ASSUME tick'[k].result = "NONE" PROVE Kept(k)
  BY <1>2 DEF Refused, RefusalCodes
<1>3. ASSUME \A j \in Ticks : Kept(j), UNCHANGED refusals PROVE CleanReplays'
  BY <1>3 DEF CleanReplays, RecordedCodeIsTheRevert
<1>4. CASE Send(k)
  <2>1. Leaves(k) /\ tick'[k].result = tick[k].result /\ InShape(tick[k])
    BY <1>4, Sending DEF ShapeOK
  <2>2. tick'[k].result = "NONE" /\ \A j \in Ticks \ {k} : Alike(tick'[j], tick[j])
    BY <2>1 DEF Leaves, InShape
  <2> QED  BY <1>1, <1>2, <1>3, <1>4, <2>2 DEF Send
<1>5. CASE SendFails(k)
  <2>1. tick'[k].result = "NONE" /\ \A j \in Ticks \ {k} : Alike(tick'[j], tick[j])
    BY <1>5, SendingFails DEF Leaves, Ends
  <2> QED  BY <1>1, <1>2, <1>3, <1>5, <2>1 DEF SendFails
<1>6. CASE /\ Prepares(k) \/ Estimates(k) \/ Reports(k) \/ Finishes(k)
           /\ \A j \in Ticks \ {k} : tick'[j] = tick[j]
  <2>1. CASE Prepares(k) \/ Estimates(k)
    <3>1. tick'[k].result = "NONE" /\ UNCHANGED refusals  BY <2>1 DEF Prepares, Estimates
    <3> QED  BY <1>1, <1>2, <1>3, <1>6, <3>1
  <2>2. CASE Reports(k)
    <3>1. Kept(k)  BY <1>0, <2>2 DEF Reports, CleanReplays
    <3> QED  BY <1>1, <1>3, <1>6, <2>2, <3>1 DEF Reports
  <2>3. CASE Finishes(k)
    <3>1. tick'[k].result = "NONE"  BY <2>3 DEF Finishes, Ends
    <3>2. CASE UNCHANGED refusals  BY <1>1, <1>2, <1>3, <1>6, <3>1, <3>2
    <3>3. CASE tick[k].pc = "report" /\ refusals' = Recorded(tick[k]) /\ tick[k].replay \in RefusalCodes
      <4> DEFINE r == [code |-> tick[k].replay, own |-> tick[k].result, clean |-> tick[k].clean]
      <4>1. refusals' = [g \in DOMAIN refusals \cup {tick[k].i} |-> IF g = tick[k].i THEN r ELSE refusals[g]]
        BY <3>3 DEF Recorded, IntentHash, Replay
      <4>2. r.clean => r.code = r.own
        <5>1. tick[k].result \in Refused /\ tick[k].sealed  BY <3>3 DEF ShapeOK, InShape
        <5>2. tick[k].clean => tick[k].replay = Verdict(tick[k].result)  BY <5>1 DEF CleanReplays
        <5> QED  BY <3>3, <5>2 DEF Verdict, RefusalCodes
      <4> HIDE DEF r
      <4>3. RecordedCodeIsTheRevert'
        BY <4>1, <4>2 DEF CleanReplays, RecordedCodeIsTheRevert
      <4> QED  BY <1>1, <1>2, <1>6, <3>1, <4>3 DEF CleanReplays
    <3> QED  BY <2>3, <3>2, <3>3 DEF Finishes
  <2> QED  BY <1>6, <2>1, <2>2, <2>3
<1> QED  BY <1>4, <1>5, <1>6, LocalForms

LEMMA CleanChain == ASSUME Typed, ShapeOK, CleanReplays, Chain PROVE CleanReplays'
<1>0. \A j \in Ticks : tick[j] \in Invocations /\ InShape(tick[j])  BY DEF Typed, ShapeOK
<1> DEFINE Kept(j) == tick'[j].clean /\ tick'[j].result \in Refused =>
                         IF tick'[j].sealed THEN tick'[j].replay = Verdict(tick'[j].result)
                         ELSE Evaluate(portfolio', tick'[j].i) = Verdict(tick'[j].result)
<1>1. ASSUME \A j \in Ticks : Kept(j), UNCHANGED refusals PROVE CleanReplays'
  BY <1>1 DEF CleanReplays, RecordedCodeIsTheRevert
<1>2. ASSUME NEW s, portfolio' = s, NEW j \in Ticks, tick'[j] = Shaken(tick, s)[j] PROVE Kept(j)
  <2>1. CASE s = portfolio
    <3>1. tick'[j] = tick[j]  BY <1>2, <2>1 DEF Shaken
    <3> QED  BY <1>2, <2>1, <3>1 DEF CleanReplays
  <2>2. CASE s # portfolio
    <3>1. /\ Stirred(tick'[j], tick[j])
          /\ tick[j].result # "NONE" /\ ~tick[j].sealed => ~tick'[j].clean
      BY <1>0, <1>2, <2>2, Shaking
    <3>2. tick[j].result \in Refused => tick[j].result # "NONE"  BY DEF Refused, RefusalCodes
    <3> QED  BY <3>1, <3>2 DEF Stirred, CleanReplays
  <2> QED  BY <2>1, <2>2
<1>3. ASSUME NEW x \in mempool, Mine(x) PROVE CleanReplays'
  <2>1. ASSUME NEW j \in Ticks, j # x.tick PROVE Kept(j)
    <3>1. portfolio' = After(x) /\ tick'[j] = Shaken(tick, After(x))[j]  BY <1>3, <2>1, Mining
    <3> QED  BY <1>2, <3>1
  <2>2. ASSUME NEW j \in Ticks, j = x.tick PROVE Kept(j)
    <3>1. Awaited(x, j)  BY <2>2 DEF ShapeOK
    <3>2. tick'[j] = [tick[j] EXCEPT !.result = Outcome(x),
                                    !.took = portfolio.now - tick[j].picked,
                                    !.grown = portfolio.markets - tick[j].markets]
      BY <1>3, <2>2, Mining
    <3>3. tick'[j].result = Outcome(x) /\ tick'[j].i = x.i /\ tick'[j].sealed = tick[j].sealed
      BY <1>0, <3>1, <3>2 DEF Invocations, Awaited
    <3>4. ~tick[j].sealed  BY <1>0, <3>1 DEF Awaited, InShape
    <3>5. ASSUME Outcome(x) \in Refused PROVE Evaluate(portfolio', x.i) = Verdict(Outcome(x))
      <4>1. portfolio' = portfolio  BY <1>3, <3>5, Mining DEF After, Refused, RefusalCodes
      <4> QED  BY <3>5, <4>1, ResultTyped DEF Outcome
    <3> QED  BY <3>3, <3>4, <3>5
  <2> QED  BY <1>1, <1>3, <2>1, <2>2 DEF Mine
<1>4. ASSUME NEW x \in mempool, Drop(x) PROVE CleanReplays'
  BY <1>4 DEF Drop, CleanReplays, RecordedCodeIsTheRevert
<1>5. CASE CloseBlock
  <2>0. UNCHANGED <<portfolio, refusals>>  BY <1>5 DEF CloseBlock, chainVars
  <2>1. ASSUME NEW j \in Ticks PROVE Kept(j)
    <3>1. CASE tick'[j] = tick[j]  BY <2>0, <3>1 DEF CleanReplays
    <3>2. CASE /\ tick[j].pc = "receipt" /\ tick[j].result # "NONE" /\ ~tick[j].sealed
               /\ tick'[j] = [tick[j] EXCEPT !.sealed = TRUE, !.replay = Evaluate(portfolio, tick[j].i)]
      <4>1. /\ tick'[j].result = tick[j].result /\ tick'[j].clean = tick[j].clean
            /\ tick'[j].sealed /\ tick'[j].replay = Evaluate(portfolio, tick[j].i)
        BY <1>0, <3>2 DEF Invocations
      <4> QED  BY <3>2, <4>1 DEF CleanReplays
    <3> QED  BY <1>5, <3>1, <3>2, Closing
  <2> QED  BY <1>1, <2>0, <2>1
<1>6. CASE Others
  <2>1. PICK s \in Elsewhere : portfolio' = s /\ tick' = Shaken(tick, s)  BY <1>6 DEF Others
  <2> QED  BY <1>1, <1>2, <1>6, <2>1 DEF Others
<1>7. CASE Pass
  <2>1. /\ UNCHANGED <<tick, refusals>>
        /\ \A j \in Ticks : tick[j].result # "NONE" => tick[j].sealed
    BY <1>7, Passing
  <2>2. ASSUME NEW j \in Ticks PROVE Kept(j)
    <3>1. tick[j].result \in Refused => tick[j].result # "NONE"  BY DEF Refused, RefusalCodes
    <3> QED  BY <2>1, <3>1 DEF CleanReplays
  <2> QED  BY <1>1, <2>1, <2>2
<1> QED  BY <1>3, <1>4, <1>5, <1>6, <1>7 DEF Chain

LEMMA CleanStep == ASSUME Typed, ShapeOK, CleanReplays, [Next]_vars PROVE CleanReplays'
<1>1. CASE UNCHANGED vars  BY <1>1 DEF vars, CleanReplays, RecordedCodeIsTheRevert
<1> QED  BY <1>1, CleanLocal, CleanChain DEF Next

LEMMA CleanInit == ASSUME Init PROVE CleanReplays
<1>1. DOMAIN refusals = {}  BY DEF Init
<1>2. \A j \in Ticks : tick[j].result = "NONE"  BY DEF Init, IdleTick
<1> QED  BY <1>1, <1>2 DEF CleanReplays, RecordedCodeIsTheRevert, Refused, RefusalCodes

\* The API replays at the end of the block, the contract decided in the middle
\* of it: where nothing followed in the block, the recorded code is the one the
\* transaction reverted with (POST /api/intents/report).
THEOREM DeskRecordedCodeIsTheRevert == Spec => []RecordedCodeIsTheRevert
<1> DEFINE I == Typed /\ ShapeOK /\ CleanReplays
<1>1. Init => I  BY TypedInit, ShapeInit, CleanInit
<1>2. I /\ [Next]_vars => I'  BY TypedStep, ShapeStep, CleanStep
<1>3. I => RecordedCodeIsTheRevert  BY DEF CleanReplays
<1> QED  BY <1>1, <1>2, <1>3, PTL DEF Spec

-----------------------------------------------------------------------------
(* An intent that is sent once is answered for by one invocation.          *)

\* Sent and decided on as before.
SameTrace(t, s) ==
    /\ t.pc = s.pc /\ t.i = s.i /\ t.outcome = s.outcome /\ t.reported = s.reported
    /\ t.repeated = s.repeated

\* Whoever sends an intent nobody has sent is alone with it; the others stay so.
LEMMA TraceSend ==
    ASSUME Typed, ShapeOK, UnrepeatedIsAlone, NEW k \in Ticks, Send(k)
    PROVE  UnrepeatedIsAlone'
<1>0. /\ Leaves(k) /\ mempool' = mempool \cup {Out(k, k)}
      /\ tick'[k].pc = "receipt" /\ tick'[k].repeated = (tick[k].i \in Sent)
      /\ tick'[k].i = tick[k].i /\ tick'[k].result = tick[k].result
      /\ tick'[k].outcome = tick[k].outcome /\ tick'[k].reported = tick[k].reported
      /\ UNCHANGED <<admitted, refusals>> /\ InShape(tick[k])
  BY Sending DEF Send, ShapeOK
<1>1. Out(k, k).i = tick[k].i /\ Out(k, k).tick = k  BY DEF Out
<1>2. \A j \in Ticks \ {k} : Alike(tick'[j], tick[j]) /\ (tick[j].i = tick[k].i => tick'[j].repeated)
  BY <1>0 DEF Leaves
<1>3. \A j \in Ticks \ {k} : Traced(tick'[j]) <=> Traced(tick[j])  BY <1>2 DEF Alike, Traced
<1>4. ASSUME NEW j \in Ticks \ {k}, Traced(tick'[j]), ~tick'[j].repeated PROVE OnlyTrace(j)'
  <2>1. /\ OnlyTrace(j) /\ tick[j].i # tick[k].i /\ tick'[j].i = tick[j].i
        /\ tick'[j].result = tick[j].result /\ tick'[j].outcome = tick[j].outcome
        /\ tick'[j].reported = tick[j].reported
    BY <1>2, <1>3, <1>4 DEF UnrepeatedIsAlone, Alike
  <2>2. \A x \in mempool' : x.i = tick[j].i => x.tick = j  BY <1>0, <1>1, <2>1 DEF OnlyTrace
  <2>3. ASSUME NEW l \in Ticks \ {j}, Traced(tick'[l]) PROVE tick'[l].i # tick[j].i
    <3>1. CASE l = k  BY <1>0, <2>1, <3>1
    <3>2. CASE l # k  BY <1>2, <1>3, <2>1, <2>3, <3>2 DEF OnlyTrace, Alike
    <3> QED  BY <3>1, <3>2
  <2> QED  BY <1>0, <2>1, <2>2, <2>3 DEF OnlyTrace
<1>5. ASSUME ~tick'[k].repeated PROVE OnlyTrace(k)'
  <2>1. tick[k].i \notin Sent  BY <1>0, <1>5
  <2>2. tick[k].i \notin admitted /\ tick[k].i \notin DOMAIN refusals
        /\ (\A x \in mempool : x.i # tick[k].i)
    BY <2>1 DEF Sent
  <2>3. ASSUME NEW l \in Ticks \ {k}, Traced(tick'[l]) PROVE tick'[l].i # tick[k].i
    <3>1. Traced(tick[l]) /\ tick'[l].i = tick[l].i  BY <1>2, <1>3, <2>3 DEF Alike
    <3>2. tick[l].pc \in {"receipt", "report", "done"}  BY <3>1 DEF Traced
    <3>3. tick[l].i \in Sent  BY <3>2 DEF Sent
    <3> QED  BY <2>1, <3>1, <3>3
  <2>4. tick[k].result = "NONE" /\ tick[k].outcome = "none" /\ ~tick[k].reported
    BY <1>0 DEF InShape, Leaves
  <2>5. \A x \in mempool' : x.i = tick[k].i => x.tick = k  BY <1>0, <1>1, <2>2
  <2> QED  BY <1>0, <2>2, <2>3, <2>4, <2>5 DEF OnlyTrace
<1> QED  BY <1>4, <1>5 DEF UnrepeatedIsAlone

LEMMA TraceSendFails ==
    ASSUME Typed, ShapeOK, UnrepeatedIsAlone, NEW k \in Ticks, SendFails(k)
    PROVE  UnrepeatedIsAlone'
<1>0. /\ Leaves(k) /\ mempool' \in {mempool, mempool \cup {Out(k, "nobody")}}
      /\ Ends(tick'[k], tick[k], "send-failed", FALSE) /\ UNCHANGED <<admitted, refusals>>
  BY SendingFails DEF SendFails
<1>1. Out(k, "nobody").i = tick[k].i  BY DEF Out
<1>2. \A j \in Ticks \ {k} : Alike(tick'[j], tick[j]) /\ (tick[j].i = tick[k].i => tick'[j].repeated)
  BY <1>0 DEF Leaves
<1>3. \A j \in Ticks : Traced(tick'[j]) => j # k /\ Traced(tick[j])
  BY <1>0, <1>2 DEF Alike, Traced, Ends
<1>4. ASSUME NEW j \in Ticks, Traced(tick'[j]), ~tick'[j].repeated PROVE OnlyTrace(j)'
  <2>1. /\ OnlyTrace(j) /\ tick[j].i # tick[k].i /\ tick'[j].i = tick[j].i
        /\ tick'[j].result = tick[j].result /\ tick'[j].outcome = tick[j].outcome
        /\ tick'[j].reported = tick[j].reported
    BY <1>2, <1>3, <1>4 DEF UnrepeatedIsAlone, Alike
  <2>2. \A x \in mempool' : x.i = tick[j].i => x.tick = j  BY <1>0, <1>1, <2>1 DEF OnlyTrace
  <2>3. \A l \in Ticks \ {j} : Traced(tick'[l]) => tick'[l].i # tick[j].i
    BY <1>2, <1>3, <2>1 DEF OnlyTrace, Alike
  <2> QED  BY <1>0, <2>1, <2>2, <2>3 DEF OnlyTrace
<1> QED  BY <1>4 DEF UnrepeatedIsAlone

\* Steps that send nothing: a trace that is there was there, of the same intent.
LEMMA TraceStays ==
    ASSUME Typed, ShapeOK, NEW k \in Ticks,
           Prepares(k) \/ Estimates(k) \/ Reports(k) \/ Finishes(k), Traced(tick'[k])
    PROVE  Traced(tick[k]) /\ tick'[k].i = tick[k].i /\ tick'[k].repeated = tick[k].repeated
<1>1. CASE Prepares(k) \/ Estimates(k)  BY <1>1 DEF Prepares, Estimates, Traced
<1>2. CASE Reports(k)  BY <1>2 DEF Reports, Traced
<1>3. CASE Finishes(k)  BY <1>3 DEF Finishes, Ends, Traced
<1> QED  BY <1>1, <1>2, <1>3

LEMMA TraceEnds ==
    ASSUME Typed, ShapeOK, UnrepeatedIsAlone, NEW k \in Ticks,
           Prepares(k) \/ Estimates(k) \/ Reports(k) \/ Finishes(k),
           \A j \in Ticks \ {k} : tick'[j] = tick[j], UNCHANGED admitted
    PROVE  UnrepeatedIsAlone'
<1>1. \A j \in Ticks : Traced(tick'[j]) =>
         Traced(tick[j]) /\ tick'[j].i = tick[j].i /\ tick'[j].repeated = tick[j].repeated
  BY TraceStays
<1>2. DOMAIN refusals \subseteq DOMAIN refusals'
      /\ \A h \in DOMAIN refusals' : h \in DOMAIN refusals \/ (Traced(tick[k]) /\ h = tick[k].i)
  <2>1. CASE UNCHANGED refusals  BY <2>1
  <2>2. CASE tick[k].pc = "report" /\ refusals' = Recorded(tick[k])
    <3>1. DOMAIN refusals' = DOMAIN refusals \cup {tick[k].i}  BY <2>2 DEF Recorded, IntentHash
    <3> QED  BY <2>2, <3>1 DEF Traced
  <2> QED  BY <2>1, <2>2 DEF Prepares, Estimates, Reports, Finishes
<1>3. \A x \in mempool' : \E y \in mempool : Freed(x, y, k)
  BY DEF Prepares, Estimates, Reports, Finishes, Freed
<1>4. ASSUME NEW j \in Ticks \ {k}, Traced(tick'[j]), ~tick'[j].repeated PROVE OnlyTrace(j)'
  <2>1. OnlyTrace(j) /\ tick'[j] = tick[j]  BY <1>1, <1>4 DEF UnrepeatedIsAlone
  <2>2. \A x \in mempool' : x.i = tick[j].i => x.tick = j  BY <1>3, <2>1 DEF OnlyTrace, Freed
  <2>3. \A l \in Ticks \ {j} : Traced(tick'[l]) => tick'[l].i # tick[j].i  BY <1>1, <2>1 DEF OnlyTrace
  <2>4. tick[j].i \in DOMAIN refusals' => tick[j].i \in DOMAIN refusals  BY <1>2, <2>1 DEF OnlyTrace
  <2> QED  BY <1>2, <2>1, <2>2, <2>3, <2>4 DEF OnlyTrace
<1>5. ASSUME Traced(tick'[k]), ~tick'[k].repeated PROVE OnlyTrace(k)'
  <2>1. OnlyTrace(k) /\ tick'[k].i = tick[k].i /\ Traced(tick[k])  BY <1>1, <1>5 DEF UnrepeatedIsAlone
  <2>2. \A l \in Ticks \ {k} : Traced(tick'[l]) => tick'[l].i # tick'[k].i  BY <2>1 DEF OnlyTrace
  <2>3. CASE Prepares(k) \/ Estimates(k)  BY <1>5, <2>3 DEF Prepares, Estimates, Traced
  <2>4. CASE Reports(k)  BY <2>1, <2>2, <2>4 DEF Reports, OnlyTrace
  <2>5. CASE Finishes(k)
    <3>1. PICK outcome \in Outcomes, reported \in BOOLEAN :
             /\ Ends(tick'[k], tick[k], outcome, reported)
             /\ outcome = "submitted" => tick[k].pc = "receipt" /\ tick[k].result = "SUCCESS"
             /\ outcome = "refused-onchain" => tick[k].pc = "report"
             /\ outcome \in {"submitted", "refused-onchain"} => UNCHANGED mempool
             /\ \/ UNCHANGED refusals /\ ~reported
                \/ /\ tick[k].pc = "report" /\ outcome = "refused-onchain"
                   /\ refusals' = Recorded(tick[k])
      BY <2>5 DEF Finishes
    <3>2. /\ outcome \in {"submitted", "refused-onchain"} /\ tick'[k].outcome = outcome
          /\ tick'[k].result = "NONE" /\ (tick'[k].reported => reported)
      BY <1>5, <3>1 DEF Ends
    <3>3. tick[k].outcome = "none"  BY <3>1, <3>2 DEF ShapeOK, InShape
    <3>4. tick[k].i \in admitted <=> outcome = "submitted"
      <4>1. outcome = "refused-onchain" => tick[k].result # "SUCCESS"
        BY <3>1 DEF ShapeOK, InShape, Refused, RefusalCodes
      <4> QED  BY <2>1, <3>1, <3>2, <3>3, <4>1 DEF OnlyTrace
    <3>5. tick[k].i \in DOMAIN refusals' => outcome = "refused-onchain"  BY <2>1, <3>1, <3>3 DEF OnlyTrace
    <3>6. reported => tick[k].i \in DOMAIN refusals'  BY <3>1 DEF Recorded, IntentHash
    <3> QED  BY <2>1, <2>2, <3>1, <3>2, <3>4, <3>5, <3>6 DEF OnlyTrace
  <2> QED  BY <2>3, <2>4, <2>5
<1> QED  BY <1>4, <1>5 DEF UnrepeatedIsAlone

LEMMA TraceChain == ASSUME Typed, ShapeOK, UnrepeatedIsAlone, Chain PROVE UnrepeatedIsAlone'
<1>0. \A j \in Ticks : tick[j] \in Invocations /\ InShape(tick[j])  BY DEF Typed, ShapeOK
<1>1. ASSUME \A j \in Ticks : SameTrace(tick'[j], tick[j]), mempool' \subseteq mempool, UNCHANGED refusals,
             \A j \in Ticks : Traced(tick[j]) /\ ~tick[j].repeated =>
                (tick[j].i \in admitted' <=> tick'[j].result = "SUCCESS" \/ tick[j].outcome = "submitted")
      PROVE  UnrepeatedIsAlone'
  <2>1. \A j \in Ticks : Traced(tick'[j]) <=> Traced(tick[j])  BY <1>1 DEF SameTrace, Traced
  <2>2. ASSUME NEW j \in Ticks, Traced(tick'[j]), ~tick'[j].repeated PROVE OnlyTrace(j)'
    <3>1. OnlyTrace(j)  BY <1>1, <2>1, <2>2 DEF UnrepeatedIsAlone, SameTrace
    <3>2. \A l \in Ticks \ {j} : Traced(tick'[l]) => tick'[l].i # tick'[j].i
      BY <1>1, <2>1, <3>1 DEF OnlyTrace, SameTrace
    <3>3. tick'[j].i \in admitted' <=> tick'[j].result = "SUCCESS" \/ tick'[j].outcome = "submitted"
      BY <1>1, <2>1, <2>2 DEF SameTrace
    <3> QED  BY <1>1, <3>1, <3>2, <3>3 DEF OnlyTrace, SameTrace
  <2> QED  BY <2>2 DEF UnrepeatedIsAlone
<1>2. ASSUME NEW x \in mempool, Mine(x) PROVE UnrepeatedIsAlone'
  <2>1. /\ mempool' \subseteq mempool /\ UNCHANGED refusals
        /\ admitted' = IF Outcome(x) = "SUCCESS" THEN admitted \cup {x.i} ELSE admitted
    BY <1>2 DEF Mine, Outcome
  <2>2. ASSUME NEW j \in Ticks, j # x.tick
        PROVE  SameTrace(tick'[j], tick[j]) /\ tick'[j].result = tick[j].result
    <3>1. tick'[j] = Shaken(tick, After(x))[j]  BY <1>2, <2>2, Mining
    <3> QED  BY <3>1, Shaking DEF Stirred, SameTrace
  <2>3. ASSUME NEW j \in Ticks, j = x.tick
        PROVE  SameTrace(tick'[j], tick[j]) /\ tick'[j].result = Outcome(x)
    <3>1. tick'[j] = [tick[j] EXCEPT !.result = Outcome(x),
                                    !.took = portfolio.now - tick[j].picked,
                                    !.grown = portfolio.markets - tick[j].markets]
      BY <1>2, <2>3, Mining
    <3> QED  BY <1>0, <3>1 DEF Invocations, SameTrace
  <2>4. ASSUME NEW j \in Ticks, Traced(tick[j]), ~tick[j].repeated
        PROVE  tick[j].i \in admitted' <=> tick'[j].result = "SUCCESS" \/ tick[j].outcome = "submitted"
    <3>1. OnlyTrace(j)  BY <2>4 DEF UnrepeatedIsAlone
    <3>2. CASE j # x.tick
      <4>1. x.i # tick[j].i  BY <3>1, <3>2 DEF OnlyTrace
      <4> QED  BY <2>1, <2>2, <3>1, <3>2, <4>1 DEF OnlyTrace
    <3>3. CASE j = x.tick
      <4>1. Awaited(x, j)  BY <3>3 DEF ShapeOK
      <4>2. tick[j].result = "NONE" /\ tick[j].outcome = "none" /\ x.i = tick[j].i
        BY <1>0, <4>1 DEF Awaited, InShape
      <4> QED  BY <2>1, <2>3, <3>1, <3>3, <4>2 DEF OnlyTrace
    <3> QED  BY <3>2, <3>3
  <2> QED  BY <1>1, <2>1, <2>2, <2>3, <2>4
<1>3. ASSUME NEW x \in mempool, Drop(x) PROVE UnrepeatedIsAlone'
  BY <1>1, <1>3 DEF Drop, SameTrace, UnrepeatedIsAlone, OnlyTrace
<1>4. ASSUME \A j \in Ticks : SameTrace(tick'[j], tick[j]) /\ tick'[j].result = tick[j].result,
             UNCHANGED <<mempool, refusals, admitted>>
      PROVE  UnrepeatedIsAlone'
  BY <1>1, <1>4 DEF UnrepeatedIsAlone, OnlyTrace
<1>5. CASE CloseBlock
  <2>1. ASSUME NEW j \in Ticks PROVE SameTrace(tick'[j], tick[j]) /\ tick'[j].result = tick[j].result
    <3>1. CASE tick'[j] = tick[j]  BY <3>1 DEF SameTrace
    <3>2. CASE tick'[j] = [tick[j] EXCEPT !.sealed = TRUE, !.replay = Evaluate(portfolio, tick[j].i)]
      BY <1>0, <3>2 DEF Invocations, SameTrace
    <3> QED  BY <1>5, <3>1, <3>2, Closing
  <2> QED  BY <1>4, <1>5, <2>1 DEF CloseBlock, chainVars
<1>6. CASE Others
  <2>1. PICK s \in Elsewhere : portfolio' = s /\ tick' = Shaken(tick, s)  BY <1>6 DEF Others
  <2>2. \A j \in Ticks : Stirred(tick'[j], tick[j])  BY <2>1, Shaking
  <2> QED  BY <1>4, <1>6, <2>2 DEF Others, Stirred, SameTrace
<1>7. CASE Pass
  BY <1>4, <1>7, Passing DEF SameTrace
<1> QED  BY <1>2, <1>3, <1>5, <1>6, <1>7 DEF Chain

LEMMA TraceStep ==
    ASSUME Typed, ShapeOK, UnrepeatedIsAlone, [Next]_vars
    PROVE  UnrepeatedIsAlone'
<1>1. CASE UNCHANGED vars  BY <1>1 DEF vars, UnrepeatedIsAlone, OnlyTrace
<1>2. ASSUME NEW k \in Ticks, Start(k) \/ Step(k) PROVE UnrepeatedIsAlone'
  BY <1>2, LocalForms, TraceSend, TraceSendFails, TraceEnds
<1> QED  BY <1>1, <1>2, TraceChain DEF Next

LEMMA TraceInit == ASSUME Init PROVE UnrepeatedIsAlone
  BY IdleTyped DEF Init, UnrepeatedIsAlone

\* An intent that was sent once is answered with its own decision: an admitted
\* one has no refusal, a reported refusal no admission (intentsFromEvents,
\* receiptsFromEvents).
THEOREM DeskSentOnceShowsItsDecision == Spec => []SentOnceShowsItsDecision
<1> DEFINE I == Typed /\ ShapeOK /\ UnrepeatedIsAlone
<1>1. Init => I  BY TypedInit, ShapeInit, TraceInit
<1>2. I /\ [Next]_vars => I'  BY TypedStep, ShapeStep, TraceStep
<1>3. I => SentOnceShowsItsDecision
  <2> SUFFICES ASSUME I, NEW k \in Ticks, tick[k].pc = "done", ~tick[k].repeated
               PROVE  /\ tick[k].outcome = "submitted" => Decisions(tick[k].i) = {"ADMITTED"}
                      /\ tick[k].outcome = "refused-onchain" => Decisions(tick[k].i) \in {{}, {"REFUSED"}}
                      /\ tick[k].reported => Decisions(tick[k].i) = {"REFUSED"}
    BY DEF SentOnceShowsItsDecision
  <2>1. tick[k].result = "NONE" /\ (tick[k].reported => tick[k].outcome = "refused-onchain")
    BY DEF ShapeOK, InShape
  <2>2. Traced(tick[k]) => OnlyTrace(k)  BY DEF UnrepeatedIsAlone
  <2>3. tick[k].outcome \in {"submitted", "refused-onchain"} =>
          /\ tick[k].i \in admitted <=> tick[k].outcome = "submitted"
          /\ tick[k].i \in DOMAIN refusals => tick[k].outcome = "refused-onchain"
          /\ tick[k].reported => tick[k].i \in DOMAIN refusals
    BY <2>1, <2>2 DEF Traced, OnlyTrace
  <2>4. Decisions(tick[k].i) = (IF tick[k].i \in admitted THEN {"ADMITTED"} ELSE {})
                                 \cup (IF tick[k].i \in DOMAIN refusals THEN {"REFUSED"} ELSE {})
    BY DEF Decisions, IntentHash
  <2> QED  BY <2>1, <2>3, <2>4
<1> QED  BY <1>1, <1>2, <1>3, PTL DEF Spec
=============================================================================
