---------------------------- MODULE PagesProofs ----------------------------
(***************************************************************************)
(* Proofs about the owner's pages, for any tab, any number of writes under *)
(* way and any amounts.                                                    *)
(***************************************************************************)
EXTENDS PagesSafety, TLAPS

-----------------------------------------------------------------------------
(* Types.                                                                  *)

Wallets == {"owner", "agent", "other"}
Functions == {"approve", "fund", "setCapitalBase", "setGlobalPolicy", "setDomainPolicy",
              "setAgent", "revokeAgent", "withdraw", "withdrawOutcome", "cancelOrder",
              "createPortfolio", "execute"}
Buttoned == {"create", "approve", "fund", "base", "policy", "domain", "register", "revoke",
             "withdraw", "outcome", "cancel", "execute"}
Ways == {"form", "card1", "card2"}

Calls == [fn : Functions, n : Nat, by : Wallets]
Chains == [purse : Nat, allowance : Nat, held : Nat, base : Nat, policy : Nat, ceiling : Nat,
           agent : {"none", "enabled", "revoked"}, tokens : Nat, book : SUBSET Nat,
           records : SUBSET Nat, nonce : Nat, portfolios : SUBSET Nat, open : BOOLEAN,
           admits : BOOLEAN]
Writes == [hook : Buttoned, step : {"nonce", "simulate", "wallet", "receipt"}, call : Calls,
           typed : Nat, on : BOOLEAN, tx : Nat, moved : BOOLEAN]
Free == [hook : {"none"}, step : {"free"}, call : {NoCall}, typed : {0}, on : {FALSE}, tx : {0},
         moved : {FALSE}]
Signed == [call : Calls, typed : Nat, moved : BOOLEAN, status : {"out", "ok", "reverted"}]
Forms == [amount : Nat, label : Nat, ceiling : Nat, name : Nat, open : BOOLEAN, edited : BOOLEAN]
NameSaves == [step : {"none", "time", "sign", "put", "stored"}, name : Nat, no : Nat, old : BOOLEAN,
              overtaken : BOOLEAN, on : BOOLEAN]
Letters == [way : Ways, no : Nat, name : Nat, by : Wallets, old : BOOLEAN]
Pasts == [asked : Nat, deposited : Nat, landed : Nat, astray : BOOLEAN, saves : Nat,
          saved : Nat, settled : BOOLEAN]

ScreenTyped ==
    /\ visit \in Visits
    /\ page \in visit.pages \cup {"portfolio"}
    /\ form \in Forms
    /\ shown \in [UNION {Hooks[p] : p \in visit.pages} -> Phases]

WritesTyped ==
    /\ flows \in [Slots -> Writes \cup Free]
    /\ sent \in Seq(Signed)
    /\ \A k \in Slots :
          /\ flows[k].step = "receipt" => flows[k].tx \in 1 .. Len(sent)
          /\ flows[k].step # "receipt" => flows[k].tx = 0
          /\ flows[k].on => flows[k].hook \in Hooks[page]

NamesTyped ==
    /\ naming \in [Ways -> NameSaves]
    /\ letters \subseteq Letters
    /\ name \in Nat

Typed ==
    /\ chain \in Chains /\ seen \in Chains /\ wallet \in Wallets
    /\ ScreenTyped /\ WritesTyped /\ NamesTyped
    /\ history \in Pasts
    /\ moves \in [writes : Nat, chain : Nat]

-----------------------------------------------------------------------------
(* Strengthenings.                                                         *)

AllowanceIsLeft ==
    /\ history.deposited + chain.allowance <= history.asked
    /\ \A k \in Slots : /\ flows[k].call.fn = "approve" => flows[k].call.n = flows[k].typed
                        /\ flows[k].step = "nonce" => flows[k].call.fn = "execute"
    /\ \A k \in DOMAIN sent : sent[k].call.fn = "approve" => sent[k].call.n = sent[k].typed

\* Time alone may undo what the simulation found.
CanDoInTime(s, c) == CanDo(s, c) \/ (c.fn = "execute" /\ ~s.open)

UnmovedCanBeDone ==
    /\ \A k \in Slots :
          flows[k].step = "wallet" /\ ~flows[k].moved => CanDoInTime(chain, flows[k].call)
    /\ \A k \in DOMAIN sent :
          /\ sent[k].status = "out" /\ ~sent[k].moved => CanDoInTime(chain, sent[k].call)
          /\ sent[k].status = "reverted" =>
                sent[k].moved \/ (sent[k].call.fn = "execute" /\ ~chain.open)

HeldWhileWriting ==
    /\ \A k \in Slots : flows[k].on /\ flows[k].hook # "execute" => Busy(flows[k].hook)
    /\ OneWritePerButton

LabelKept ==
    /\ \A k \in Slots :
          /\ flows[k].step = "nonce" => flows[k].hook = "execute"
          /\ flows[k].hook = "create" => flows[k].call.fn = "createPortfolio"
          /\ flows[k].hook = "create" /\ flows[k].on /\ ~form.edited => flows[k].call.n = form.label
          /\ flows[k].step = "receipt" => sent[flows[k].tx].call = flows[k].call
    /\ \A k \in DOMAIN sent :
          sent[k].status = "ok" /\ sent[k].call.fn = "createPortfolio"
          => sent[k].call.n \in chain.portfolios
    /\ naming["form"].on => page = "agents"
    /\ LandsOnItsPortfolio

\* A letter carries the name of the save it comes from; a save that was stored
\* last has its name in the storage; once settled, nothing under way is accepted.
NamesInOrder ==
    /\ \A w \in Ways :
          /\ naming[w].step # "none" => naming[w].no \in 1 .. history.saves
          /\ naming[w].step = "stored" /\ ~naming[w].overtaken => name = naming[w].name
    /\ \A l \in letters :
          /\ l.no \in 1 .. history.saves
          /\ naming[l.way].no = l.no => naming[l.way].name = l.name
    /\ history.settled =>
          /\ name = history.saved
          /\ \A w \in Ways : ~Live(naming[w])
          /\ \A l \in letters : l.old

-----------------------------------------------------------------------------
(* What the steps are.                                                     *)

\* What is remembered of deposits and landings.
PastKept ==
    /\ history'.asked = history.asked /\ history'.deposited = history.deposited
    /\ history'.landed = history.landed /\ history'.astray = history.astray

\* A click of a button that has no step of its own.
Pressed(h, fn, n, typed) ==
    /\ Click(h, fn, n, typed)
    /\ h \in Buttoned /\ fn \in Functions /\ n \in Nat /\ typed \in Nat
    /\ h = "create" => fn = "createPortfolio" /\ n = form.label
    /\ fn = "approve" => n = typed
    /\ h # "execute"

Passed(k) ==
    /\ flows[k].step = "simulate" /\ Simulated(flows[k].call)
    /\ flows' = [flows EXCEPT ![k].step = "wallet"]
    /\ UNCHANGED <<chain, wallet, screen, seen, sent, nameVars, history, moves>>

\* A write that ends without an answer, or with a bad one.
Ended(k) == flows[k].step # "free" /\ EndFlow(k, "failed")

WriteStep(k) ==
    RefetchNonce(k) \/ Passed(k) \/ Sign(k) \/ Ended(k) \/ ReceiptConfirmed(k) \/ Land(k)

\* No write is a free place.
LEMMA FreeTyped == NoFlow \in Free
  BY DEF NoFlow, Free

\* A blank form has the type of a form.
LEMMA BlankTyped == ASSUME seen \in Chains PROVE Blank \in Forms
  BY DEF Chains, Blank, Forms

\* Every button of a page is one of the buttons.
LEMMA HooksButtoned == ASSUME ScreenTyped PROVE Hooks[page] \subseteq Buttoned
  BY PagesConstants DEF ScreenTyped, Hooks, Buttoned

\* The hooks of the open page are hooks of the tab.
LEMMA HooksShown ==
    ASSUME ScreenTyped, NEW h \in Hooks[page]
    PROVE  h \in DOMAIN shown
  BY PagesConstants DEF ScreenTyped, Hooks

\* Every click is of one form.
LEMMA ButtonsPress ==
    ASSUME Typed, Buttons
    PROVE  \/ \E h \in Buttoned, fn \in Functions, n, typed \in Nat : Pressed(h, fn, n, typed)
           \/ PlaceOrder
<1> form \in Forms /\ Most \in Nat /\ Amounts \subseteq Nat
  BY PagesConstants DEF Typed, ScreenTyped, Amounts
<1> form.amount \in Nat /\ form.label \in Nat /\ form.ceiling \in Nat /\ form.name \in Nat
  BY DEF Forms
<1>1. CASE Approve
  BY <1>1 DEF Approve, Pressed, Buttoned, Functions, AllowanceFor
<1>2. CASE Deposit  BY <1>2 DEF Deposit, Pressed, Buttoned, Functions
<1>3. CASE SetCapitalBase  BY <1>3 DEF SetCapitalBase, Pressed, Buttoned, Functions
<1>4. CASE SaveGlobalPolicy  BY <1>4 DEF SaveGlobalPolicy, Pressed, Buttoned, Functions
<1>5. CASE SaveDomainPolicy  BY <1>5 DEF SaveDomainPolicy, Pressed, Buttoned, Functions
<1>6. CASE CloseDomain  BY <1>6 DEF CloseDomain, Pressed, Buttoned, Functions
<1>7. CASE Register  BY <1>7 DEF Register, Pressed, Buttoned, Functions
<1>8. CASE Revoke  BY <1>8 DEF Revoke, Pressed, Buttoned, Functions
<1>9. CASE Withdraw  BY <1>9 DEF Withdraw, Pressed, Buttoned, Functions
<1>10. CASE WithdrawOutcome  BY <1>10 DEF WithdrawOutcome, Pressed, Buttoned, Functions
<1>11. CASE Create  BY <1>11 DEF Create, Pressed, Buttoned, Functions
<1>12. CASE \E row \in {1, 2} : CancelOrder(row)
  BY <1>12 DEF CancelOrder, Pressed, Buttoned, Functions
<1> QED  BY <1>1, <1>2, <1>3, <1>4, <1>5, <1>6, <1>7, <1>8, <1>9, <1>10, <1>11, <1>12 DEF Buttons

\* Every step of a write is of one of six kinds.
LEMMA WritingSteps == ASSUME Typed, Writing PROVE \E k \in Slots : WriteStep(k)
  BY DEF Writing, WriteStep, Simulate, Passed, Ended, Decline, GiveUp, ReceiptReverted

-----------------------------------------------------------------------------
(* Types are kept.                                                         *)

\* A transaction that can be done leaves a state of the contracts.
LEMMA AfterTyped ==
    ASSUME NEW s \in Chains, NEW c \in Calls, CanDo(s, c)
    PROVE  After(s, c) \in Chains
<1> c.fn \in Functions /\ c.n \in Nat  BY DEF Calls
<1>1. CASE c.fn = "fund"
  <2>1. s.purse - c.n \in Nat /\ s.allowance - c.n \in Nat /\ s.held + c.n \in Nat /\ s.base + c.n \in Nat
    BY <1>1 DEF CanDo, Chains
  <2> QED  BY <1>1, <2>1 DEF After, Chains
<1>2. CASE c.fn = "withdraw"
  <2>1. s.held - c.n \in Nat /\ s.purse + c.n \in Nat /\ BaseAfterWithdrawal(s.base, c.n) \in Nat
    BY <1>2 DEF CanDo, Chains, BaseAfterWithdrawal
  <2> QED  BY <1>2, <2>1 DEF After, Chains
<1>3. CASE c.fn = "withdrawOutcome"
  <2>1. s.tokens - c.n \in Nat  BY <1>3 DEF CanDo, Chains
  <2> QED  BY <1>3, <2>1 DEF After, Chains
<1>4. CASE c.fn = "approve"  BY <1>4 DEF After, Chains
<1>5. CASE c.fn = "setCapitalBase"  BY <1>5 DEF After, Chains
<1>6. CASE c.fn = "setGlobalPolicy"  BY <1>6 DEF After, Chains
<1>7. CASE c.fn = "setDomainPolicy"  BY <1>7 DEF After, Chains
<1>8. CASE c.fn = "setAgent"  BY <1>8 DEF After, Chains
<1>9. CASE c.fn = "revokeAgent"  BY <1>9 DEF After, Chains
<1>10. CASE c.fn = "cancelOrder"  BY <1>10 DEF After, Chains
<1>11. CASE c.fn = "createPortfolio"  BY <1>11 DEF After, Chains
<1>12. CASE c.fn = "execute"  BY <1>12 DEF After, Chains
<1> QED
  BY <1>1, <1>2, <1>3, <1>4, <1>5, <1>6, <1>7, <1>8, <1>9, <1>10, <1>11, <1>12 DEF Functions

\* So does every outcome of one, which has its allowance and its portfolios.
LEMMA OutcomeTyped ==
    ASSUME NEW s \in Chains, NEW c \in Calls, CanDo(s, c), NEW t \in Outcomes(s, c)
    PROVE  /\ t \in Chains /\ t.open = s.open
           /\ t.allowance = After(s, c).allowance /\ t.portfolios = After(s, c).portfolios
<1>1. After(s, c) \in Chains  BY AfterTyped
<1>2. After(s, c).open = s.open
  <2>1. c.fn \in Functions  BY DEF Calls
  <2> QED  BY <2>1 DEF After, Functions, Chains
<1>3. CASE t = After(s, c)  BY <1>1, <1>2, <1>3
<1>4. CASE t = [After(s, c) EXCEPT !.admits = FALSE]  BY <1>1, <1>2, <1>4 DEF Chains
<1> QED  BY <1>3, <1>4 DEF Outcomes

\* What mining a transaction does.
LEMMA Mined ==
    ASSUME Typed, NEW k \in DOMAIN sent, Mine(k)
    PROVE  \E s \in Chains :
              LET c == sent[k].call
                  ok == CanDo(chain, c)
              IN  /\ Shaken(s) /\ chain' = s /\ s.open = chain.open
                  /\ sent' = [Stirred(s, k) EXCEPT ![k].status = IF ok THEN "ok" ELSE "reverted"]
                  /\ ok => /\ s.allowance = After(chain, c).allowance
                           /\ s.portfolios = After(chain, c).portfolios
                  /\ ~ok => s = chain
<1> DEFINE c == sent[k].call
           ok == CanDo(chain, c)
           st == IF ok THEN "ok" ELSE "reverted"
<1>1. chain \in Chains /\ c \in Calls
  <2>1. sent[k] \in Signed  BY DEF Typed, WritesTyped
  <2> QED  BY <2>1 DEF Typed, Signed
<1>2. PICK s \in IF ok THEN Outcomes(chain, c) ELSE {chain} :
         Shaken(s) /\ sent' = [Stirred(s, k) EXCEPT ![k].status = st]
  BY DEF Mine
<1>3. chain' = s  BY <1>2 DEF Shaken
<1>4. ok => /\ s \in Chains /\ s.open = chain.open
            /\ s.allowance = After(chain, c).allowance
            /\ s.portfolios = After(chain, c).portfolios
  <2> SUFFICES ASSUME ok
               PROVE  /\ s \in Chains /\ s.open = chain.open
                      /\ s.allowance = After(chain, c).allowance
                      /\ s.portfolios = After(chain, c).portfolios
    OBVIOUS
  <2>1. s \in Outcomes(chain, c)  BY <1>2
  <2> HIDE DEF c
  <2> QED  BY <1>1, <2>1, OutcomeTyped
<1>5. ~ok => s = chain  BY <1>2
<1>6. s \in Chains /\ s.open = chain.open  BY <1>1, <1>4, <1>5
<1> HIDE DEF st, ok, c
<1>7. /\ Shaken(s) /\ chain' = s /\ s.open = chain.open
      /\ sent' = [Stirred(s, k) EXCEPT ![k].status = st]
      /\ ok => /\ s.allowance = After(chain, c).allowance
               /\ s.portfolios = After(chain, c).portfolios
      /\ ~ok => s = chain
  BY <1>2, <1>3, <1>4, <1>5, <1>6
<1> QED  BY <1>6, <1>7 DEF st, ok, c

\* A hook of the open page may be made to show a phase.
LEMMA ShowTyped ==
    ASSUME ScreenTyped, WritesTyped, NEW k \in Slots, NEW phase \in Phases, Show(k, phase)
    PROVE  shown' \in [UNION {Hooks[p] : p \in visit.pages} -> Phases]
  BY HooksShown DEF Show, ScreenTyped, WritesTyped

\* Naming a step, ending one and beginning one keep the types of the saves.
LEMMA NamingTyped ==
    ASSUME NamesTyped, NEW way \in Ways
    PROVE  /\ [naming EXCEPT ![way] = NoName] \in [Ways -> NameSaves]
           /\ \A st \in {"none", "time", "sign", "put", "stored"} :
                 [naming EXCEPT ![way].step = st] \in [Ways -> NameSaves]
  BY DEF NamesTyped, NameSaves, NoName

\* A save that begins.
Begun(n, no, on) ==
    [step |-> "time", name |-> n, no |-> no, old |-> FALSE, overtaken |-> FALSE, on |-> on]

\* What a save begins with, and what is remembered of it.
LEMMA StartTyped ==
    ASSUME NamesTyped, history \in Pasts, NEW way \in Ways, NEW n \in Nat, NEW on \in BOOLEAN,
           StartNaming(way, n, on)
    PROVE  /\ naming' = [naming EXCEPT ![way] = Begun(n, history.saves + 1, on)]
           /\ naming' \in [Ways -> NameSaves]
           /\ history' \in Pasts /\ PastKept
           /\ history'.saves = history.saves + 1 /\ ~history'.settled
           /\ history'.saved = history.saved
<1>1. naming' = [naming EXCEPT ![way] = Begun(n, history.saves + 1, on)]
  BY DEF StartNaming, Begun
<1>2. Begun(n, history.saves + 1, on) \in NameSaves  BY DEF Begun, NameSaves, Pasts
<1>3. history' = [history EXCEPT !.saves = history.saves + 1, !.settled = FALSE]  BY DEF StartNaming
<1>4. history.saves + 1 \in Nat  BY DEF Pasts
<1>5. /\ history' \in Pasts /\ history'.saves = history.saves + 1 /\ ~history'.settled
      /\ history'.saved = history.saved
  BY <1>3, <1>4 DEF Pasts
<1>6. PastKept  BY <1>3 DEF Pasts, PastKept
<1> QED  BY <1>1, <1>2, <1>5, <1>6 DEF NamesTyped

\* A write is the one it was, but for whether its page is open.
SameWrite(g, f) ==
    /\ g.hook = f.hook /\ g.step = f.step /\ g.call = f.call
    /\ g.typed = f.typed /\ g.tx = f.tx /\ g.moved = f.moved

\* A write whose page is left goes on as it was.
LEMMA LeftBehind ==
    ASSUME NEW f \in Writes \cup Free
    PROVE  /\ [f EXCEPT !.on = FALSE] \in Writes \cup Free
           /\ ~[f EXCEPT !.on = FALSE].on
           /\ SameWrite([f EXCEPT !.on = FALSE], f)
<1>1. CASE f \in Writes  BY <1>1 DEF Writes, SameWrite
<1>2. CASE f \in Free  BY <1>2 DEF Free, SameWrite
<1> QED  BY <1>1, <1>2

\* A click keeps the types.
LEMMA TypedPressed ==
    ASSUME Typed, NEW h \in Buttoned, NEW fn \in Functions, NEW n \in Nat, NEW typed \in Nat,
           Pressed(h, fn, n, typed)
    PROVE  Typed'
<1> USE DEF Pressed, Click, Started
<1>1. ScreenTyped'  BY HooksShown DEF Typed, ScreenTyped, Phases
<1>2. WritesTyped'
  <2>1. Flow(h, "simulate", fn, n, typed) \in Writes  BY DEF Typed, Flow, Writes, Calls
  <2> QED  BY <2>1 DEF Typed, WritesTyped, Flow
<1>3. NamesTyped'  BY DEF Typed, NamesTyped, nameVars
<1> QED  BY <1>1, <1>2, <1>3 DEF Typed

\* Placing an order keeps them.
LEMMA TypedPlaceOrder == ASSUME Typed, PlaceOrder PROVE Typed'
<1> USE DEF PlaceOrder, Started
<1>1. ScreenTyped'  BY DEF Typed, ScreenTyped
<1>2. WritesTyped'
  <2>1. Flow("execute", "nonce", "execute", 0, 0) \in Writes
    BY DEF Typed, Flow, Writes, Calls, Buttoned, Functions
  <2>2. "execute" \in Hooks[page]  BY DEF Hooks
  <2> QED  BY <2>1, <2>2 DEF Typed, WritesTyped, Flow
<1>3. NamesTyped'  BY DEF Typed, NamesTyped, nameVars
<1> QED  BY <1>1, <1>2, <1>3 DEF Typed

\* So does a step of a write.
LEMMA TypedWrite == ASSUME Typed, NEW k \in Slots, WriteStep(k) PROVE Typed'
<1> USE DEF Typed
<1>0. ASSUME flows[k].step # "free" PROVE flows[k] \in Writes
  BY <1>0 DEF WritesTyped, Free
<1>1. CASE RefetchNonce(k)
  <2> USE <1>1 DEF RefetchNonce
  <2>1. ScreenTyped'  BY ShowTyped DEF ScreenTyped, Phases
  <2>2. WritesTyped'
    <3>1. chain.nonce + 1 \in Nat  BY DEF Chains
    <3>2. [flows EXCEPT ![k].step = "simulate", ![k].call.n = chain.nonce + 1]
            \in [Slots -> Writes \cup Free]
      BY <1>0, <3>1 DEF WritesTyped, Writes, Calls
    <3> QED  BY <1>0, <3>2 DEF WritesTyped, Writes
  <2>3. NamesTyped'  BY DEF NamesTyped, nameVars
  <2> QED  BY <2>1, <2>2, <2>3
<1>2. CASE Passed(k)
  <2> USE <1>2 DEF Passed
  <2>1. ScreenTyped'  BY DEF ScreenTyped, screen
  <2>2. WritesTyped'  BY <1>0 DEF WritesTyped, Writes, screen
  <2>3. NamesTyped'  BY DEF NamesTyped, nameVars
  <2> QED  BY <2>1, <2>2, <2>3
<1>3. CASE Sign(k)
  <2> USE <1>3 DEF Sign
  <2>1. ScreenTyped'  BY ShowTyped DEF ScreenTyped, Phases
  <2>2. WritesTyped'
    <3> DEFINE t == [call |-> flows[k].call, typed |-> flows[k].typed,
                     moved |-> flows[k].moved, status |-> "out"]
    <3>1. t \in Signed  BY <1>0 DEF Signed, Writes
    <3>2. sent' \in Seq(Signed) /\ Len(sent') = Len(sent) + 1 /\ Len(sent) \in Nat
      BY <3>1 DEF WritesTyped
    <3>3. [flows EXCEPT ![k].step = "receipt", ![k].tx = Len(sent) + 1]
            \in [Slots -> Writes \cup Free]
      BY <1>0, <3>2 DEF WritesTyped, Writes
    <3> QED  BY <1>0, <3>2, <3>3 DEF WritesTyped, Writes
  <2>3. NamesTyped'  BY DEF NamesTyped, nameVars
  <2> QED  BY <2>1, <2>2, <2>3
<1>4. CASE Ended(k)
  <2> USE <1>4 DEF Ended, EndFlow
  <2>1. ScreenTyped'  BY ShowTyped DEF ScreenTyped, Phases
  <2>2. WritesTyped'  BY FreeTyped DEF WritesTyped, NoFlow
  <2>3. NamesTyped'  BY DEF NamesTyped, nameVars
  <2> QED  BY <2>1, <2>2, <2>3
<1>5. CASE ReceiptConfirmed(k)
  <2> USE <1>5 DEF ReceiptConfirmed
  <2>1. ScreenTyped'
    <3>1. form' \in Forms
      BY BlankTyped DEF ScreenTyped, Cleared, Forms
    <3> QED  BY <3>1, ShowTyped DEF ScreenTyped, Phases
  <2>2. WritesTyped'  BY FreeTyped DEF WritesTyped, NoFlow
  <2>3. NamesTyped' /\ history' \in Pasts
    <3>1. CASE Named(k) /\ StartNaming("form", flows[k].typed, flows[k].on)
      <4>1. flows[k].typed \in Nat /\ flows[k].on \in BOOLEAN  BY <1>0 DEF Writes
      <4>2. naming' \in [Ways -> NameSaves] /\ history' \in Pasts
        BY <3>1, <4>1, StartTyped DEF Ways
      <4> QED  BY <4>2 DEF NamesTyped
    <3>2. CASE UNCHANGED <<naming, history>>  BY <3>2 DEF NamesTyped
    <3> QED  BY <3>1, <3>2
  <2> QED  BY <2>1, <2>2, <2>3
<1>6. CASE Land(k)
  <2> USE <1>6 DEF Land, Goto
  <2>1. ScreenTyped'  BY BlankTyped DEF ScreenTyped, Phases
  <2>2. WritesTyped'
    <3>1. ASSUME NEW j \in Slots
          PROVE  /\ flows'[j] \in Writes \cup Free
                 /\ ~flows'[j].on
                 /\ \/ flows'[j].step = "free" /\ flows'[j].tx = 0
                    \/ flows'[j].step = flows[j].step /\ flows'[j].tx = flows[j].tx
      <4>1. flows[j] \in Writes \cup Free  BY DEF WritesTyped
      <4>2. CASE j = k  BY <4>2, FreeTyped DEF NoFlow
      <4>3. CASE j # k
        <5>1. flows'[j] = [flows[j] EXCEPT !.on = FALSE]  BY <4>3
        <5>2. ~flows'[j].on /\ flows'[j] \in Writes \cup Free  BY <4>1, <5>1, LeftBehind
        <5>3. flows'[j].step = flows[j].step /\ flows'[j].tx = flows[j].tx
          BY <4>1, <5>1, LeftBehind DEF SameWrite
        <5> QED  BY <5>2, <5>3
      <4> QED  BY <4>2, <4>3
    <3>2. flows' \in [Slots -> Writes \cup Free]  BY <3>1
    <3> QED  BY <3>1, <3>2 DEF WritesTyped
  <2>3. NamesTyped'  BY DEF NamesTyped, NameSaves
  <2>4. history' \in Pasts  BY DEF Pasts, ScreenTyped, Forms
  <2> QED  BY <2>1, <2>2, <2>3, <2>4
<1> QED  BY <1>1, <1>2, <1>3, <1>4, <1>5, <1>6 DEF WriteStep

\* A form after a name is through is the form or a blank one.
LEMMA FormAfterTyped ==
    ASSUME Typed, NEW way \in Ways PROVE FormAfterNaming(way) \in Forms
  BY BlankTyped DEF Typed, ScreenTyped, FormAfterNaming

\* What is remembered of a confirmation.
LEMMA ConfirmPast ==
    ASSUME Typed, NEW way \in Ways, Confirm(way)
    PROVE  /\ history' \in Pasts /\ PastKept /\ history'.saves = history.saves
           /\ history'.saved = naming[way].name
           /\ history'.settled = (/\ ~naming[way].overtaken
                                  /\ \A w \in Ways \ {way} : ~Live(naming[w])
                                  /\ \A l \in letters : l.old)
<1> DEFINE b == /\ ~naming[way].overtaken
                /\ \A w \in Ways \ {way} : ~Live(naming[w])
                /\ \A l \in letters : l.old
<1>1. DOMAIN naming = Ways /\ history \in Pasts /\ naming[way].name \in Nat /\ b \in BOOLEAN
  BY DEF Typed, NamesTyped, NameSaves
<1>2. history' = [history EXCEPT !.saved = naming[way].name, !.settled = b]  BY <1>1 DEF Confirm
<1> HIDE DEF b
<1>3. /\ history' \in Pasts /\ PastKept /\ history'.saves = history.saves
      /\ history'.saved = naming[way].name /\ history'.settled = b
  BY <1>1, <1>2 DEF Pasts, PastKept
<1> QED  BY <1>3 DEF b

\* What the saves of names change.
LEMMA TypedNames == ASSUME Typed, Names PROVE Typed'
<1> USE DEF Typed
<1>0. DOMAIN naming = Ways  BY DEF NamesTyped
<1>1. ASSUME NEW way \in Ways, EndNaming(way), UNCHANGED letters, history' \in Pasts PROVE Typed'
  <2> USE <1>1 DEF EndNaming
  <2>1. ScreenTyped'  BY FormAfterTyped DEF ScreenTyped
  <2>2. WritesTyped'  BY DEF WritesTyped
  <2>3. NamesTyped'  BY NamingTyped DEF NamesTyped
  <2> QED  BY <2>1, <2>2, <2>3
<1>2. ASSUME NEW l \in letters PROVE l \in Letters /\ l.way \in Ways /\ l.name \in Nat
  BY <1>2 DEF NamesTyped, Letters
<1>3. ASSUME NEW n \in {0, 1, 2}, SaveName(n) PROVE Typed'
  <2> USE <1>3 DEF SaveName
  <2>1. ScreenTyped'  BY DEF ScreenTyped, screen
  <2>2. WritesTyped'  BY DEF WritesTyped, screen
  <2>3. PICK way \in {"card1", "card2"} : StartNaming(way, n, TRUE)  OBVIOUS
  <2>4. naming' \in [Ways -> NameSaves] /\ history' \in Pasts
    <3>1. way \in Ways /\ n \in Nat  BY DEF Ways
    <3> QED  BY <2>3, <3>1, StartTyped
  <2>5. NamesTyped'  BY <2>4 DEF NamesTyped
  <2> QED  BY <2>1, <2>2, <2>4, <2>5
<1>4. ASSUME NEW way \in Ways, ServerTime(way) PROVE Typed'
  <2>1. CASE EndNaming(way) /\ UNCHANGED <<letters, history>>  BY <2>1, <1>1
  <2>2. CASE /\ naming' = [naming EXCEPT ![way].step = "sign"]
             /\ UNCHANGED <<chain, wallet, screen, seen, flows, sent, letters, name, history, moves>>
    <3>1. ScreenTyped'  BY <2>2 DEF ScreenTyped, screen
    <3>2. WritesTyped'  BY <2>2 DEF WritesTyped, screen
    <3>3. NamesTyped'  BY <2>2, NamingTyped DEF NamesTyped
    <3> QED  BY <2>2, <3>1, <3>2, <3>3
  <2> QED  BY <1>4, <2>1, <2>2 DEF ServerTime
<1>5. ASSUME NEW way \in Ways, SignName(way) PROVE Typed'
  <2> DEFINE m == [way |-> way, no |-> naming[way].no, name |-> naming[way].name,
                   by |-> wallet, old |-> naming[way].old]
  <2>1. CASE EndNaming(way) /\ UNCHANGED <<letters, history>>  BY <2>1, <1>1
  <2>2. CASE /\ naming' = [naming EXCEPT ![way].step = "put"]
             /\ letters' = letters \cup {m}
             /\ UNCHANGED <<chain, wallet, screen, seen, flows, sent, name, history, moves>>
    <3>1. ScreenTyped'  BY <2>2 DEF ScreenTyped, screen
    <3>2. WritesTyped'  BY <2>2 DEF WritesTyped, screen
    <3>3. m \in Letters  BY DEF NamesTyped, NameSaves, Letters
    <3>4. NamesTyped'  BY <2>2, <3>3, NamingTyped DEF NamesTyped
    <3> QED  BY <2>2, <3>1, <3>2, <3>4
  <2> QED  BY <1>5, <2>1, <2>2 DEF SignName
<1>6. ASSUME NEW l \in letters, Serve(l) PROVE Typed'
  <2> USE <1>6 DEF Serve
  <2>1. ScreenTyped'  BY <1>2, FormAfterTyped DEF ScreenTyped
  <2>2. WritesTyped'  BY DEF WritesTyped
  <2>3. naming' \in [Ways -> NameSaves]
    <3>1. ASSUME NEW w \in Ways PROVE naming'[w] \in NameSaves
      <4> DEFINE o == naming[w].overtaken \/ (Accepted(l) /\ naming[w].step = "stored")
      <4>1. naming[w] \in NameSaves  BY DEF NamesTyped
      <4>2. CASE w = l.way /\ Awaited(l)
        <5>1. naming'[w] = IF Accepted(l) THEN [naming[w] EXCEPT !.step = "stored"] ELSE NoName
          BY <1>0, <4>2
        <5>2. NoName \in NameSaves  BY DEF NameSaves, NoName
        <5>3. [naming[w] EXCEPT !.step = "stored"] \in NameSaves  BY <4>1 DEF NameSaves
        <5> QED  BY <5>1, <5>2, <5>3, Zenon
      <4>3. CASE ~(w = l.way /\ Awaited(l))
        <5>1. naming'[w] = [naming[w] EXCEPT !.overtaken = o]  BY <1>0, <4>3
        <5>2. o \in BOOLEAN  BY <4>1 DEF NameSaves
        <5> HIDE DEF o
        <5> QED  BY <4>1, <5>1, <5>2 DEF NameSaves
      <4> QED  BY <4>2, <4>3
    <3> QED  BY <1>0, <3>1
  <2>4. NamesTyped'  BY <1>2, <2>3 DEF NamesTyped
  <2> QED  BY <2>1, <2>2, <2>4
<1>7. ASSUME NEW way \in Ways, LoseAnswer(way) PROVE Typed'
  BY <1>1, <1>7 DEF LoseAnswer
<1>8. ASSUME NEW way \in Ways, Confirm(way) PROVE Typed'
  BY <1>1, <1>8, ConfirmPast DEF Confirm
<1>9. CASE Age
  <2> USE <1>9 DEF Age
  <2>1. ScreenTyped'  BY DEF ScreenTyped, screen
  <2>2. WritesTyped'  BY DEF WritesTyped, screen
  <2>3. NamesTyped'
    <3>1. ASSUME NEW s \in NameSaves, NEW o, o \in BOOLEAN PROVE [s EXCEPT !.old = o] \in NameSaves
      BY <3>1 DEF NameSaves
    <3>2. ASSUME NEW w \in Ways PROVE naming'[w] \in NameSaves
      <4> DEFINE o == naming[w].old \/ naming[w].step # "time"
      <4>1. o \in BOOLEAN  BY DEF NamesTyped, NameSaves
      <4>2. naming'[w] = [naming[w] EXCEPT !.old = o]  BY <1>0
      <4> HIDE DEF o
      <4> QED  BY <3>1, <4>1, <4>2 DEF NamesTyped
    <3>3. naming' \in [Ways -> NameSaves]  BY <1>0, <3>2
    <3>4. letters' \subseteq Letters  BY DEF NamesTyped, Letters
    <3> QED  BY <3>3, <3>4 DEF NamesTyped
  <2> QED  BY <2>1, <2>2, <2>3
<1> QED  BY <1>0, <1>3, <1>4, <1>5, <1>6, <1>7, <1>8, <1>9 DEF Names

\* Leaving a page, typing, a read and a dismissal keep the types.
LEMMA TypedScreen ==
    ASSUME Typed,
           \/ \E p \in visit.pages \cup {"portfolio"} : Open(p)
           \/ \E f \in Inputs : Type(f)
           \/ \E f \in Concerned \cap Queried : Refresh(f)
           \/ \E h \in Hooks[page] : Dismiss(h)
    PROVE  Typed'
<1> USE DEF Typed
<1>1. ASSUME NEW p \in visit.pages \cup {"portfolio"}, Open(p) PROVE Typed'
  <2> USE <1>1 DEF Open, Goto
  <2>1. ScreenTyped'  BY BlankTyped DEF ScreenTyped, Phases
  <2>2. WritesTyped'
    <3>1. ASSUME NEW j \in Slots
          PROVE  /\ flows'[j] \in Writes \cup Free
                 /\ ~flows'[j].on
                 /\ flows'[j].step = flows[j].step /\ flows'[j].tx = flows[j].tx
      BY LeftBehind DEF WritesTyped, SameWrite
    <3>2. flows' \in [Slots -> Writes \cup Free]  BY <3>1
    <3> QED  BY <3>1, <3>2 DEF WritesTyped
  <2>3. NamesTyped'  BY DEF NamesTyped, NameSaves
  <2> QED  BY <2>1, <2>2, <2>3
<1>2. ASSUME NEW f \in Inputs, Type(f) PROVE Typed'
  <2> USE <1>2 DEF Type
  <2>1. f \in Forms
    <3>1. Amounts \subseteq Nat  BY PagesConstants DEF Amounts
    <3>2. ASSUME NEW l \in Nat, NEW o, o \in BOOLEAN
          PROVE  [form EXCEPT !.label = l, !.edited = o] \in Forms
      BY <3>2 DEF ScreenTyped, Forms
    <3>3. Busy("create") \in BOOLEAN  BY DEF Busy
    <3>4. CASE page = "create"
      <4>1. PICK l \in Labels : f = [form EXCEPT !.label = l, !.edited = Busy("create")]
        BY <3>4 DEF Inputs
      <4>2. l \in Nat  BY DEF Labels
      <4> QED  BY <3>2, <3>3, <4>1, <4>2
    <3>5. CASE page # "create"  BY <3>1, <3>5 DEF Inputs, ScreenTyped, Forms
    <3> QED  BY <3>4, <3>5
  <2>2. ScreenTyped'  BY <2>1 DEF ScreenTyped
  <2>3. WritesTyped'  BY DEF WritesTyped
  <2>4. NamesTyped'  BY DEF NamesTyped, nameVars
  <2> QED  BY <2>2, <2>3, <2>4
<1>3. ASSUME NEW f \in Concerned \cap Queried, Refresh(f) PROVE Typed'
  <2> USE <1>3 DEF Refresh
  <2>1. seen' \in Chains  BY DEF Queried, Chains
  <2>2. ScreenTyped'  BY DEF ScreenTyped, screen
  <2>3. WritesTyped'  BY DEF WritesTyped, screen
  <2>4. NamesTyped'  BY DEF NamesTyped, nameVars
  <2> QED  BY <2>1, <2>2, <2>3, <2>4
<1>4. ASSUME NEW h \in Hooks[page], Dismiss(h) PROVE Typed'
  <2> USE <1>4 DEF Dismiss
  <2>1. ScreenTyped'  BY DEF ScreenTyped, Phases
  <2>2. WritesTyped'  BY DEF WritesTyped
  <2>3. NamesTyped'  BY DEF NamesTyped, nameVars
  <2> QED  BY <2>1, <2>2, <2>3
<1> QED  BY <1>1, <1>2, <1>3, <1>4

\* A change of the chain leaves the writes what they were.
LEMMA ShakenTyped ==
    ASSUME Typed, NEW s \in Chains, NEW k, Shaken(s)
    PROVE  /\ flows' \in [Slots -> Writes \cup Free]
           /\ \A j \in Slots : \A x \in {"hook", "step", "call", "typed", "on", "tx"} :
                 flows'[j][x] = flows[j][x]
           /\ Stirred(s, k) \in Seq(Signed) /\ Len(Stirred(s, k)) = Len(sent)
           /\ \A j \in DOMAIN sent :
                 /\ Stirred(s, k)[j].call = sent[j].call
                 /\ Stirred(s, k)[j].typed = sent[j].typed
                 /\ Stirred(s, k)[j].status = sent[j].status
<1> USE DEF Typed, WritesTyped
<1>1. ASSUME NEW j \in Slots
      PROVE  /\ flows'[j] \in Writes \cup Free
             /\ \A x \in {"hook", "step", "call", "typed", "on", "tx"} : flows'[j][x] = flows[j][x]
  <2>1. CASE flows[j].step = "wallet" /\ s # chain
    <3>1. flows'[j] = [flows[j] EXCEPT !.moved = TRUE]  BY <2>1 DEF Shaken
    <3>2. flows[j] \in Writes  BY <2>1 DEF Free
    <3> QED  BY <3>1, <3>2 DEF Writes
  <2>2. CASE ~(flows[j].step = "wallet" /\ s # chain)  BY <2>2 DEF Shaken
  <2> QED  BY <2>1, <2>2
<1>2. flows' \in [Slots -> Writes \cup Free]  BY <1>1 DEF Shaken
<1>3. Len(sent) \in Nat /\ DOMAIN sent = 1 .. Len(sent)  OBVIOUS
<1>4. ASSUME NEW j \in DOMAIN sent
      PROVE  /\ Stirred(s, k)[j] \in Signed
             /\ Stirred(s, k)[j].call = sent[j].call
             /\ Stirred(s, k)[j].typed = sent[j].typed
             /\ Stirred(s, k)[j].status = sent[j].status
  <2>1. sent[j] \in Signed  BY <1>3
  <2> QED  BY <2>1 DEF Stirred, Signed
<1>5. Stirred(s, k) \in Seq(Signed) /\ Len(Stirred(s, k)) = Len(sent)
  BY <1>3, <1>4 DEF Stirred
<1> QED  BY <1>1, <1>2, <1>4, <1>5

\* What everybody else's changes are.
OthersMade(s) ==
    \/ \E n \in Amounts : s = [chain EXCEPT !.purse = n]
    \/ \E n \in Amounts : s = [chain EXCEPT !.held = n]
    \/ \E a \in {"enabled", "revoked"} : s = [chain EXCEPT !.agent = a]
    \/ \E n \in {0, 1} : s = [chain EXCEPT !.ceiling = n]
    \/ s = [chain EXCEPT !.policy = 2] \/ s = [chain EXCEPT !.tokens = 0]
    \/ \E b \in BOOLEAN : s = [chain EXCEPT !.admits = b]
    \/ \E n \in {chain.nonce + 1} \cap (0 .. Most) : s = [chain EXCEPT !.nonce = n]
    \/ \E id \in chain.book : s = [chain EXCEPT !.book = @ \ {id}]
    \/ \E id \in chain.records \ chain.book : s = [chain EXCEPT !.records = @ \ {id}]
    \/ \E l \in Labels : s = [chain EXCEPT !.portfolios = @ \cup {l}]

\* The set of others' changes, change by change.
LEMMA ElsewhereMade == ASSUME NEW s \in Elsewhere PROVE OthersMade(s)
  BY Zenon DEF Elsewhere, OthersMade

\* Everybody else's changes are changes of one field to a value of its type.
LEMMA ElsewhereTyped == ASSUME Typed, NEW s \in Elsewhere PROVE s \in Chains
<1>1. Amounts \subseteq Nat /\ chain \in Chains /\ 0 .. Most \subseteq Nat
  BY PagesConstants DEF Typed, Amounts
<1>2. ASSUME NEW n \in Nat
      PROVE  /\ [chain EXCEPT !.purse = n] \in Chains /\ [chain EXCEPT !.held = n] \in Chains
             /\ [chain EXCEPT !.ceiling = n] \in Chains /\ [chain EXCEPT !.policy = n] \in Chains
             /\ [chain EXCEPT !.tokens = n] \in Chains /\ [chain EXCEPT !.nonce = n] \in Chains
             /\ [chain EXCEPT !.book = @ \ {n}] \in Chains
             /\ [chain EXCEPT !.records = @ \ {n}] \in Chains
             /\ [chain EXCEPT !.portfolios = @ \cup {n}] \in Chains
  BY <1>1 DEF Chains
<1>6. ASSUME NEW b \in BOOLEAN PROVE [chain EXCEPT !.admits = b] \in Chains
  BY <1>1 DEF Chains
<1>3. ASSUME NEW a \in {"enabled", "revoked"} PROVE [chain EXCEPT !.agent = a] \in Chains
  BY <1>1 DEF Chains
<1>4. chain.book \subseteq Nat /\ chain.records \subseteq Nat  BY <1>1 DEF Chains
<1>5. \/ \E n \in Nat :
            \/ s = [chain EXCEPT !.purse = n] \/ s = [chain EXCEPT !.held = n]
            \/ s = [chain EXCEPT !.ceiling = n] \/ s = [chain EXCEPT !.policy = n]
            \/ s = [chain EXCEPT !.tokens = n] \/ s = [chain EXCEPT !.nonce = n]
            \/ s = [chain EXCEPT !.book = @ \ {n}] \/ s = [chain EXCEPT !.records = @ \ {n}]
            \/ s = [chain EXCEPT !.portfolios = @ \cup {n}]
      \/ \E a \in {"enabled", "revoked"} : s = [chain EXCEPT !.agent = a]
      \/ \E b \in BOOLEAN : s = [chain EXCEPT !.admits = b]
  <2>1. OthersMade(s)  BY ElsewhereMade
  <2>2. 0 \in Nat /\ 1 \in Nat /\ 2 \in Nat /\ Labels \subseteq Nat  BY DEF Labels
  <2> QED  BY <1>1, <1>4, <2>1, <2>2, Zenon DEF OthersMade
<1> QED  BY <1>2, <1>3, <1>5, <1>6

\* What the chain does keeps the types.
LEMMA TypedChain ==
    ASSUME Typed, Others \/ TimeRunsOut \/ \E k \in DOMAIN sent : Mine(k)
    PROVE  Typed'
<1> USE DEF Typed
<1>1. ASSUME NEW k \in DOMAIN sent, Mine(k) PROVE Typed'
  <2> DEFINE c == sent[k].call
             st == IF CanDo(chain, c) THEN "ok" ELSE "reverted"
  <2>1. DOMAIN sent = 1 .. Len(sent) /\ Len(sent) \in Nat /\ sent[k] \in Signed
    BY DEF WritesTyped
  <2>2. c \in Calls /\ sent[k].typed \in Nat  BY <2>1 DEF Signed
  <2>4. PICK s \in Chains :
           Shaken(s) /\ sent' = [Stirred(s, k) EXCEPT ![k].status = st] /\ chain' = s
    BY <1>1, Mined
  <2>5. UNCHANGED <<wallet, screen, seen, nameVars, moves>>  BY <1>1 DEF Mine
  <2>6. ScreenTyped'  BY <2>5 DEF ScreenTyped, screen
  <2>7. WritesTyped'
    <3>1. /\ flows' \in [Slots -> Writes \cup Free]
          /\ \A j \in Slots : \A x \in {"hook", "step", "call", "typed", "on", "tx"} :
                flows'[j][x] = flows[j][x]
          /\ Stirred(s, k) \in Seq(Signed) /\ Len(Stirred(s, k)) = Len(sent)
      BY <2>4, ShakenTyped
    <3>2. sent' \in Seq(Signed) /\ Len(sent') = Len(sent)
      <4>1. DOMAIN Stirred(s, k) = 1 .. Len(sent)  BY <3>1
      <4>2. Stirred(s, k)[k] \in Signed  BY <2>1, <3>1
      <4>3. [Stirred(s, k)[k] EXCEPT !.status = st] \in Signed  BY <4>2 DEF Signed
      <4>4. sent' = [Stirred(s, k) EXCEPT ![k] = [Stirred(s, k)[k] EXCEPT !.status = st]]
        BY <2>4
      <4> HIDE DEF st
      <4> QED  BY <2>1, <3>1, <4>1, <4>3, <4>4
    <3>3. page' = page  BY <2>5 DEF screen
    <3>4. ASSUME NEW j \in Slots
          PROVE  /\ flows'[j].step = "receipt" => flows'[j].tx \in 1 .. Len(sent')
                 /\ flows'[j].step # "receipt" => flows'[j].tx = 0
                 /\ flows'[j].on => flows'[j].hook \in Hooks[page']
      <4>1. /\ flows'[j].step = flows[j].step /\ flows'[j].tx = flows[j].tx
            /\ flows'[j].on = flows[j].on /\ flows'[j].hook = flows[j].hook
        BY <3>1
      <4> QED  BY <3>2, <3>3, <4>1 DEF WritesTyped
    <3> QED  BY <3>1, <3>2, <3>4 DEF WritesTyped
  <2>8. NamesTyped'  BY <2>5 DEF NamesTyped, nameVars
  <2>9. history' \in Pasts
    <3> DEFINE a == IF c.fn = "approve" THEN history.asked + sent[k].typed ELSE history.asked
               d == IF CanDo(chain, c) /\ c.fn = "fund" THEN history.deposited + c.n
                    ELSE history.deposited
    <3>1. a \in Nat /\ d \in Nat  BY <2>2 DEF Pasts, Calls
    <3>2. history' = [history EXCEPT !.asked = a, !.deposited = d]  BY <1>1 DEF Mine
    <3> HIDE DEF a, d
    <3> QED  BY <3>1, <3>2 DEF Pasts
  <2> QED  BY <2>4, <2>5, <2>6, <2>7, <2>8, <2>9
<1>2. CASE Others
  <2>1. UNCHANGED <<screen, seen, nameVars, history>> /\ moves' \in [writes : Nat, chain : Nat]
    BY <1>2 DEF Others
  <2>2. ScreenTyped' /\ NamesTyped'  BY <2>1 DEF ScreenTyped, NamesTyped, screen, nameVars
  <2>3. CASE \E w \in {"owner", "agent", "other"} \ {wallet} :
               wallet' = w /\ UNCHANGED <<chain, flows, sent>>
    BY <2>1, <2>2, <2>3 DEF WritesTyped, Wallets, screen
  <2>4. ASSUME NEW s \in Elsewhere, Shaken(s), sent' = Stirred(s, 0), UNCHANGED wallet
        PROVE  Typed'
    <3>1. s \in Chains /\ chain' = s  BY <2>4, ElsewhereTyped DEF Shaken
    <3>2. WritesTyped'
      <4>1. /\ flows' \in [Slots -> Writes \cup Free]
            /\ \A j \in Slots : \A x \in {"hook", "step", "call", "typed", "on", "tx"} :
                  flows'[j][x] = flows[j][x]
            /\ Stirred(s, 0) \in Seq(Signed) /\ Len(Stirred(s, 0)) = Len(sent)
        BY <2>4, <3>1, ShakenTyped
      <4>2. ASSUME NEW j \in Slots
            PROVE  /\ flows'[j].step = flows[j].step /\ flows'[j].tx = flows[j].tx
                   /\ flows'[j].on = flows[j].on /\ flows'[j].hook = flows[j].hook
        BY <4>1
      <4> QED  BY <2>1, <2>4, <4>1, <4>2 DEF WritesTyped, screen
    <3> QED  BY <2>1, <2>2, <2>4, <3>1, <3>2
  <2> QED  BY <1>2, <2>3, <2>4 DEF Others
<1>3. CASE TimeRunsOut
  <2> USE <1>3 DEF TimeRunsOut
  <2>1. chain' \in Chains  BY DEF Chains
  <2>2. ScreenTyped' /\ WritesTyped' /\ NamesTyped'
    BY DEF ScreenTyped, WritesTyped, NamesTyped, screen, nameVars
  <2> QED  BY <2>1, <2>2
<1> QED  BY <1>1, <1>2, <1>3

\* Every step keeps the types.
LEMMA TypedStep == ASSUME Typed, [Next]_vars PROVE Typed'
<1>1. CASE UNCHANGED vars
  BY <1>1 DEF vars, Typed, ScreenTyped, WritesTyped, NamesTyped, screen, nameVars
<1>2. CASE Buttons  BY <1>2, ButtonsPress, TypedPressed, TypedPlaceOrder
<1>3. CASE Writing  BY <1>3, WritingSteps, TypedWrite
<1>4. CASE Names  BY <1>4, TypedNames
<1>5. CASE Others \/ TimeRunsOut \/ \E k \in DOMAIN sent : Mine(k)  BY <1>5, TypedChain
<1>6. CASE \/ \E p \in visit.pages \cup {"portfolio"} : Open(p)
           \/ \E f \in Inputs : Type(f)
           \/ \E f \in Concerned \cap Queried : Refresh(f)
           \/ \E h \in Hooks[page] : Dismiss(h)
  BY <1>6, TypedScreen
<1> QED  BY <1>1, <1>2, <1>3, <1>4, <1>5, <1>6 DEF Next

\* The tab starts with these types.
LEMMA TypedInit == ASSUME Init PROVE Typed
<1> USE PagesConstants DEF Init
<1>1. chain \in Chains /\ seen \in Chains  BY DEF Chains
<1>2. ScreenTyped  BY <1>1, BlankTyped DEF ScreenTyped, Phases
<1>3. WritesTyped  BY FreeTyped DEF WritesTyped, NoFlow
<1>4. NamesTyped  BY DEF NamesTyped, Ways, NameSaves, NoName
<1>5. history \in Pasts  BY <1>1 DEF Pasts, Chains
<1> QED  BY <1>1, <1>2, <1>3, <1>4, <1>5 DEF Typed, Wallets

\* The typed states satisfy the type invariant that is stated of the pages.
LEMMA TypedImplies == ASSUME Typed PROVE PagesTypeOK
<1>1. \A k \in DOMAIN sent : sent[k].status \in {"out", "ok", "reverted"}
  <2>1. \A k \in DOMAIN sent : sent[k] \in Signed  BY DEF Typed, WritesTyped
  <2> QED  BY <2>1 DEF Signed
<1>2. ASSUME NEW k \in Slots
      PROVE  /\ flows[k].step \in {"free", "nonce", "simulate", "wallet", "receipt"}
             /\ flows[k].tx \in 0 .. Len(sent)
  <2>1. flows[k] \in Writes \cup Free /\ Len(sent) \in Nat  BY DEF Typed, WritesTyped
  <2>2. flows[k].step \in {"free", "nonce", "simulate", "wallet", "receipt"}
    BY <2>1 DEF Writes, Free
  <2> QED  BY <2>1, <2>2 DEF Typed, WritesTyped
<1>3. {chain.purse, chain.allowance, chain.held, chain.base, chain.tokens} \subseteq Nat
  BY DEF Typed, Chains
<1> QED  BY <1>1, <1>2, <1>3 DEF PagesTypeOK, Typed, ScreenTyped

\* No balance, allowance or base is ever negative and everything keeps its type,
\* whatever is typed, signed, left or mined (the pages of apps/web).
THEOREM PagesTypeCorrect == Spec => []PagesTypeOK
<1>1. Init => Typed  BY TypedInit
<1>2. Typed /\ [Next]_vars => Typed'  BY TypedStep
<1>3. Typed => PagesTypeOK  BY TypedImplies
<1> QED  BY <1>1, <1>2, <1>3, PTL DEF Spec

-----------------------------------------------------------------------------
(* What steps leave alone.                                                 *)

\* The saves of names leave the contracts, the writes and the transactions alone.
LEMMA NamesLeave ==
    ASSUME Names
    PROVE  UNCHANGED <<chain, wallet, visit, page, shown, flows, sent>>
<1>1. CASE \E n \in {0, 1, 2} : SaveName(n)  BY <1>1 DEF SaveName, screen
<1>2. CASE \E way \in DOMAIN naming :
              ServerTime(way) \/ SignName(way) \/ Confirm(way) \/ LoseAnswer(way)
  BY <1>2 DEF ServerTime, SignName, Confirm, LoseAnswer, EndNaming, screen
<1>3. CASE \E l \in letters : Serve(l)  BY <1>3 DEF Serve
<1>4. CASE Age  BY <1>4 DEF Age, screen
<1> QED  BY <1>1, <1>2, <1>3, <1>4 DEF Names

\* They leave what is remembered of deposits and landings alone.
LEMMA NamesPast == ASSUME Typed, Names PROVE PastKept
<1>0. DOMAIN naming = Ways /\ NamesTyped /\ history \in Pasts  BY DEF Typed, NamesTyped
<1>1. ASSUME NEW n \in {0, 1, 2}, SaveName(n) PROVE PastKept
  BY <1>0, <1>1, StartTyped DEF SaveName, Ways
<1>2. ASSUME NEW way \in Ways, ServerTime(way) \/ SignName(way) \/ LoseAnswer(way) PROVE PastKept
  BY <1>2 DEF ServerTime, SignName, LoseAnswer, PastKept
<1>3. ASSUME NEW way \in Ways, Confirm(way) PROVE PastKept  BY <1>3, ConfirmPast
<1>4. ASSUME NEW l \in letters, Serve(l) PROVE PastKept  BY <1>4 DEF Serve, PastKept
<1>5. CASE Age  BY <1>5 DEF Age, PastKept
<1> QED  BY <1>0, <1>1, <1>2, <1>3, <1>4, <1>5 DEF Names

\* A form is only blanked for a registration whose page is still open.
LEMMA NamesForm ==
    ASSUME Typed, Names
    PROVE  /\ naming'["form"].on => naming["form"].on
           /\ form' = form \/ (naming["form"].on /\ form' = Blank)
<1> USE DEF Typed, NamesTyped
<1>0. DOMAIN naming = Ways /\ naming["form"] \in NameSaves  BY DEF Ways
<1> DEFINE Goal == /\ naming'["form"].on => naming["form"].on
                   /\ form' = form \/ (naming["form"].on /\ form' = Blank)
<1>1. ASSUME NEW way \in Ways, EndNaming(way) PROVE Goal
  BY <1>0, <1>1 DEF EndNaming, FormAfterNaming, NoName, Ways
<1>2. ASSUME NEW n \in {0, 1, 2}, SaveName(n) PROVE Goal
  BY <1>0, <1>2 DEF SaveName, StartNaming, screen, Ways
<1>3. ASSUME NEW way \in Ways, NEW st, naming' = [naming EXCEPT ![way].step = st], UNCHANGED form
      PROVE  Goal
  BY <1>0, <1>3 DEF NameSaves, Ways
<1>4. ASSUME NEW way \in Ways, ServerTime(way) PROVE Goal
  BY <1>1, <1>3, <1>4 DEF ServerTime, screen
<1>5. ASSUME NEW way \in Ways, SignName(way) PROVE Goal
  BY <1>1, <1>3, <1>5 DEF SignName, screen
<1>6. ASSUME NEW way \in Ways, Confirm(way) \/ LoseAnswer(way) PROVE Goal
  BY <1>1, <1>6 DEF Confirm, LoseAnswer
<1>7. ASSUME NEW l \in letters, Serve(l) PROVE Goal
  <2>1. "form" \in DOMAIN naming  BY <1>0 DEF Ways
  <2>2. CASE "form" = l.way /\ Awaited(l)
    <3>1. naming'["form"] = [naming["form"] EXCEPT !.step = "stored"] \/ naming'["form"] = NoName
      BY <1>7, <2>1, <2>2 DEF Serve
    <3>2. naming'["form"].on => naming["form"].on  BY <1>0, <3>1 DEF NameSaves, NoName
    <3> QED  BY <1>7, <3>2 DEF Serve, FormAfterNaming
  <2>3. CASE ~("form" = l.way /\ Awaited(l))
    <3>1. \E o : naming'["form"] = [naming["form"] EXCEPT !.overtaken = o]
      BY <1>7, <2>1, <2>3 DEF Serve
    <3>2. naming'["form"].on = naming["form"].on  BY <1>0, <3>1 DEF NameSaves
    <3> QED  BY <1>7, <2>3, <3>2 DEF Serve, FormAfterNaming
  <2> QED  BY <2>2, <2>3
<1>9. ASSUME Age PROVE Goal
  <2>1. \E o : naming'["form"] = [naming["form"] EXCEPT !.old = o]  BY <1>0, <1>9 DEF Age, Ways
  <2>2. naming'["form"].on = naming["form"].on  BY <1>0, <2>1 DEF NameSaves
  <2> QED  BY <1>9, <2>2 DEF Age, screen
<1> HIDE DEF Goal
<1>10. Goal  BY <1>0, <1>2, <1>4, <1>5, <1>6, <1>7, <1>9 DEF Names
<1> QED  BY <1>10 DEF Goal

\* A step of a write leaves the contracts, the wallet and the other writes alone,
\* except that landing leaves their page.
LEMMA WriteQuiet ==
    ASSUME Typed, NEW k \in Slots, WriteStep(k)
    PROVE  /\ UNCHANGED <<chain, wallet, visit>>
           /\ history'.asked = history.asked /\ history'.deposited = history.deposited
           /\ \A j \in Slots \ {k} : SameWrite(flows'[j], flows[j])
           /\ \A j \in Slots : flows'[j].on => flows[j].on
           /\ flows[k] \in Writes
<1> USE DEF Typed, WritesTyped
<1>0. flows[k] \in Writes /\ history \in Pasts /\ \A j \in Slots : flows[j] \in Writes \cup Free
  BY DEF WriteStep, RefetchNonce, Passed, Sign, Ended, ReceiptConfirmed, Land, Free
<1>1. CASE RefetchNonce(k)  BY <1>0, <1>1 DEF RefetchNonce, Writes, Calls, SameWrite
<1>2. CASE Passed(k)  BY <1>0, <1>2 DEF Passed, Writes, screen, SameWrite
<1>3. CASE Sign(k)  BY <1>0, <1>3 DEF Sign, Writes, SameWrite
<1>4. CASE Ended(k)  BY <1>0, <1>4 DEF Ended, EndFlow, NoFlow, SameWrite
<1>5. CASE ReceiptConfirmed(k)
  BY <1>0, <1>5 DEF ReceiptConfirmed, StartNaming, NoFlow, Pasts, SameWrite
<1>6. CASE Land(k)
  <2>1. ASSUME NEW j \in Slots \ {k}
        PROVE  ~flows'[j].on /\ SameWrite(flows'[j], flows[j])
    <3>1. flows'[j] = [flows[j] EXCEPT !.on = FALSE]  BY <1>6 DEF Land
    <3> QED  BY <1>0, <3>1, LeftBehind
  <2>2. flows'[k] = NoFlow  BY <1>6 DEF Land
  <2> QED  BY <1>0, <1>6, <2>1, <2>2 DEF Land, Goto, NoFlow, Pasts
<1> QED  BY <1>1, <1>2, <1>3, <1>4, <1>5, <1>6 DEF WriteStep

\* What happens on the screen leaves them alone, except that leaving a page
\* leaves its writes.
LEMMA ScreenQuiet ==
    ASSUME Typed,
           \/ \E p \in visit.pages \cup {"portfolio"} : Open(p)
           \/ \E f \in Inputs : Type(f)
           \/ \E f \in Concerned \cap Queried : Refresh(f)
           \/ \E h \in Hooks[page] : Dismiss(h)
    PROVE  /\ UNCHANGED <<chain, wallet, visit, sent, history>>
           /\ \A j \in Slots : SameWrite(flows'[j], flows[j])
           /\ UNCHANGED flows \/ \A j \in Slots : ~flows'[j].on
<1>1. CASE \E p \in visit.pages \cup {"portfolio"} : Open(p)
  <2>1. ASSUME NEW j \in Slots PROVE ~flows'[j].on /\ SameWrite(flows'[j], flows[j])
    <3>1. flows'[j] = [flows[j] EXCEPT !.on = FALSE]  BY <1>1 DEF Open
    <3>2. flows[j] \in Writes \cup Free  BY DEF Typed, WritesTyped
    <3> QED  BY <3>1, <3>2, LeftBehind
  <2> QED  BY <1>1, <2>1 DEF Open, Goto
<1>2. CASE \/ \E f \in Inputs : Type(f)
           \/ \E f \in Concerned \cap Queried : Refresh(f)
           \/ \E h \in Hooks[page] : Dismiss(h)
  BY <1>2 DEF Type, Refresh, Dismiss, screen, SameWrite
<1> QED  BY <1>1, <1>2

-----------------------------------------------------------------------------
(* Deposits stay within the approvals.                                     *)

\* The allowance is what was approved and not yet deposited, at most.
LEMMA AllowanceStep == ASSUME Typed, AllowanceIsLeft, [Next]_vars PROVE AllowanceIsLeft'
<1> USE DEF AllowanceIsLeft
<1>0. /\ history \in Pasts /\ chain \in Chains /\ Len(sent) \in Nat
      /\ \A j \in Slots : flows[j] \in Writes \cup Free
      /\ \A j \in DOMAIN sent : sent[j] \in Signed
  BY DEF Typed, WritesTyped
<1>1. CASE UNCHANGED vars  BY <1>1 DEF vars
<1>2. ASSUME NEW h \in Buttoned, NEW fn \in Functions, NEW n \in Nat, NEW typed \in Nat,
             Pressed(h, fn, n, typed)
      PROVE  AllowanceIsLeft'
  BY <1>0, <1>2 DEF Pressed, Click, Started, Flow, Typed, WritesTyped
<1>3. CASE PlaceOrder
  BY <1>0, <1>3 DEF PlaceOrder, Started, Flow, Typed, WritesTyped
<1>4. ASSUME NEW k \in Slots, WriteStep(k) PROVE AllowanceIsLeft'
  <2>1. /\ UNCHANGED chain /\ flows[k] \in Writes
        /\ history'.asked = history.asked /\ history'.deposited = history.deposited
        /\ \A j \in Slots \ {k} : SameWrite(flows'[j], flows[j])
    BY <1>4, WriteQuiet
  <2>2. CASE RefetchNonce(k)
    <3>1. flows'[k].call.fn = "execute"
      <4>1. flows'[k].call = [flows[k].call EXCEPT !.n = chain.nonce + 1]
        BY <2>1, <2>2 DEF RefetchNonce, Typed, WritesTyped, Writes
      <4>2. flows[k].call \in Calls /\ flows[k].call.fn = "execute"
        BY <2>1, <2>2 DEF RefetchNonce, Writes
      <4> QED  BY <4>1, <4>2 DEF Calls
    <3>2. UNCHANGED <<sent, history>>  BY <2>2 DEF RefetchNonce
    <3>3. \A j \in Slots : /\ flows'[j].call.fn = "approve" => flows'[j].call.n = flows'[j].typed
                           /\ flows'[j].step = "nonce" => flows'[j].call.fn = "execute"
      BY <2>1, <3>1 DEF SameWrite
    <3> QED  BY <2>1, <3>2, <3>3
  <2>3. CASE Passed(k)
    <3>1. flows'[k].call = flows[k].call /\ flows'[k].typed = flows[k].typed /\ flows'[k].step = "wallet"
      BY <2>1, <2>3 DEF Passed, Typed, WritesTyped, Writes
    <3> QED  BY <2>1, <2>3, <3>1 DEF SameWrite, Passed
  <2>4. CASE Sign(k)
    <3>1. flows'[k].call = flows[k].call /\ flows'[k].typed = flows[k].typed /\ flows'[k].step = "receipt"
      BY <2>1, <2>4 DEF Sign, Typed, WritesTyped, Writes
    <3>2. ASSUME NEW j \in DOMAIN sent'
          PROVE  sent'[j].call.fn = "approve" => sent'[j].call.n = sent'[j].typed
      <4>1. j \in 1 .. Len(sent) + 1 /\ DOMAIN sent = 1 .. Len(sent)
        BY <1>0, <2>4 DEF Sign, Typed, WritesTyped
      <4>2. CASE j \in DOMAIN sent  BY <2>4, <4>1, <4>2 DEF Sign, Typed, WritesTyped
      <4>3. CASE j = Len(sent) + 1
        <5>1. sent'[j].call = flows[k].call /\ sent'[j].typed = flows[k].typed
          BY <2>4, <4>3 DEF Sign, Typed, WritesTyped
        <5> QED  BY <5>1
      <4> QED  BY <4>1, <4>2, <4>3
    <3> QED  BY <2>1, <2>4, <3>1, <3>2 DEF SameWrite
  <2>5. CASE Ended(k)
    BY <1>0, <2>1, <2>5 DEF Ended, EndFlow, SameWrite, NoFlow, NoCall, Typed, WritesTyped
  <2>6. CASE ReceiptConfirmed(k)
    BY <1>0, <2>1, <2>6 DEF ReceiptConfirmed, SameWrite, NoFlow, NoCall, Typed, WritesTyped
  <2>7. CASE Land(k)
    BY <1>0, <2>1, <2>7 DEF Land, SameWrite, NoFlow, NoCall, Typed, WritesTyped
  <2> QED  BY <1>4, <2>2, <2>3, <2>4, <2>5, <2>6, <2>7 DEF WriteStep
<1>5. CASE Names
  BY <1>0, <1>5, NamesLeave, NamesPast DEF PastKept
<1>6. CASE \/ \E p \in visit.pages \cup {"portfolio"} : Open(p)
           \/ \E f \in Inputs : Type(f)
           \/ \E f \in Concerned \cap Queried : Refresh(f)
           \/ \E h \in Hooks[page] : Dismiss(h)
  BY <1>6, ScreenQuiet DEF SameWrite
<1>7. ASSUME NEW k \in DOMAIN sent, Mine(k) PROVE AllowanceIsLeft'
  <2> DEFINE c == sent[k].call
             st == IF CanDo(chain, c) THEN "ok" ELSE "reverted"
  <2>1. c \in Calls /\ sent[k].typed \in Nat  BY <1>0 DEF Signed
  <2>3. PICK s \in Chains :
           /\ Shaken(s) /\ sent' = [Stirred(s, k) EXCEPT ![k].status = st] /\ chain' = s
           /\ CanDo(chain, c) => s.allowance = After(chain, c).allowance
           /\ ~CanDo(chain, c) => s = chain
    BY <1>7, Mined
  <2>4. /\ \A j \in Slots : flows'[j].call = flows[j].call /\ flows'[j].typed = flows[j].typed
                            /\ flows'[j].step = flows[j].step
        /\ \A j \in DOMAIN sent : /\ Stirred(s, k)[j].call = sent[j].call
                                  /\ Stirred(s, k)[j].typed = sent[j].typed
        /\ Stirred(s, k) \in Seq(Signed) /\ Len(Stirred(s, k)) = Len(sent)
    BY <2>3, ShakenTyped
  <2>5. \A j \in DOMAIN sent' : /\ j \in DOMAIN sent
                                /\ sent'[j].call = sent[j].call /\ sent'[j].typed = sent[j].typed
    <3>1. DOMAIN Stirred(s, k) = 1 .. Len(sent) /\ DOMAIN sent = 1 .. Len(sent)
      BY <2>4 DEF Typed, WritesTyped
    <3>2. \A j \in DOMAIN sent : Stirred(s, k)[j] \in Signed  BY <2>4, <3>1
    <3> HIDE DEF st
    <3> QED  BY <2>3, <2>4, <3>1, <3>2 DEF Signed
  <2>6. /\ history'.asked = IF c.fn = "approve" THEN history.asked + sent[k].typed ELSE history.asked
        /\ history'.deposited = IF CanDo(chain, c) /\ c.fn = "fund" THEN history.deposited + c.n
                                ELSE history.deposited
    BY <1>0, <1>7 DEF Mine, Pasts
  <2>7. history'.deposited + chain'.allowance <= history'.asked
    <3>1. /\ history.asked \in Nat /\ history.deposited \in Nat /\ chain.allowance \in Nat
          /\ c.n \in Nat /\ c.fn \in Functions
      BY <1>0, <2>1 DEF Pasts, Chains, Calls
    <3>2. CASE c.fn = "approve"
      <4>1. chain'.allowance = c.n /\ c.n = sent[k].typed
        BY <1>0, <2>3, <3>2 DEF CanDo, After, Chains
      <4> QED  BY <2>1, <2>6, <3>1, <3>2, <4>1
    <3>3. CASE c.fn = "fund"
      <4>1. CanDo(chain, c) => chain'.allowance = chain.allowance - c.n
        BY <1>0, <2>3, <3>3 DEF After, Chains
      <4>2. ~CanDo(chain, c) => chain' = chain  BY <2>3
      <4> QED  BY <2>6, <3>1, <3>3, <4>1, <4>2
    <3>4. CASE c.fn \notin {"approve", "fund"}
      <4>1. chain'.allowance = chain.allowance
        BY <1>0, <2>3, <3>1, <3>4 DEF After, Chains, Functions
      <4> QED  BY <2>6, <3>1, <3>4, <4>1
    <3> QED  BY <3>2, <3>3, <3>4
  <2> QED  BY <2>4, <2>5, <2>7
<1>8. CASE Others
  <2>1. UNCHANGED history  BY <1>8 DEF Others
  <2>2. CASE UNCHANGED <<chain, flows, sent>>  BY <2>1, <2>2
  <2>3. ASSUME NEW s \in Elsewhere, Shaken(s), sent' = Stirred(s, 0) PROVE AllowanceIsLeft'
    <3>1. s \in Chains /\ chain' = s  BY <2>3, ElsewhereTyped DEF Shaken
    <3>2. chain'.allowance = chain.allowance
      BY <1>0, <3>1 DEF Elsewhere, Chains
    <3>3. /\ \A j \in Slots : flows'[j].call = flows[j].call /\ flows'[j].typed = flows[j].typed
                              /\ flows'[j].step = flows[j].step
          /\ \A j \in DOMAIN sent : /\ Stirred(s, 0)[j].call = sent[j].call
                                    /\ Stirred(s, 0)[j].typed = sent[j].typed
          /\ Stirred(s, 0) \in Seq(Signed) /\ Len(Stirred(s, 0)) = Len(sent)
      BY <2>3, <3>1, ShakenTyped
    <3>4. DOMAIN Stirred(s, 0) = DOMAIN sent  BY <3>3 DEF Typed, WritesTyped
    <3> QED  BY <2>1, <2>3, <3>2, <3>3, <3>4
  <2> QED  BY <1>8, <2>2, <2>3 DEF Others
<1>9. CASE TimeRunsOut  BY <1>0, <1>9 DEF TimeRunsOut, Chains
<1> QED
  BY <1>1, <1>2, <1>3, <1>4, <1>5, <1>6, <1>7, <1>8, <1>9, ButtonsPress, WritingSteps DEF Next

\* It starts as what an earlier approval has left.
LEMMA AllowanceInit == ASSUME Init PROVE AllowanceIsLeft
  BY PagesConstants DEF Init, AllowanceIsLeft, NoFlow, NoCall

\* What leaves the wallet for a portfolio never exceeds what the owner typed into
\* the approvals, however often a deposit is repeated, given up on or mined late
\* (Funding in settings.tsx).
THEOREM PagesDepositsWithinApprovals == Spec => []DepositsWithinApprovals
<1>1. Init => Typed /\ AllowanceIsLeft  BY TypedInit, AllowanceInit
<1>2. Typed /\ AllowanceIsLeft /\ [Next]_vars => (Typed /\ AllowanceIsLeft)'
  BY TypedStep, AllowanceStep
<1>3. Typed /\ AllowanceIsLeft => DepositsWithinApprovals
  BY DEF Typed, Pasts, Chains, AllowanceIsLeft, DepositsWithinApprovals
<1> QED  BY <1>1, <1>2, <1>3, PTL DEF Spec

-----------------------------------------------------------------------------
(* Nothing hopeless is signed.                                             *)

\* The others leave an order's time alone.
LEMMA ElsewhereOpen == ASSUME Typed, NEW s \in Elsewhere PROVE s.open = chain.open
  BY DEF Typed, Elsewhere, Chains

\* What was simulated can be done until the chain moves, or the order's time is out.
LEMMA UnmovedStep == ASSUME Typed, UnmovedCanBeDone, [Next]_vars PROVE UnmovedCanBeDone'
<1> USE DEF UnmovedCanBeDone
<1>0. /\ Len(sent) \in Nat /\ DOMAIN sent = 1 .. Len(sent)
      /\ \A j \in Slots : flows[j] \in Writes \cup Free
      /\ \A j \in DOMAIN sent : sent[j] \in Signed
  BY DEF Typed, WritesTyped
<1>1. CASE UNCHANGED vars  BY <1>1 DEF vars
<1>2. ASSUME NEW h \in Buttoned, NEW fn \in Functions, NEW n \in Nat, NEW typed \in Nat,
             Pressed(h, fn, n, typed)
      PROVE  UnmovedCanBeDone'
  BY <1>2 DEF Pressed, Click, Started, Flow, Typed, WritesTyped
<1>3. CASE PlaceOrder
  BY <1>3 DEF PlaceOrder, Started, Flow, Typed, WritesTyped
<1>4. ASSUME NEW k \in Slots, WriteStep(k) PROVE UnmovedCanBeDone'
  <2>1. /\ UNCHANGED chain /\ flows[k] \in Writes
        /\ \A j \in Slots \ {k} : SameWrite(flows'[j], flows[j])
    BY <1>4, WriteQuiet
  <2>2. CASE RefetchNonce(k)
    <3>1. flows'[k].step = "simulate"
      BY <2>1, <2>2 DEF RefetchNonce, Typed, WritesTyped, Writes
    <3>2. UNCHANGED sent  BY <2>2 DEF RefetchNonce
    <3>3. \A j \in Slots : flows'[j].step = "wallet" =>
             flows[j].step = "wallet" /\ flows'[j].call = flows[j].call /\ flows'[j].moved = flows[j].moved
      BY <2>1, <3>1 DEF SameWrite
    <3> QED  BY <2>1, <3>2, <3>3
  <2>3. CASE Passed(k)
    <3>1. flows'[k].call = flows[k].call /\ CanDoInTime(chain, flows[k].call)
      BY <2>1, <2>3 DEF Passed, Typed, WritesTyped, Writes, Simulated, CanDoInTime
    <3> QED  BY <2>1, <2>3, <3>1 DEF SameWrite, Passed
  <2>4. CASE Sign(k)
    <3>1. flows'[k].step = "receipt"
      BY <2>1, <2>4 DEF Sign, Typed, WritesTyped, Writes
    <3>2. ASSUME NEW j \in DOMAIN sent'
          PROVE  /\ sent'[j].status = "out" /\ ~sent'[j].moved => CanDoInTime(chain, sent'[j].call)
                 /\ sent'[j].status = "reverted" =>
                       sent'[j].moved \/ (sent'[j].call.fn = "execute" /\ ~chain.open)
      <4>1. j \in 1 .. Len(sent) + 1  BY <1>0, <2>4 DEF Sign, Typed, WritesTyped
      <4>2. CASE j \in DOMAIN sent  BY <1>0, <2>4, <4>1, <4>2 DEF Sign, Typed, WritesTyped
      <4>3. CASE j = Len(sent) + 1
        <5>1. /\ sent'[j].call = flows[k].call /\ sent'[j].moved = flows[k].moved
              /\ sent'[j].status = "out"
          BY <2>4, <4>3 DEF Sign, Typed, WritesTyped
        <5> QED  BY <2>4, <5>1 DEF Sign
      <4> QED  BY <1>0, <4>1, <4>2, <4>3
    <3> QED  BY <2>1, <2>4, <3>1, <3>2 DEF SameWrite
  <2>5. CASE Ended(k)
    BY <1>0, <2>1, <2>5 DEF Ended, EndFlow, SameWrite, NoFlow, Typed, WritesTyped
  <2>6. CASE ReceiptConfirmed(k)
    BY <1>0, <2>1, <2>6 DEF ReceiptConfirmed, SameWrite, NoFlow, Typed, WritesTyped
  <2>7. CASE Land(k)
    BY <1>0, <2>1, <2>7 DEF Land, SameWrite, NoFlow, Typed, WritesTyped
  <2> QED  BY <1>4, <2>2, <2>3, <2>4, <2>5, <2>6, <2>7 DEF WriteStep
<1>5. CASE Names  BY <1>5, NamesLeave
<1>6. CASE \/ \E p \in visit.pages \cup {"portfolio"} : Open(p)
           \/ \E f \in Inputs : Type(f)
           \/ \E f \in Concerned \cap Queried : Refresh(f)
           \/ \E h \in Hooks[page] : Dismiss(h)
  BY <1>6, ScreenQuiet DEF SameWrite
<1>7. ASSUME NEW s, NEW k, Shaken(s), s.open = chain.open
      PROVE  /\ \A j \in Slots : flows'[j].step = "wallet" /\ ~flows'[j].moved
                                 => CanDoInTime(s, flows'[j].call)
             /\ \A j \in DOMAIN sent : j # k =>
                  /\ Stirred(s, k)[j].status = "out" /\ ~Stirred(s, k)[j].moved
                     => CanDoInTime(s, Stirred(s, k)[j].call)
                  /\ Stirred(s, k)[j].status = "reverted" =>
                       \/ Stirred(s, k)[j].moved
                       \/ Stirred(s, k)[j].call.fn = "execute" /\ ~s.open
  <2>1. ASSUME NEW j \in Slots, flows'[j].step = "wallet", ~flows'[j].moved
        PROVE  CanDoInTime(s, flows'[j].call)
    <3>1. CASE flows[j].step = "wallet" /\ s # chain
      <4>1. flows'[j] = [flows[j] EXCEPT !.moved = TRUE]  BY <1>7, <3>1 DEF Shaken
      <4>2. flows[j] \in Writes  BY <1>0, <3>1 DEF Free
      <4> QED  BY <2>1, <4>1, <4>2 DEF Writes
    <3>2. CASE ~(flows[j].step = "wallet" /\ s # chain)
      <4>1. flows'[j] = flows[j]  BY <1>7, <3>2 DEF Shaken
      <4> QED  BY <2>1, <3>2, <4>1
    <3> QED  BY <3>1, <3>2
  <2>2. ASSUME NEW j \in DOMAIN sent, j # k
        PROVE  /\ Stirred(s, k)[j].status = "out" /\ ~Stirred(s, k)[j].moved
                  => CanDoInTime(s, Stirred(s, k)[j].call)
               /\ Stirred(s, k)[j].status = "reverted" =>
                    \/ Stirred(s, k)[j].moved
                    \/ Stirred(s, k)[j].call.fn = "execute" /\ ~s.open
    <3>1. CASE sent[j].status = "out" /\ s # chain
      <4>1. Stirred(s, k)[j] = [sent[j] EXCEPT !.moved = TRUE]  BY <2>2, <3>1 DEF Stirred
      <4> QED  BY <1>0, <3>1, <4>1 DEF Signed
    <3>2. CASE ~(sent[j].status = "out" /\ s # chain)
      <4>1. Stirred(s, k)[j] = sent[j]  BY <2>2, <3>2 DEF Stirred
      <4> QED  BY <1>7, <3>2, <4>1
    <3> QED  BY <3>1, <3>2
  <2> QED  BY <2>1, <2>2
<1>8. ASSUME NEW k \in DOMAIN sent, Mine(k) PROVE UnmovedCanBeDone'
  <2> DEFINE c == sent[k].call
             st == IF CanDo(chain, c) THEN "ok" ELSE "reverted"
  <2>1. PICK s \in Chains :
           /\ Shaken(s) /\ sent' = [Stirred(s, k) EXCEPT ![k].status = st] /\ chain' = s
           /\ s.open = chain.open
    BY <1>8, Mined
  <2>2. DOMAIN Stirred(s, k) = DOMAIN sent /\ Stirred(s, k)[k] = sent[k]  BY DEF Stirred
  <2>3. sent'[k] = [sent[k] EXCEPT !.status = st] /\ DOMAIN sent' = DOMAIN sent
    <3> HIDE DEF st
    <3> QED  BY <2>1, <2>2
  <2>4. st = "reverted" => ~CanDo(chain, c)  OBVIOUS
  <2>5. st \in {"ok", "reverted"}  OBVIOUS
  <2>6. /\ sent'[k].status = st
        /\ st = "reverted" => sent'[k].moved \/ (sent'[k].call.fn = "execute" /\ ~chain'.open)
    <3>0. sent[k].status = "out"  BY <1>8 DEF Mine
    <3>1. st = "reverted" => sent[k].moved \/ (c.fn = "execute" /\ ~chain.open)
      BY <2>4, <3>0 DEF CanDoInTime
    <3> HIDE DEF st
    <3>2. sent'[k].status = st /\ sent'[k].moved = sent[k].moved /\ sent'[k].call = c
      BY <1>0, <2>3 DEF Signed
    <3> QED  BY <2>1, <3>1, <3>2
  <2>7. \A j \in DOMAIN sent : j # k => sent'[j] = Stirred(s, k)[j]
    <3> HIDE DEF st
    <3> QED  BY <2>1, <2>2
  <2> HIDE DEF st, c
  <2> QED  BY <1>7, <2>1, <2>3, <2>5, <2>6, <2>7
<1>9. CASE Others
  <2>1. CASE UNCHANGED <<chain, flows, sent>>  BY <2>1
  <2>2. ASSUME NEW s \in Elsewhere, Shaken(s), sent' = Stirred(s, 0) PROVE UnmovedCanBeDone'
    <3>1. chain' = s /\ DOMAIN Stirred(s, 0) = DOMAIN sent  BY <2>2 DEF Shaken, Stirred
    <3>2. \A j \in DOMAIN sent : j # 0  BY <1>0
    <3>3. s.open = chain.open  BY ElsewhereOpen
    <3> QED  BY <1>7, <2>2, <3>1, <3>2, <3>3
  <2> QED  BY <1>9, <2>1, <2>2 DEF Others
<1>10. CASE TimeRunsOut
  <2>1. chain' = [chain EXCEPT !.open = FALSE] /\ UNCHANGED <<flows, sent>>
    BY <1>10 DEF TimeRunsOut
  <2>2. ASSUME NEW c, CanDoInTime(chain, c) PROVE CanDoInTime(chain', c)
    <3>1. CASE c.fn = "execute"  BY <2>1, <3>1 DEF CanDoInTime, Typed, Chains
    <3>2. CASE c.fn # "execute"
      <4>1. CanDo(chain, c)  BY <2>2, <3>2 DEF CanDoInTime
      <4>2. CanDo(chain', c)  BY <2>1, <3>2, <4>1 DEF CanDo, Typed, Chains
      <4> QED  BY <4>2 DEF CanDoInTime
    <3> QED  BY <3>1, <3>2
  <2>3. ~chain'.open  BY <2>1 DEF Typed, Chains
  <2> QED  BY <2>1, <2>2, <2>3
<1> QED
  BY <1>1, <1>2, <1>3, <1>4, <1>5, <1>6, <1>8, <1>9, <1>10, ButtonsPress, WritingSteps DEF Next

\* Whoever pays for a reverted write was overtaken by another change since the
\* simulation, or sent an order whose market or policy has since run out of time
\* (send in tx.ts, _evaluate).
THEOREM PagesRevertsOnlyIfOvertaken == Spec => []RevertsOnlyIfOvertaken
<1>1. Init => Typed /\ UnmovedCanBeDone
  <2>1. Init => UnmovedCanBeDone  BY DEF Init, UnmovedCanBeDone, NoFlow
  <2> QED  BY <2>1, TypedInit
<1>2. Typed /\ UnmovedCanBeDone /\ [Next]_vars => (Typed /\ UnmovedCanBeDone)'
  BY TypedStep, UnmovedStep
<1>3. UnmovedCanBeDone => RevertsOnlyIfOvertaken
  BY DEF UnmovedCanBeDone, RevertsOnlyIfOvertaken
<1> QED  BY <1>1, <1>2, <1>3, PTL DEF Spec

-----------------------------------------------------------------------------
(* One write per button.                                                   *)

\* Only a page's own buttons are on it.
LEMMA HooksOfPages ==
    ASSUME ScreenTyped
    PROVE  /\ "create" \in Hooks[page] => page = "create"
           /\ "register" \in Hooks[page] => page = "agents"
           /\ "execute" \in Hooks[page] => page = "room"
  BY PagesConstants DEF ScreenTyped, Hooks

\* The chain's own steps leave the page and its buttons alone.
LEMMA ChainQuiet ==
    ASSUME Typed, Others \/ TimeRunsOut \/ \E k \in DOMAIN sent : Mine(k)
    PROVE  /\ UNCHANGED <<screen, nameVars, seen>>
           /\ \A j \in Slots : /\ flows'[j].hook = flows[j].hook /\ flows'[j].on = flows[j].on
                               /\ flows'[j].step = flows[j].step /\ flows'[j].tx = flows[j].tx
                               /\ flows'[j].call = flows[j].call
           /\ chain.portfolios \subseteq chain'.portfolios
           /\ DOMAIN sent' = DOMAIN sent
           /\ \A j \in DOMAIN sent : sent'[j].call = sent[j].call
           /\ history'.landed = history.landed /\ history'.astray = history.astray
<1> USE DEF Typed, WritesTyped
<1>0. DOMAIN sent = 1 .. Len(sent) /\ \A j \in DOMAIN sent : sent[j] \in Signed  OBVIOUS
<1>1. ASSUME NEW k \in DOMAIN sent, Mine(k)
      PROVE  \E s \in Chains : /\ Shaken(s) /\ chain' = s /\ chain.portfolios \subseteq s.portfolios
                               /\ DOMAIN sent' = DOMAIN sent
                               /\ \A j \in DOMAIN sent : sent'[j].call = sent[j].call
  <2> DEFINE c == sent[k].call
             st == IF CanDo(chain, c) THEN "ok" ELSE "reverted"
  <2>1. c \in Calls /\ c.fn \in Functions  BY <1>0 DEF Signed, Calls
  <2>3. PICK s \in Chains :
           /\ Shaken(s) /\ sent' = [Stirred(s, k) EXCEPT ![k].status = st] /\ chain' = s
           /\ CanDo(chain, c) => s.portfolios = After(chain, c).portfolios
           /\ ~CanDo(chain, c) => s = chain
    BY <1>1, Mined
  <2>4. chain.portfolios \subseteq s.portfolios
    <3>1. chain.portfolios \subseteq After(chain, c).portfolios
      BY <2>1 DEF After, Chains, Functions
    <3> QED  BY <2>3, <3>1
  <2>5. DOMAIN Stirred(s, k) = DOMAIN sent /\ \A j \in DOMAIN sent : Stirred(s, k)[j].call = sent[j].call
    BY <1>0 DEF Stirred, Signed
  <2>6. Stirred(s, k)[k] = sent[k]  BY DEF Stirred
  <2>7. DOMAIN sent' = DOMAIN sent /\ \A j \in DOMAIN sent : sent'[j].call = sent[j].call
    <3> HIDE DEF st
    <3> QED  BY <1>0, <2>3, <2>5, <2>6 DEF Signed
  <2> QED  BY <2>3, <2>4, <2>7
<1>2. ASSUME NEW s \in Elsewhere PROVE chain.portfolios \subseteq s.portfolios
  <2>1. \/ s.portfolios = chain.portfolios
        \/ \E l \in Labels : s = [chain EXCEPT !.portfolios = @ \cup {l}]
    <3>1. ASSUME NEW x
          PROVE  /\ [chain EXCEPT !.purse = x].portfolios = chain.portfolios
                 /\ [chain EXCEPT !.held = x].portfolios = chain.portfolios
                 /\ [chain EXCEPT !.agent = x].portfolios = chain.portfolios
                 /\ [chain EXCEPT !.ceiling = x].portfolios = chain.portfolios
                 /\ [chain EXCEPT !.policy = x].portfolios = chain.portfolios
                 /\ [chain EXCEPT !.tokens = x].portfolios = chain.portfolios
                 /\ [chain EXCEPT !.admits = x].portfolios = chain.portfolios
                 /\ [chain EXCEPT !.nonce = x].portfolios = chain.portfolios
                 /\ [chain EXCEPT !.book = @ \ {x}].portfolios = chain.portfolios
                 /\ [chain EXCEPT !.records = @ \ {x}].portfolios = chain.portfolios
      BY DEF Chains
    <3>2. CASE \E x : \/ s = [chain EXCEPT !.purse = x] \/ s = [chain EXCEPT !.held = x]
                      \/ s = [chain EXCEPT !.agent = x] \/ s = [chain EXCEPT !.ceiling = x]
                      \/ s = [chain EXCEPT !.policy = x] \/ s = [chain EXCEPT !.tokens = x]
                      \/ s = [chain EXCEPT !.admits = x] \/ s = [chain EXCEPT !.nonce = x]
                      \/ s = [chain EXCEPT !.book = @ \ {x}]
                      \/ s = [chain EXCEPT !.records = @ \ {x}]
      <4>1. PICK x : \/ s = [chain EXCEPT !.purse = x] \/ s = [chain EXCEPT !.held = x]
                     \/ s = [chain EXCEPT !.agent = x] \/ s = [chain EXCEPT !.ceiling = x]
                     \/ s = [chain EXCEPT !.policy = x] \/ s = [chain EXCEPT !.tokens = x]
                     \/ s = [chain EXCEPT !.admits = x] \/ s = [chain EXCEPT !.nonce = x]
                     \/ s = [chain EXCEPT !.book = @ \ {x}]
                     \/ s = [chain EXCEPT !.records = @ \ {x}]
        BY <3>2
      <4> QED  BY <3>1, <4>1
    <3>3. CASE \E l \in Labels : s = [chain EXCEPT !.portfolios = @ \cup {l}]  BY <3>3
    <3>4. OthersMade(s)  BY <1>2, ElsewhereMade
    <3> QED  BY <3>2, <3>3, <3>4, Zenon DEF OthersMade
  <2>2. ASSUME NEW l \in Labels, s = [chain EXCEPT !.portfolios = @ \cup {l}]
        PROVE  s.portfolios = chain.portfolios \cup {l}
    BY <2>2 DEF Chains
  <2> QED  BY <2>1, <2>2
<1>3. ASSUME NEW s \in Chains, Shaken(s)
      PROVE  \A j \in Slots : /\ flows'[j].hook = flows[j].hook /\ flows'[j].on = flows[j].on
                              /\ flows'[j].step = flows[j].step /\ flows'[j].tx = flows[j].tx
                              /\ flows'[j].call = flows[j].call
  BY <1>3, ShakenTyped
<1>4. CASE \E k \in DOMAIN sent : Mine(k)
  BY <1>1, <1>3, <1>4 DEF Mine, Pasts
<1>5. CASE Others
  <2>1. UNCHANGED <<screen, nameVars, seen, history>>  BY <1>5 DEF Others
  <2>2. CASE UNCHANGED <<chain, flows, sent>>  BY <2>1, <2>2
  <2>3. ASSUME NEW s \in Elsewhere, Shaken(s), sent' = Stirred(s, 0)
        PROVE  /\ chain' = s /\ s \in Chains /\ DOMAIN sent' = DOMAIN sent
               /\ \A j \in DOMAIN sent : sent'[j].call = sent[j].call
    BY <1>0, <2>3, ElsewhereTyped DEF Stirred, Signed, Shaken
  <2> QED  BY <1>2, <1>3, <1>5, <2>1, <2>2, <2>3 DEF Others
<1>6. CASE TimeRunsOut  BY <1>6 DEF TimeRunsOut, Chains
<1> QED  BY <1>4, <1>5, <1>6

\* A button whose write is under way is held.
LEMMA HeldStep == ASSUME Typed, HeldWhileWriting, [Next]_vars PROVE HeldWhileWriting'
<1> USE DEF HeldWhileWriting, OneWritePerButton, Busy
<1>0. /\ ScreenTyped /\ \A j \in Slots : flows[j] \in Writes \cup Free
      /\ flows \in [Slots -> Writes \cup Free]
      /\ \A j \in Slots : flows[j].on => flows[j].hook \in DOMAIN shown
  BY HooksShown DEF Typed, WritesTyped
<1>1. CASE UNCHANGED vars  BY <1>1 DEF vars, screen
<1>2. ASSUME NEW h \in Buttoned, NEW fn \in Functions, NEW n \in Nat, NEW typed \in Nat,
             Pressed(h, fn, n, typed)
      PROVE  HeldWhileWriting'
  <2>1. h \in DOMAIN shown  BY <1>0, <1>2, HooksShown DEF Pressed, Click
  <2>2. PICK k \in Slots : flows' = [flows EXCEPT ![k] = Flow(h, "simulate", fn, n, typed)]
    BY <1>2 DEF Pressed, Click, Started
  <2>3. shown' = [shown EXCEPT ![h] = "signing"] /\ ~Busy(h) /\ h # "execute"
    BY <1>2 DEF Pressed, Click
  <2>4. flows'[k].hook = h /\ \A j \in Slots \ {k} : flows'[j] = flows[j]
    BY <1>0, <2>2 DEF Flow
  <2>5. \A j \in Slots \ {k} : flows[j].on => flows[j].hook # h  BY <2>3
  <2> QED  BY <1>0, <2>1, <2>3, <2>4, <2>5
<1>3. CASE PlaceOrder
  <2>1. PICK k \in Slots : flows' = [flows EXCEPT ![k] = Flow("execute", "nonce", "execute", 0, 0)]
    BY <1>3 DEF PlaceOrder, Started
  <2>2. flows'[k].hook = "execute" /\ \A j \in Slots \ {k} : flows'[j] = flows[j]
    BY <1>0, <2>1 DEF Flow
  <2> QED  BY <1>3, <2>2 DEF PlaceOrder
<1>4. ASSUME NEW k \in Slots, WriteStep(k) PROVE HeldWhileWriting'
  <2>1. /\ flows[k] \in Writes /\ \A j \in Slots : flows'[j].on => flows[j].on
        /\ \A j \in Slots \ {k} : flows'[j].hook = flows[j].hook
    BY <1>4, WriteQuiet DEF SameWrite
  <2>2. ASSUME NEW phase \in {"signing", "pending"}, Show(k, phase), flows'[k].hook = flows[k].hook
        PROVE  HeldWhileWriting'
    BY <1>0, <2>1, <2>2 DEF Show
  <2>3. ASSUME NEW phase, Show(k, phase), flows'[k] = NoFlow PROVE HeldWhileWriting'
    BY <1>0, <2>1, <2>3 DEF Show, NoFlow
  <2>4. CASE RefetchNonce(k)
    BY <1>0, <2>1, <2>2, <2>4 DEF RefetchNonce, Writes
  <2>5. CASE Passed(k)
    <3>1. flows'[k].hook = flows[k].hook /\ UNCHANGED shown
      BY <1>0, <2>1, <2>5 DEF Passed, screen, Writes
    <3> QED  BY <2>1, <3>1
  <2>6. CASE Sign(k)  BY <1>0, <2>1, <2>2, <2>6 DEF Sign, Writes
  <2>7. CASE Ended(k)  BY <1>0, <2>3, <2>7 DEF Ended, EndFlow
  <2>8. CASE ReceiptConfirmed(k)  BY <1>0, <2>3, <2>8 DEF ReceiptConfirmed
  <2>9. CASE Land(k)
    <3>1. ASSUME NEW j \in Slots PROVE ~flows'[j].on
      <4>1. CASE j = k  BY <2>9, <4>1 DEF Land, NoFlow
      <4>2. CASE j # k
        <5>1. flows'[j] = [flows[j] EXCEPT !.on = FALSE]  BY <2>9, <4>2 DEF Land
        <5> QED  BY <1>0, <5>1, LeftBehind
      <4> QED  BY <4>1, <4>2
    <3> QED  BY <3>1
  <2> QED  BY <1>4, <2>4, <2>5, <2>6, <2>7, <2>8, <2>9 DEF WriteStep
<1>5. CASE Names  BY <1>5, NamesLeave
<1>6. CASE \/ \E p \in visit.pages \cup {"portfolio"} : Open(p)
           \/ \E f \in Inputs : Type(f)
           \/ \E f \in Concerned \cap Queried : Refresh(f)
           \/ \E h \in Hooks[page] : Dismiss(h)
  <2>1. CASE \A j \in Slots : ~flows'[j].on  BY <2>1
  <2>2. CASE UNCHANGED flows /\ ~\E h \in Hooks[page] : Dismiss(h) /\ ~\A j \in Slots : ~flows'[j].on
    <3>1. CASE \E p \in visit.pages \cup {"portfolio"} : Open(p)
      <4>1. ASSUME NEW j \in Slots PROVE ~flows'[j].on
        <5>1. flows'[j] = [flows[j] EXCEPT !.on = FALSE]  BY <3>1 DEF Open
        <5> QED  BY <1>0, <5>1, LeftBehind
      <4> QED  BY <2>2, <4>1
    <3>2. CASE UNCHANGED shown  BY <2>2, <3>2
    <3> QED  BY <1>6, <2>2, <3>1, <3>2 DEF Type, Refresh, screen
  <2>3. ASSUME NEW h \in Hooks[page], Dismiss(h) PROVE HeldWhileWriting'
    BY <1>0, <2>3 DEF Dismiss
  <2> QED  BY <1>6, <2>1, <2>2, <2>3, ScreenQuiet
<1>7. CASE Others \/ TimeRunsOut \/ \E k \in DOMAIN sent : Mine(k)
  BY <1>7, ChainQuiet DEF screen
<1> QED
  BY <1>1, <1>2, <1>3, <1>4, <1>5, <1>6, <1>7, ButtonsPress, WritingSteps DEF Next

\* A button of the open page has one write under way at a time, whatever failed
\* or was dismissed before; placing an order is the exception (busy in tx.ts,
\* execute in control-room.tsx).
THEOREM PagesOneWritePerButton == Spec => []OneWritePerButton
<1>1. Init => Typed /\ HeldWhileWriting
  <2>1. Init => HeldWhileWriting  BY DEF Init, HeldWhileWriting, OneWritePerButton, NoFlow
  <2> QED  BY <2>1, TypedInit
<1>2. Typed /\ HeldWhileWriting /\ [Next]_vars => (Typed /\ HeldWhileWriting)'
  BY TypedStep, HeldStep
<1>3. HeldWhileWriting => OneWritePerButton  BY DEF HeldWhileWriting
<1> QED  BY <1>1, <1>2, <1>3, PTL DEF Spec

-----------------------------------------------------------------------------
(* A creation ends on its portfolio.                                       *)

\* The label of a creation stays in its form, unless it is edited meanwhile.
LEMMA LabelStep == ASSUME Typed, HeldWhileWriting, LabelKept, [Next]_vars PROVE LabelKept'
<1> USE DEF LabelKept, LandsOnItsPortfolio
<1>0. /\ ScreenTyped /\ DOMAIN sent = 1 .. Len(sent) /\ Len(sent) \in Nat
      /\ flows \in [Slots -> Writes \cup Free] /\ form \in Forms /\ history \in Pasts
      /\ \A j \in DOMAIN sent : sent[j] \in Signed
      /\ \A j \in Slots : /\ flows[j].on => flows[j].hook \in Hooks[page]
                          /\ flows[j].step = "receipt" => flows[j].tx \in DOMAIN sent
  BY DEF Typed, WritesTyped, ScreenTyped
<1>1. CASE UNCHANGED vars  BY <1>1 DEF vars, screen, nameVars
<1>2. ASSUME NEW h \in Buttoned, NEW fn \in Functions, NEW n \in Nat, NEW typed \in Nat,
             Pressed(h, fn, n, typed)
      PROVE  LabelKept'
  <2>1. PICK k \in Slots : flows' = [flows EXCEPT ![k] = Flow(h, "simulate", fn, n, typed)]
    BY <1>2 DEF Pressed, Click, Started
  <2>2. /\ flows'[k].hook = h /\ flows'[k].step = "simulate"
        /\ flows'[k].call.fn = fn /\ flows'[k].call.n = n
        /\ \A j \in Slots \ {k} : flows'[j] = flows[j]
    BY <1>0, <2>1 DEF Flow
  <2>3. UNCHANGED <<chain, page, form, sent, naming, history>>
    BY <1>2 DEF Pressed, Click, Started, nameVars
  <2> QED  BY <1>2, <2>2, <2>3 DEF Pressed
<1>3. CASE PlaceOrder
  <2>1. PICK k \in Slots : flows' = [flows EXCEPT ![k] = Flow("execute", "nonce", "execute", 0, 0)]
    BY <1>3 DEF PlaceOrder, Started
  <2>2. /\ flows'[k].hook = "execute" /\ flows'[k].step = "nonce"
        /\ \A j \in Slots \ {k} : flows'[j] = flows[j]
    BY <1>0, <2>1 DEF Flow
  <2>3. UNCHANGED <<chain, page, form, sent, naming, history>>
    BY <1>3 DEF PlaceOrder, Started, nameVars
  <2> QED  BY <2>2, <2>3
<1>4. ASSUME NEW k \in Slots, WriteStep(k) PROVE LabelKept'
  <2>1. /\ flows[k] \in Writes /\ UNCHANGED chain
        /\ \A j \in Slots : flows'[j].on => flows[j].on
        /\ \A j \in Slots \ {k} : SameWrite(flows'[j], flows[j])
    BY <1>4, WriteQuiet
  <2>2. CASE RefetchNonce(k)
    <3>1. flows'[k].hook = flows[k].hook /\ flows'[k].step = "simulate" /\ flows[k].hook # "create"
      BY <1>0, <2>1, <2>2 DEF RefetchNonce, Writes
    <3>2. UNCHANGED <<chain, page, form, sent, naming, history>>  BY <2>2 DEF RefetchNonce, nameVars
    <3> QED  BY <2>1, <3>1, <3>2 DEF SameWrite
  <2>3. CASE Passed(k)
    <3>1. flows'[k] = [flows[k] EXCEPT !.step = "wallet"]  BY <1>0, <2>3 DEF Passed
    <3>2. flows'[k].hook = flows[k].hook /\ flows'[k].call = flows[k].call /\ flows'[k].step = "wallet"
      BY <2>1, <3>1 DEF Writes
    <3>3. UNCHANGED <<chain, page, form, sent, naming, history>>  BY <2>3 DEF Passed, screen, nameVars
    <3> QED  BY <2>1, <3>2, <3>3 DEF SameWrite
  <2>4. CASE Sign(k)
    <3>1. /\ flows'[k].hook = flows[k].hook /\ flows'[k].call = flows[k].call
          /\ flows'[k].step = "receipt" /\ flows'[k].tx = Len(sent) + 1
      BY <1>0, <2>1, <2>4 DEF Sign, Writes
    <3>2. /\ DOMAIN sent' = 1 .. Len(sent) + 1
          /\ \A j \in DOMAIN sent : sent'[j] = sent[j]
          /\ sent'[Len(sent) + 1].call = flows[k].call /\ sent'[Len(sent) + 1].status = "out"
      BY <1>0, <2>4 DEF Sign, Typed, WritesTyped
    <3>3. UNCHANGED <<chain, page, form, naming, history>>  BY <2>4 DEF Sign, nameVars
    <3>4. \A j \in Slots : flows'[j].step = "receipt" => sent'[flows'[j].tx].call = flows'[j].call
      BY <1>0, <2>1, <3>1, <3>2 DEF SameWrite
    <3>5. \A j \in DOMAIN sent' : sent'[j].status = "ok" => j \in DOMAIN sent /\ sent'[j] = sent[j]
      BY <1>0, <3>2
    <3> QED  BY <2>1, <3>1, <3>3, <3>4, <3>5 DEF SameWrite
  <2>5. CASE Ended(k)
    <3>1. flows'[k].hook = "none" /\ flows'[k].step = "free"
      BY <1>0, <2>5 DEF Ended, EndFlow, NoFlow
    <3>2. UNCHANGED <<chain, page, form, sent, naming, history>>  BY <2>5 DEF Ended, EndFlow, nameVars
    <3> QED  BY <2>1, <3>1, <3>2 DEF SameWrite
  <2>6. CASE ReceiptConfirmed(k)
    <3>1. flows'[k].hook = "none" /\ flows'[k].step = "free"
      BY <1>0, <2>6 DEF ReceiptConfirmed, NoFlow
    <3>2. UNCHANGED <<chain, page, sent>>  BY <2>6 DEF ReceiptConfirmed
    <3>3. history'.landed = history.landed /\ history'.astray = history.astray
      BY <1>0, <2>6 DEF ReceiptConfirmed, StartNaming, Pasts
    <3>4. naming'["form"].on => page = "agents"
      <4>1. CASE Named(k) /\ StartNaming("form", flows[k].typed, flows[k].on)
        <5>1. naming'["form"].on => flows[k].on
          BY <4>1 DEF StartNaming, Typed, NamesTyped, Ways
        <5> QED  BY <1>0, <4>1, <5>1, HooksOfPages DEF Named
      <4>2. CASE UNCHANGED naming  BY <4>2
      <4> QED  BY <2>6, <4>1, <4>2 DEF ReceiptConfirmed
    <3>5. \/ form'.label = form.label /\ form'.edited = form.edited
          \/ page = "agents"
      <4>1. CASE flows[k].on /\ flows[k].hook = "register"  BY <1>0, <4>1, HooksOfPages
      <4>2. CASE ~(flows[k].on /\ flows[k].hook = "register")
        BY <1>0, <2>6, <4>2 DEF ReceiptConfirmed, Cleared, Forms
      <4> QED  BY <4>1, <4>2
    <3>6. \A j \in Slots : flows'[j].on /\ flows'[j].hook = "create" => page = "create"
      BY <1>0, <2>1, <3>1, HooksOfPages DEF SameWrite
    <3> QED  BY <2>1, <3>1, <3>2, <3>3, <3>4, <3>5, <3>6 DEF SameWrite
  <2>7. CASE Land(k)
    <3>1. ASSUME NEW j \in Slots
          PROVE  /\ ~flows'[j].on
                 /\ (flows'[j].hook = "none" /\ flows'[j].step = "free") \/ SameWrite(flows'[j], flows[j])
      <4>1. CASE j = k  BY <2>7, <4>1 DEF Land, NoFlow
      <4>2. CASE j # k
        <5>1. flows'[j] = [flows[j] EXCEPT !.on = FALSE]  BY <2>7, <4>2 DEF Land
        <5> QED  BY <1>0, <5>1, LeftBehind
      <4> QED  BY <4>1, <4>2
    <3>2. UNCHANGED <<chain, sent>>  BY <2>7 DEF Land
    <3>3. ~naming'["form"].on  BY <2>7 DEF Land, Goto, Typed, NamesTyped, Ways, NameSaves
    <3>4. history'.landed = form.label /\ history'.astray = form.edited
      BY <1>0, <2>7 DEF Land, Pasts
    <3>5. ~form.edited => form.label \in chain.portfolios
      <4>1. /\ flows[k].step = "receipt" /\ flows[k].hook = "create" /\ flows[k].on
            /\ sent[flows[k].tx].status = "ok"
        BY <2>7 DEF Land, Leaves
      <4>2. sent[flows[k].tx].call = flows[k].call /\ flows[k].call.fn = "createPortfolio"
        BY <4>1
      <4>3. flows[k].call.n \in chain.portfolios  BY <1>0, <4>1, <4>2
      <4> QED  BY <4>1, <4>3
    <3> QED  BY <3>1, <3>2, <3>3, <3>4, <3>5 DEF SameWrite
  <2> QED  BY <1>4, <2>2, <2>3, <2>4, <2>5, <2>6, <2>7 DEF WriteStep
<1>5. CASE Names
  <2>1. UNCHANGED <<chain, page, flows, sent>>  BY <1>5, NamesLeave
  <2>2. history'.landed = history.landed /\ history'.astray = history.astray
    BY <1>0, <1>5, NamesPast DEF PastKept
  <2>3. /\ naming'["form"].on => naming["form"].on
        /\ form' = form \/ (naming["form"].on /\ form' = Blank)
    BY <1>5, NamesForm
  <2>4. \A j \in Slots : flows[j].on /\ flows[j].hook = "create" => page = "create"
    BY <1>0, HooksOfPages
  <2> QED  BY <2>1, <2>2, <2>3, <2>4
<1>6. ASSUME NEW p \in visit.pages \cup {"portfolio"}, Open(p) PROVE LabelKept'
  <2>1. ASSUME NEW j \in Slots PROVE ~flows'[j].on /\ SameWrite(flows'[j], flows[j])
    <3>1. flows'[j] = [flows[j] EXCEPT !.on = FALSE]  BY <1>6 DEF Open
    <3> QED  BY <1>0, <3>1, LeftBehind
  <2>2. ~naming'["form"].on  BY <1>6 DEF Open, Goto, Typed, NamesTyped, Ways, NameSaves
  <2>3. UNCHANGED <<chain, sent, history>>  BY <1>6 DEF Open
  <2> QED  BY <2>1, <2>2, <2>3 DEF SameWrite
<1>7. ASSUME NEW f \in Inputs, Type(f) PROVE LabelKept'
  <2>1. UNCHANGED <<chain, page, flows, sent, naming, history>> /\ form' = f
    BY <1>7 DEF Type, nameVars
  <2>2. CASE page = "create"
    <3>1. PICK l \in Labels : f = [form EXCEPT !.label = l, !.edited = Busy("create")]
      BY <2>2 DEF Inputs
    <3>2. ASSUME NEW b, b = Busy("create"), f = [form EXCEPT !.label = l, !.edited = b] PROVE f.edited = b
      BY <1>0, <3>2 DEF Forms
    <3>3. f.edited = Busy("create")  BY <3>1, <3>2
    <3>4. \A j \in Slots : flows[j].on /\ flows[j].hook = "create" => Busy("create")
      BY DEF HeldWhileWriting
    <3> QED  BY <2>1, <3>3, <3>4
  <2>3. CASE page # "create"
    <3>1. \A j \in Slots : ~(flows[j].on /\ flows[j].hook = "create")
      BY <1>0, <2>3, HooksOfPages
    <3> QED  BY <2>1, <3>1
  <2> QED  BY <2>2, <2>3
<1>8. CASE (\E f \in Concerned \cap Queried : Refresh(f)) \/ (\E h \in Hooks[page] : Dismiss(h))
  BY <1>8 DEF Refresh, Dismiss, screen, nameVars
<1>9. CASE Others \/ TimeRunsOut \/ \E k \in DOMAIN sent : Mine(k)
  <2>1. /\ UNCHANGED <<page, form, naming>>
        /\ \A j \in Slots : /\ flows'[j].hook = flows[j].hook /\ flows'[j].on = flows[j].on
                            /\ flows'[j].step = flows[j].step /\ flows'[j].tx = flows[j].tx
                            /\ flows'[j].call = flows[j].call
        /\ chain.portfolios \subseteq chain'.portfolios
        /\ DOMAIN sent' = DOMAIN sent
        /\ \A j \in DOMAIN sent : sent'[j].call = sent[j].call
        /\ history'.landed = history.landed /\ history'.astray = history.astray
    BY <1>9, ChainQuiet DEF screen, nameVars
  <2>2. ASSUME NEW j \in DOMAIN sent, sent'[j].status = "ok", sent[j].status # "ok",
               sent'[j].call.fn = "createPortfolio"
        PROVE  sent'[j].call.n \in chain'.portfolios
    <3>1. ASSUME NEW k \in DOMAIN sent, Mine(k) PROVE sent'[j].call.n \in chain'.portfolios
      <4> DEFINE c == sent[k].call
                 st == IF CanDo(chain, c) THEN "ok" ELSE "reverted"
      <4>1. PICK s \in Chains :
               /\ sent' = [Stirred(s, k) EXCEPT ![k].status = st] /\ chain' = s
               /\ CanDo(chain, c) => s.portfolios = After(chain, c).portfolios
        BY <3>1, Mined
      <4>2. \A i \in DOMAIN sent : Stirred(s, k)[i].status = sent[i].status
        BY <1>0 DEF Stirred, Signed
      <4>3. DOMAIN Stirred(s, k) = DOMAIN sent  BY DEF Stirred
      <4>4. j = k
        <5> HIDE DEF st
        <5> QED  BY <2>2, <4>1, <4>2, <4>3
      <4>5. st = "ok"
        <5>1. Stirred(s, k)[k] = sent[k]  BY DEF Stirred
        <5>2. sent'[k].status = st
          <6> HIDE DEF st
          <6> QED  BY <1>0, <4>1, <4>3, <5>1 DEF Signed
        <5> QED  BY <2>2, <4>4, <5>2
      <4>6. CanDo(chain, c)  BY <4>5
      <4>7. chain'.portfolios = After(chain, c).portfolios /\ c.fn = "createPortfolio"
        BY <2>1, <2>2, <4>1, <4>4, <4>6
      <4>8. c.n \in chain'.portfolios  BY <4>7 DEF After, Typed, Chains
      <4> QED  BY <2>1, <4>4, <4>8
    <3>2. CASE Others
      <4>1. sent'[j].status = sent[j].status  BY <1>0, <3>2 DEF Others, Stirred, Signed
      <4> QED  BY <2>2, <4>1
    <3>3. CASE TimeRunsOut  BY <2>2, <3>3 DEF TimeRunsOut
    <3> QED  BY <1>9, <3>1, <3>2, <3>3
  <2> QED  BY <1>0, <2>1, <2>2
<1> QED
  BY <1>1, <1>2, <1>3, <1>4, <1>5, <1>6, <1>7, <1>8, <1>9, ButtonsPress, WritingSteps DEF Next

\* The page a creation ends on is that of a portfolio that exists, unless the
\* label was edited while the creation was under way (create.tsx).
THEOREM PagesLandOnTheirPortfolio == Spec => []LandsOnItsPortfolio
<1> DEFINE I == Typed /\ HeldWhileWriting /\ LabelKept
<1>1. Init => I
  <2>1. Init => HeldWhileWriting  BY DEF Init, HeldWhileWriting, OneWritePerButton, NoFlow
  <2>2. Init => LabelKept  BY DEF Init, LabelKept, LandsOnItsPortfolio, NoFlow, NoName
  <2> QED  BY <2>1, <2>2, TypedInit
<1>2. I /\ [Next]_vars => I'  BY TypedStep, HeldStep, LabelStep
<1>3. I => LandsOnItsPortfolio  BY DEF LabelKept
<1> QED  BY <1>1, <1>2, <1>3, PTL DEF Spec

-----------------------------------------------------------------------------
(* A confirmed name stays.                                                 *)

\* Steps that have nothing to do with names.
NamesStand ==
    /\ letters' = letters /\ name' = name
    /\ history'.saved = history.saved /\ history'.settled = history.settled
    /\ history'.saves = history.saves
    /\ \A w \in Ways : \A x \in {"step", "name", "no", "old", "overtaken"} :
          naming'[w][x] = naming[w][x]

\* Only the steps of names, and a registration that ends, touch a name's way.
LEMMA NamesAside ==
    ASSUME Typed, [Next]_vars
    PROVE  Names \/ (\E k \in Slots : ReceiptConfirmed(k)) \/ NamesStand
<1> USE DEF Typed, NamesTyped
<1>0. history \in Pasts /\ \A w \in Ways : naming[w] \in NameSaves  OBVIOUS
<1> DEFINE G == Names \/ (\E k \in Slots : ReceiptConfirmed(k)) \/ NamesStand
<1> DEFINE Past == /\ history'.saved = history.saved /\ history'.settled = history.settled
                   /\ history'.saves = history.saves
<1>1. CASE UNCHANGED <<naming, letters, name>> /\ Past
  BY <1>1 DEF NamesStand
<1>2. CASE UNCHANGED vars  BY <1>1, <1>2 DEF vars, nameVars
<1>3. CASE Buttons
  <2>1. UNCHANGED <<nameVars, history>>
    <3>1. CASE PlaceOrder  BY <3>1 DEF PlaceOrder, Started
    <3>2. ASSUME NEW h, NEW fn, NEW n, NEW t, Pressed(h, fn, n, t) PROVE UNCHANGED <<nameVars, history>>
      BY <3>2 DEF Pressed, Click, Started
    <3> QED  BY <1>3, <3>1, <3>2, ButtonsPress
  <2> QED  BY <1>1, <2>1 DEF nameVars
<1>4. ASSUME NEW p, Goto(p), UNCHANGED <<letters, name>>, Past
      PROVE  NamesStand
  <2>1. ASSUME NEW w \in Ways
        PROVE  \A x \in {"step", "name", "no", "old", "overtaken"} : naming'[w][x] = naming[w][x]
    <3>1. naming'[w] = [naming[w] EXCEPT !.on = FALSE]  BY <1>4 DEF Goto
    <3> QED  BY <1>0, <3>1 DEF NameSaves
  <2> QED  BY <1>4, <2>1 DEF NamesStand
<1>5. CASE Writing
  <2>1. PICK k \in Slots : WriteStep(k)  BY <1>5, WritingSteps
  <2>2. CASE Land(k)
    <3>1. Past
      BY <1>0, <2>2 DEF Land, Pasts
    <3> QED  BY <1>4, <2>2, <3>1 DEF Land, Goto
  <2>3. CASE RefetchNonce(k) \/ Passed(k) \/ Sign(k) \/ Ended(k)
    BY <1>1, <2>3 DEF RefetchNonce, Passed, Sign, Ended, EndFlow, nameVars
  <2> QED  BY <2>1, <2>2, <2>3 DEF WriteStep
<1>6. CASE \E p \in visit.pages \cup {"portfolio"} : Open(p)
  BY <1>4, <1>6 DEF Open, Goto
<1>7. CASE \/ \E f \in Inputs : Type(f)
           \/ \E f \in Concerned \cap Queried : Refresh(f)
           \/ \E h \in Hooks[page] : Dismiss(h)
  BY <1>1, <1>7 DEF Type, Refresh, Dismiss, nameVars
<1>8. CASE Others  BY <1>1, <1>8 DEF Others, nameVars
<1>9. CASE \E k \in DOMAIN sent : Mine(k)
  BY <1>0, <1>1, <1>9 DEF Mine, nameVars, Pasts
<1>10. CASE TimeRunsOut  BY <1>1, <1>10 DEF TimeRunsOut, nameVars
<1> QED  BY <1>2, <1>3, <1>5, <1>6, <1>7, <1>8, <1>9, <1>10 DEF Next

\* A save that begins unsettles what was confirmed.
LEMMA NameBegins ==
    ASSUME Typed, NamesInOrder, NEW way \in Ways, naming[way].step = "none",
           NEW n \in Nat, NEW on \in BOOLEAN, StartNaming(way, n, on), UNCHANGED <<letters, name>>
    PROVE  NamesInOrder'
<1> USE DEF NamesInOrder
<1>1. /\ naming' = [naming EXCEPT ![way] = Begun(n, history.saves + 1, on)]
      /\ history'.saves = history.saves + 1 /\ ~history'.settled
      /\ history.saves \in Nat
  BY StartTyped DEF Typed, Pasts
<1>2. \A w \in Ways \ {way} : naming'[w] = naming[w]  BY <1>1
<1>3. /\ naming'[way].step = "time" /\ naming'[way].no = history.saves + 1
  BY <1>1 DEF Typed, NamesTyped, Begun
<1>4. \A w \in Ways : naming'[w].step # "none" => naming'[w].no \in 1 .. history'.saves
  BY <1>1, <1>2, <1>3
<1>5. \A l \in letters : /\ l.no \in 1 .. history'.saves
                         /\ naming'[l.way].no = l.no => naming'[l.way].name = l.name
  <2> SUFFICES ASSUME NEW l \in letters
               PROVE  /\ l.no \in 1 .. history'.saves
                      /\ naming'[l.way].no = l.no => naming'[l.way].name = l.name
    OBVIOUS
  <2>1. l.way \in Ways  BY DEF Typed, NamesTyped, Letters
  <2> QED  BY <1>1, <1>2, <1>3, <2>1
<1> QED  BY <1>1, <1>2, <1>3, <1>4, <1>5

\* A save that is forgotten leaves the others as they are.
LEMMA NameEnds ==
    ASSUME Typed, NamesInOrder, NEW way \in Ways, EndNaming(way), UNCHANGED letters,
           history'.saves = history.saves,
           history'.settled => /\ name = history'.saved
                               /\ \A w \in Ways \ {way} : ~Live(naming[w])
                               /\ \A l \in letters : l.old
    PROVE  NamesInOrder'
<1> USE DEF NamesInOrder
<1>1. naming' = [naming EXCEPT ![way] = NoName] /\ name' = name  BY DEF EndNaming
<1>2. \A w \in Ways \ {way} : naming'[w] = naming[w]  BY <1>1
<1>3. naming'[way] = NoName /\ ~Live(NoName) /\ NoName.step = "none" /\ NoName.no = 0
  BY <1>1 DEF Typed, NamesTyped, NoName, Live
<1>4. \A l \in letters : l.way \in Ways /\ (naming'[l.way].no = l.no => naming'[l.way].name = l.name)
  <2> SUFFICES ASSUME NEW l \in letters
               PROVE  l.way \in Ways /\ (naming'[l.way].no = l.no => naming'[l.way].name = l.name)
    OBVIOUS
  <2>1. l.way \in Ways  BY DEF Typed, NamesTyped, Letters
  <2>2. l.no # 0 /\ (naming[l.way].no = l.no => naming[l.way].name = l.name)  OBVIOUS
  <2> QED  BY <1>2, <1>3, <2>1, <2>2
<1>5. \A w \in Ways : ~Live(naming[w]) => ~Live(naming'[w])  BY <1>2, <1>3
<1>6. history'.settled => \A w \in Ways : ~Live(naming'[w])  BY <1>2, <1>3
<1> QED  BY <1>1, <1>2, <1>3, <1>4, <1>6

\* A save that goes on stays the save it is.
LEMMA NameGoesOn ==
    ASSUME Typed, NamesInOrder, NEW way \in Ways, NEW st \in {"sign", "put"},
           naming[way].step \in {"time", "sign"}, st = "put" => naming[way].step = "sign",
           naming' = [naming EXCEPT ![way].step = st], UNCHANGED <<name, history>>,
           \/ UNCHANGED letters
           \/ \E l \in Letters : /\ l.way = way /\ l.no = naming[way].no
                                 /\ l.name = naming[way].name /\ l.old = naming[way].old
                                 /\ naming[way].step = "sign" /\ letters' = letters \cup {l}
    PROVE  NamesInOrder'
<1> USE DEF NamesInOrder
<1>1. naming[way] \in NameSaves /\ \A w \in Ways \ {way} : naming'[w] = naming[w]
  BY DEF Typed, NamesTyped
<1>2. naming'[way] = [naming[way] EXCEPT !.step = st]  BY DEF Typed, NamesTyped
<1>3. /\ naming'[way].step = st /\ naming'[way].no = naming[way].no
      /\ naming'[way].name = naming[way].name /\ naming'[way].old = naming[way].old
  BY <1>1, <1>2 DEF NameSaves
<1>4. \A w \in Ways : naming'[w].no = naming[w].no /\ naming'[w].name = naming[w].name
  BY <1>1, <1>3
<1>5. \A l \in letters : l.way \in Ways  BY DEF Typed, NamesTyped, Letters
<1>6. \A l \in letters' :
        /\ l.no \in 1 .. history.saves
        /\ naming'[l.way].no = l.no => naming'[l.way].name = l.name
  <2>1. \A l \in letters : /\ l.no \in 1 .. history.saves
                           /\ naming'[l.way].no = l.no => naming'[l.way].name = l.name
    BY <1>4, <1>5
  <2>2. naming[way].no \in 1 .. history.saves  OBVIOUS
  <2> QED  BY <1>4, <2>1, <2>2
<1>7. history.settled => /\ naming[way].step = "sign" /\ naming[way].old
  BY DEF Live
<1>8. history.settled => \A w \in Ways : ~Live(naming'[w])  BY <1>1, <1>3, <1>7 DEF Live
<1>9. history.settled => \A l \in letters' : l.old  BY <1>7
<1>10. \A w \in Ways : naming'[w].step = "stored" => naming'[w] = naming[w]  BY <1>1, <1>3
<1>11. \A w \in Ways : naming'[w].step # "none" => naming'[w].no \in 1 .. history.saves
  BY <1>1, <1>3
<1> QED  BY <1>6, <1>8, <1>9, <1>10, <1>11

\* A request that arrives is the last to be stored, if it is accepted.
LEMMA NameServed ==
    ASSUME Typed, NamesInOrder, NEW l \in letters, Serve(l)
    PROVE  NamesInOrder'
<1> USE DEF NamesInOrder
<1>0. /\ DOMAIN naming = Ways /\ l.way \in Ways /\ \A w \in Ways : naming[w] \in NameSaves
      /\ \A m \in letters : m.way \in Ways
      /\ letters' = letters \ {l} /\ history' = history
      /\ name' = IF Accepted(l) THEN l.name ELSE name
  BY DEF Typed, NamesTyped, Letters, Serve
<1>1. ASSUME NEW w \in Ways, w = l.way, Awaited(l), Accepted(l)
      PROVE  /\ naming'[w].step = "stored" /\ naming'[w].no = naming[w].no
             /\ naming'[w].name = naming[w].name /\ naming'[w].name = name'
             /\ ~Live(naming'[w])
  <2>1. naming'[w] = [naming[w] EXCEPT !.step = "stored"]  BY <1>0, <1>1 DEF Serve
  <2>2. naming[w].no = l.no  BY <1>1 DEF Awaited
  <2>3. /\ naming'[w].step = "stored" /\ naming'[w].no = naming[w].no
        /\ naming'[w].name = naming[w].name
    BY <1>0, <2>1 DEF NameSaves
  <2> QED  BY <1>0, <1>1, <2>2, <2>3 DEF Live
<1>2. ASSUME NEW w \in Ways, w = l.way, Awaited(l), ~Accepted(l)
      PROVE  naming'[w].step = "none" /\ naming'[w].no = 0 /\ ~Live(naming'[w])
  <2>1. naming'[w] = NoName  BY <1>0, <1>2 DEF Serve
  <2> QED  BY <2>1 DEF NoName, Live
<1>3. ASSUME NEW w \in Ways, ~(w = l.way /\ Awaited(l))
      PROVE  /\ naming'[w].step = naming[w].step /\ naming'[w].no = naming[w].no
             /\ naming'[w].name = naming[w].name /\ (Live(naming'[w]) => Live(naming[w]))
             /\ naming[w].step = "stored" =>
                   naming'[w].overtaken = (naming[w].overtaken \/ Accepted(l))
  <2> DEFINE o == naming[w].overtaken \/ (Accepted(l) /\ naming[w].step = "stored")
  <2>1. naming'[w] = [naming[w] EXCEPT !.overtaken = o]  BY <1>0, <1>3 DEF Serve
  <2>2. /\ naming'[w].step = naming[w].step /\ naming'[w].no = naming[w].no
        /\ naming'[w].name = naming[w].name /\ naming'[w].old = naming[w].old
        /\ naming'[w].overtaken = o
    <3> HIDE DEF o
    <3> QED  BY <1>0, <2>1 DEF NameSaves
  <2> QED  BY <2>2 DEF Live
<1>4. ASSUME NEW w \in Ways
      PROVE  /\ naming'[w].step # "none" => naming'[w].no \in 1 .. history.saves
             /\ naming'[w].step = "stored" /\ ~naming'[w].overtaken => name' = naming'[w].name
  <2>1. CASE w = l.way /\ Awaited(l) /\ Accepted(l)
    <3>1. naming[w].step # "none"  BY <2>1 DEF Awaited
    <3> QED  BY <1>1, <2>1, <3>1
  <2>2. CASE w = l.way /\ Awaited(l) /\ ~Accepted(l)  BY <1>2, <2>2
  <2>3. CASE ~(w = l.way /\ Awaited(l))
    <3>1. /\ naming'[w].step = naming[w].step /\ naming'[w].no = naming[w].no
          /\ naming'[w].name = naming[w].name
          /\ naming[w].step = "stored" =>
                naming'[w].overtaken = (naming[w].overtaken \/ Accepted(l))
      BY <1>3, <2>3
    <3>2. ASSUME naming[w].step = "stored", ~naming'[w].overtaken PROVE name' = naming[w].name
      <4>1. ~naming[w].overtaken /\ ~Accepted(l)  BY <3>1, <3>2
      <4> QED  BY <1>0, <3>2, <4>1
    <3> QED  BY <3>1, <3>2
  <2> QED  BY <2>1, <2>2, <2>3
<1>5. ASSUME NEW m \in letters
      PROVE  m.no \in 1 .. history.saves /\ (naming'[m.way].no = m.no => naming'[m.way].name = m.name)
  <2>0. m.no \in 1 .. history.saves /\ m.no # 0 /\ m.way \in Ways
        /\ (naming[m.way].no = m.no => naming[m.way].name = m.name)
    BY <1>0
  <2>1. CASE m.way = l.way /\ Awaited(l) /\ Accepted(l)
    <3>1. naming'[m.way].no = naming[m.way].no /\ naming'[m.way].name = naming[m.way].name
      BY <1>1, <2>0, <2>1
    <3> QED  BY <2>0, <3>1
  <2>2. CASE m.way = l.way /\ Awaited(l) /\ ~Accepted(l)
    <3>1. naming'[m.way].no = 0  BY <1>2, <2>0, <2>2
    <3> QED  BY <2>0, <3>1
  <2>3. CASE ~(m.way = l.way /\ Awaited(l))
    <3>1. naming'[m.way].no = naming[m.way].no /\ naming'[m.way].name = naming[m.way].name
      BY <1>3, <2>0, <2>3
    <3> QED  BY <2>0, <3>1
  <2> QED  BY <2>1, <2>2, <2>3
<1>6. ASSUME history.settled
      PROVE  /\ name' = history.saved /\ \A w \in Ways : ~Live(naming'[w])
             /\ \A m \in letters' : m.old
  <2>1. ~Accepted(l)  BY <1>6 DEF Accepted
  <2>2. \A w \in Ways : ~Live(naming'[w])
    <3> SUFFICES ASSUME NEW w \in Ways PROVE ~Live(naming'[w])  OBVIOUS
    <3>1. CASE w = l.way /\ Awaited(l)  BY <1>2, <2>1, <3>1
    <3>2. CASE ~(w = l.way /\ Awaited(l))  BY <1>3, <1>6, <3>2
    <3> QED  BY <3>1, <3>2
  <2> QED  BY <1>0, <1>6, <2>1, <2>2
<1> QED  BY <1>0, <1>4, <1>5, <1>6

\* Five minutes make nothing acceptable that was not.
LEMMA NameAges == ASSUME Typed, NamesInOrder, Age PROVE NamesInOrder'
<1> USE DEF NamesInOrder
<1>0. /\ DOMAIN naming = Ways /\ \A w \in Ways : naming[w] \in NameSaves
      /\ \A l \in letters : l \in Letters
      /\ name' = name /\ history' = history
      /\ letters' = {[l EXCEPT !.old = TRUE] : l \in letters}
  BY DEF Typed, NamesTyped, Age
<1>1. ASSUME NEW w \in Ways
      PROVE  /\ naming'[w].step = naming[w].step /\ naming'[w].no = naming[w].no
             /\ naming'[w].name = naming[w].name /\ naming'[w].overtaken = naming[w].overtaken
             /\ Live(naming'[w]) => Live(naming[w])
  <2> DEFINE o == naming[w].old \/ naming[w].step # "time"
  <2>1. naming'[w] = [naming[w] EXCEPT !.old = o]  BY <1>0 DEF Age
  <2>2. /\ naming'[w].step = naming[w].step /\ naming'[w].no = naming[w].no
        /\ naming'[w].name = naming[w].name /\ naming'[w].overtaken = naming[w].overtaken
        /\ naming'[w].old = o
    <3> HIDE DEF o
    <3> QED  BY <1>0, <2>1 DEF NameSaves
  <2> QED  BY <2>2 DEF Live
<1>2. ASSUME NEW m \in letters'
      PROVE  /\ m.no \in 1 .. history.saves /\ m.old
             /\ naming'[m.way].no = m.no => naming'[m.way].name = m.name
  <2>1. PICK l \in letters : m = [l EXCEPT !.old = TRUE]  BY <1>0
  <2>2. m.no = l.no /\ m.way = l.way /\ m.name = l.name /\ m.old /\ l.way \in Ways
    BY <1>0, <2>1 DEF Letters
  <2> QED  BY <1>1, <2>2
<1> QED  BY <1>0, <1>1, <1>2

\* Every step keeps the saves in order.
LEMMA NameStep == ASSUME Typed, NamesInOrder, [Next]_vars PROVE NamesInOrder'
<1>0. /\ DOMAIN naming = Ways /\ history \in Pasts
      /\ \A w \in Ways : naming[w] \in NameSaves
      /\ \A l \in letters : l.way \in Ways
  BY DEF Typed, NamesTyped, Letters
<1>1. CASE NamesStand
  <2>1. \A w \in Ways : /\ naming'[w].step = naming[w].step /\ naming'[w].no = naming[w].no
                        /\ naming'[w].name = naming[w].name /\ naming'[w].old = naming[w].old
                        /\ naming'[w].overtaken = naming[w].overtaken
    BY <1>1 DEF NamesStand
  <2>2. \A w \in Ways : Live(naming'[w]) => Live(naming[w])  BY <2>1 DEF Live
  <2> QED  BY <1>0, <1>1, <2>1, <2>2 DEF NamesStand, NamesInOrder
<1>2. ASSUME NEW k \in Slots, ReceiptConfirmed(k) PROVE NamesInOrder'
  <2>1. CASE ~Named(k)  BY <1>1, <1>2, <2>1 DEF ReceiptConfirmed, NamesStand
  <2>2. CASE Named(k)
    <3>1. flows[k].typed \in Nat /\ flows[k].on \in BOOLEAN
      <4>1. flows[k] \in Writes  BY <1>2 DEF ReceiptConfirmed, Typed, WritesTyped, Free
      <4> QED  BY <4>1 DEF Writes
    <3> QED  BY <1>2, <2>2, <3>1, NameBegins DEF ReceiptConfirmed, Ways
  <2> QED  BY <2>1, <2>2
<1>3. ASSUME NEW n \in {0, 1, 2}, SaveName(n) PROVE NamesInOrder'
  <2>1. PICK way \in {"card1", "card2"} : naming[way].step = "none" /\ StartNaming(way, n, TRUE)
    BY <1>3 DEF SaveName
  <2> QED  BY <1>3, <2>1, NameBegins DEF SaveName, Ways
<1>4. ASSUME NEW way \in Ways, EndNaming(way), UNCHANGED <<letters, history>> PROVE NamesInOrder'
  <2>1. history.settled => /\ name = history.saved /\ \A w \in Ways : ~Live(naming[w])
                           /\ \A l \in letters : l.old
    BY DEF NamesInOrder
  <2> QED  BY <1>4, <2>1, NameEnds
<1>5. ASSUME NEW way \in Ways, ServerTime(way) PROVE NamesInOrder'
  <2>1. CASE naming' = [naming EXCEPT ![way].step = "sign"] /\ UNCHANGED <<letters, name, history>>
    BY <1>5, <2>1, NameGoesOn DEF ServerTime
  <2>2. CASE EndNaming(way) /\ UNCHANGED <<letters, history>>  BY <1>4, <2>2
  <2> QED  BY <1>5, <2>1, <2>2 DEF ServerTime
<1>6. ASSUME NEW way \in Ways, SignName(way) PROVE NamesInOrder'
  <2> DEFINE l == [way |-> way, no |-> naming[way].no, name |-> naming[way].name,
                   by |-> wallet, old |-> naming[way].old]
  <2>1. CASE naming' = [naming EXCEPT ![way].step = "put"] /\ UNCHANGED <<name, history>>
             /\ letters' = letters \cup {l}
    <3>1. /\ l \in Letters /\ l.way = way /\ l.no = naming[way].no
          /\ l.name = naming[way].name /\ l.old = naming[way].old
      BY <1>0 DEF Typed, Letters, NameSaves
    <3>2. naming[way].step = "sign"  BY <1>6 DEF SignName
    <3> HIDE DEF l
    <3> QED  BY <2>1, <3>1, <3>2, NameGoesOn
  <2>2. CASE EndNaming(way) /\ UNCHANGED <<letters, history>>  BY <1>4, <2>2
  <2> QED  BY <1>6, <2>1, <2>2 DEF SignName
<1>7. ASSUME NEW way \in Ways, LoseAnswer(way) PROVE NamesInOrder'
  BY <1>4, <1>7 DEF LoseAnswer
<1>8. ASSUME NEW way \in Ways, Confirm(way) PROVE NamesInOrder'
  <2>1. /\ history'.saves = history.saves /\ history'.saved = naming[way].name
        /\ history'.settled = (/\ ~naming[way].overtaken
                               /\ \A w \in Ways \ {way} : ~Live(naming[w])
                               /\ \A l \in letters : l.old)
    BY <1>8, ConfirmPast
  <2>2. ~naming[way].overtaken => name = naming[way].name
    BY <1>8 DEF Confirm, NamesInOrder
  <2>3. EndNaming(way) /\ UNCHANGED letters  BY <1>8 DEF Confirm
  <2> QED  BY <2>1, <2>2, <2>3, NameEnds
<1>9. CASE Names
  BY <1>0, <1>3, <1>5, <1>6, <1>7, <1>8, <1>9, NameServed, NameAges DEF Names
<1> QED  BY <1>1, <1>2, <1>9, NamesAside

\* The name that was confirmed last is the one that is stored, as long as no save
\* has begun since and no other was within its five minutes then, whatever saves
\* overlapped before and in whatever order they were answered, given up or
\* arrived (agents.tsx and PUT .../name of the API).
THEOREM PagesSavedNameStays == Spec => []SavedNameStays
<1> DEFINE I == Typed /\ NamesInOrder
<1>1. Init => I
  <2>1. Init => NamesInOrder  BY DEF Init, NamesInOrder, NoName, Ways, Live
  <2> QED  BY <2>1, TypedInit
<1>2. I /\ [Next]_vars => I'  BY TypedStep, NameStep
<1>3. I => SavedNameStays  BY DEF NamesInOrder, SavedNameStays
<1> QED  BY <1>1, <1>2, <1>3, PTL DEF Spec

=============================================================================
