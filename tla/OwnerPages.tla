------------------------------ MODULE OwnerPages ------------------------------
(***************************************************************************)
(* A tab of apps/web in front of a wallet: the pages that create, fund,    *)
(* configure, trade on and empty a portfolio.                              *)
(*                                                                         *)
(* A click starts a write: simulate, ask the wallet, send, wait for the    *)
(* receipt.  What a button offers comes from reads that may be old, what   *)
(* it sends from the inputs as they are when it is clicked, and the chain  *)
(* moves between any two steps.  Leaving a page forgets its inputs and     *)
(* what it shows of its writes; the writes themselves go on.               *)
(***************************************************************************)
EXTENDS Integers, Sequences, FiniteSets

CONSTANTS
    Visits,        \* bound: what a tab goes through: its pages besides the dashboard, the
                   \* writes begun, changes made elsewhere, names saved, and the
                   \* allowance that an earlier approval has left
    Slots,         \* bound: writes that are under way at a time
    Most           \* bound: the largest amount anybody holds or types

ASSUME PagesConstants ==
    /\ Most \in Nat
    /\ \A v \in Visits :
          /\ v.pages \subseteq {"create", "settings", "agents", "recovery", "room"}
          /\ {v.writes, v.moves, v.saves, v.left} \subseteq Nat

VARIABLES
    chain,         \* the contracts' state, as far as the pages read or write it
    wallet,        \* the connected account; "other" also for none or a wrong network
    visit,         \* this tab's member of Visits
    page,          \* the page that is open
    form,          \* its inputs
    seen,          \* what its queries last answered
    shown,         \* the phase of each of its useWrite hooks
    flows,         \* the writes under way
    sent,          \* the transactions that have been signed, oldest first
    naming,        \* display names on their way: from the form, from the agent's cards
    letters,       \* requests to store a name that have left the browser
    name,          \* the agent's name in the coordinator's storage
    history,       \* what the properties remember
    moves          \* counters of the bounds

screen == <<visit, page, form, shown>>
nameVars == <<naming, letters, name>>
vars == <<chain, wallet, screen, seen, flows, sent, nameVars, history, moves>>

Amounts == 0 .. Most
Labels == {1, 2}

-----------------------------------------------------------------------------
(* The contracts.  A domain's ceiling is 0 when it is closed, a policy 0 when  *)
(* it was never set and 1 when it is the page's defaults.                      *)

\* withdraw brings the capital base down with it, to nothing at least.
BaseAfterWithdrawal(base, n) == IF base > n THEN base - n ELSE 0

\* execute: the agent's own gates; those that time shuts, the market's window and
\* the policy's term (open); every other gate and the venue's, which the steps of
\* others open and shut (admits).
Admits(s, c) == s.agent = "enabled" /\ c.n > s.nonce /\ s.open /\ s.admits

CanDo(s, c) ==
    /\ c.fn = "fund"            => c.n <= s.purse /\ c.n <= s.allowance
    /\ c.fn = "withdraw"        => c.n <= s.held
    /\ c.fn = "withdrawOutcome" => c.n <= s.tokens
    /\ c.fn = "cancelOrder"     => c.n \in s.book
    /\ c.fn = "createPortfolio" => c.n \notin s.portfolios
    /\ c.fn = "execute"         => Admits(s, c)

After(s, c) ==
    CASE c.fn = "approve"         -> [s EXCEPT !.allowance = c.n]
      [] c.fn = "fund"            -> [s EXCEPT !.purse = @ - c.n, !.allowance = @ - c.n,
                                               !.held = @ + c.n, !.base = @ + c.n]
      [] c.fn = "setCapitalBase"  -> [s EXCEPT !.base = c.n]
      [] c.fn = "setGlobalPolicy" -> [s EXCEPT !.policy = c.n]
      [] c.fn = "setDomainPolicy" -> [s EXCEPT !.ceiling = c.n]
      [] c.fn = "setAgent"        -> [s EXCEPT !.agent = "enabled"]
      [] c.fn = "revokeAgent"     -> [s EXCEPT !.agent = "revoked"]
      [] c.fn = "withdraw"        -> [s EXCEPT !.purse = @ + c.n, !.held = @ - c.n,
                                               !.base = BaseAfterWithdrawal(@, c.n)]
      [] c.fn = "withdrawOutcome" -> [s EXCEPT !.tokens = @ - c.n]
      [] c.fn = "cancelOrder"     -> [s EXCEPT !.book = @ \ {c.n}]
      [] c.fn = "createPortfolio" -> [s EXCEPT !.portfolios = @ \cup {c.n}]
      [] c.fn = "execute"         -> [s EXCEPT !.nonce = c.n]

\* An order may take what the next one needs, its headroom or the cooldown.
Outcomes(s, c) ==
    {After(s, c)} \cup {[After(s, c) EXCEPT !.admits = FALSE] : f \in {c.fn} \cap {"execute"}}

-----------------------------------------------------------------------------
(* A write.                                                                *)

Hooks ==
    [create    |-> {"create"},
     settings  |-> {"approve", "fund", "base", "policy", "domain"},
     agents    |-> {"register", "revoke"},
     recovery  |-> {"withdraw", "outcome", "cancel"},
     room      |-> {"execute"},
     portfolio |-> {}]

NoCall == [fn |-> "none", n |-> 0, by |-> "other"]

\* on: the page that started it is still open.  typed: what the inputs said.
\* moved: the chain has moved since it was simulated.
NoFlow == [hook |-> "none", step |-> "free", call |-> NoCall, typed |-> 0, on |-> FALSE,
           tx |-> 0, moved |-> FALSE]

Busy(h) == shown[h] \in {"signing", "pending"}

Flow(h, step, fn, n, typed) ==
    [hook |-> h, step |-> step, call |-> [fn |-> fn, n |-> n, by |-> wallet],
     typed |-> typed, on |-> TRUE, tx |-> 0, moved |-> FALSE]

Started(f) ==
    /\ moves.writes < visit.writes /\ moves' = [moves EXCEPT !.writes = @ + 1]
    /\ \E k \in Slots :
          /\ flows[k] = NoFlow
          /\ \A j \in Slots : j < k => flows[j] # NoFlow
          /\ flows' = [flows EXCEPT ![k] = f]
    /\ UNCHANGED <<chain, wallet, visit, page, form, seen, sent, nameVars, history>>

\* send: the click of a button that is not busy.
Click(h, fn, n, typed) ==
    /\ h \in Hooks[page] /\ ~Busy(h)
    /\ Started(Flow(h, "simulate", fn, n, typed))
    /\ shown' = [shown EXCEPT ![h] = "signing"]

\* A hook of a page that is gone shows nothing.
Show(k, phase) ==
    shown' = IF flows[k].on THEN [shown EXCEPT ![flows[k].hook] = phase] ELSE shown

\* describe: the write ends without an answer from the chain.
EndFlow(k, phase) ==
    /\ flows' = [flows EXCEPT ![k] = NoFlow]
    /\ Show(k, phase)
    /\ UNCHANGED <<chain, wallet, visit, page, form, seen, sent, nameVars, history, moves>>

\* Mutant: the wallet opens without a simulation.
SimulatedNever(c) == TRUE

Simulated(c) == CanDo(chain, c)

Simulate(k) ==
    /\ flows[k].step = "simulate"
    /\ \/ /\ Simulated(flows[k].call)
          /\ flows' = [flows EXCEPT ![k].step = "wallet"]
          /\ UNCHANGED <<chain, wallet, screen, seen, sent, nameVars, history, moves>>
       \/ EndFlow(k, "failed")

Sign(k) ==
    /\ flows[k].step = "wallet"
    /\ sent' = Append(sent, [call |-> flows[k].call, typed |-> flows[k].typed,
                             moved |-> flows[k].moved, status |-> "out"])
    /\ flows' = [flows EXCEPT ![k].step = "receipt", ![k].tx = Len(sent) + 1]
    /\ Show(k, "pending")
    /\ UNCHANGED <<chain, wallet, visit, page, form, seen, nameVars, history, moves>>

Decline(k) ==
    /\ flows[k].step = "wallet"
    /\ EndFlow(k, "failed")

\* waitForTransactionReceipt gives up; nothing is known of the transaction.
GiveUp(k) == flows[k].step = "receipt" /\ EndFlow(k, "failed")

ReceiptReverted(k) ==
    /\ flows[k].step = "receipt" /\ sent[flows[k].tx].status = "reverted"
    /\ EndFlow(k, "failed")

Dismiss(h) ==
    /\ h \in Hooks[page] /\ shown[h] \notin {"idle", "signing", "pending"}
    /\ shown' = [shown EXCEPT ![h] = "idle"]
    /\ UNCHANGED <<chain, wallet, visit, page, form, seen, flows, sent, nameVars, history, moves>>

-----------------------------------------------------------------------------
(* Display names.                                                          *)

\* no: the number of the save.  old: its timestamp is five minutes old.
\* overtaken: another save was stored after it.  on: its page is still open.
NoName == [step |-> "none", name |-> 0, no |-> 0, old |-> FALSE, overtaken |-> FALSE, on |-> FALSE]

\* A save that the route may still accept.
Live(t) == t.step = "time" \/ (t.step \in {"sign", "put"} /\ ~t.old)

\* settled: no save has begun since the last one was confirmed.
StartNaming(way, n, on) ==
    /\ naming' = [naming EXCEPT ![way] =
                     [step |-> "time", name |-> n, no |-> history.saves + 1, old |-> FALSE,
                      overtaken |-> FALSE, on |-> on]]
    /\ history' = [history EXCEPT !.saves = @ + 1, !.settled = FALSE]

\* Inputs of a page as it mounts: the domain card takes its figures from the
\* snapshot it finds, the global policy always its defaults.
Blank == [amount |-> 0, label |-> 1, ceiling |-> seen.ceiling, name |-> 0,
          open |-> FALSE, edited |-> FALSE]

\* A registration blanks and closes its form once its name is through.
FormAfterNaming(way) == IF way = "form" /\ naming[way].on THEN Blank ELSE form

EndNaming(way) ==
    /\ naming' = [naming EXCEPT ![way] = NoName]
    /\ form' = FormAfterNaming(way)
    /\ UNCHANGED <<chain, wallet, visit, page, shown, seen, flows, sent, name, moves>>

\* Enter saves, whatever is under way: nameBusy holds the button only, and a card
\* that is mounted again starts without it.  Two saves at a time are a bound.
SaveName(n) ==
    /\ page = "agents" /\ wallet = "owner" /\ seen.agent # "none"
    /\ history.saves < visit.saves
    /\ \E way \in {"card1", "card2"} :
          /\ naming[way].step = "none"
          /\ way = "card2" => naming["card1"].step # "none"
          /\ StartNaming(way, n, TRUE)
    /\ UNCHANGED <<chain, wallet, screen, seen, flows, sent, letters, name, moves>>

\* GET /api/time, then the signature of whoever is connected.
ServerTime(way) ==
    /\ naming[way].step = "time"
    /\ \/ /\ naming' = [naming EXCEPT ![way].step = "sign"]
          /\ UNCHANGED <<chain, wallet, screen, seen, flows, sent, letters, name, history, moves>>
       \/ EndNaming(way) /\ UNCHANGED <<letters, history>>

SignName(way) ==
    /\ naming[way].step = "sign"
    /\ \/ /\ naming' = [naming EXCEPT ![way].step = "put"]
          /\ letters' = letters \cup {[way |-> way, no |-> naming[way].no, name |-> naming[way].name,
                                       by |-> wallet, old |-> naming[way].old]}
          /\ UNCHANGED <<chain, wallet, screen, seen, flows, sent, name, history, moves>>
       \/ EndNaming(way) /\ UNCHANGED <<letters, history>>

\* Mutant: the route takes the owner's signature for good.
AcceptedAtAnyAge(l) == l.by = "owner" /\ chain.agent # "none"

\* PUT /api/portfolios/:address/agents/:agent/name.
Accepted(l) == l.by = "owner" /\ ~l.old /\ chain.agent # "none"

\* The page that sent it still waits for the answer.
Awaited(l) == naming[l.way].step = "put" /\ naming[l.way].no = l.no

\* A request arrives: the name is stored, or the page that waits learns that it
\* is not.
Serve(l) ==
    /\ l \in letters
    /\ letters' = letters \ {l}
    /\ name' = IF Accepted(l) THEN l.name ELSE name
    /\ naming' = [w \in DOMAIN naming |->
                    IF w = l.way /\ Awaited(l)
                    THEN IF Accepted(l) THEN [naming[w] EXCEPT !.step = "stored"] ELSE NoName
                    ELSE [naming[w] EXCEPT
                            !.overtaken = @ \/ (Accepted(l) /\ naming[w].step = "stored")]]
    /\ form' = IF Awaited(l) /\ ~Accepted(l) THEN FormAfterNaming(l.way) ELSE form
    /\ UNCHANGED <<chain, wallet, visit, page, shown, seen, flows, sent, history, moves>>

\* The answers arrive in any order.
Confirm(way) ==
    /\ naming[way].step = "stored"
    /\ history' = [history EXCEPT
                      !.saved = naming[way].name,
                      !.settled = /\ ~naming[way].overtaken
                                  /\ \A w \in DOMAIN naming \ {way} : ~Live(naming[w])
                                  /\ \A l \in letters : l.old]
    /\ EndNaming(way)
    /\ UNCHANGED letters

\* The page gives up on its request, which may arrive all the same.
LoseAnswer(way) ==
    /\ naming[way].step \in {"put", "stored"}
    /\ EndNaming(way)
    /\ UNCHANGED <<letters, history>>

\* Five minutes.
Age ==
    /\ \E w \in DOMAIN naming : naming[w].step \in {"sign", "put"} /\ ~naming[w].old
    /\ naming' = [w \in DOMAIN naming |-> [naming[w] EXCEPT !.old = @ \/ naming[w].step # "time"]]
    /\ letters' = {[l EXCEPT !.old = TRUE] : l \in letters}
    /\ UNCHANGED <<chain, wallet, screen, seen, flows, sent, name, history, moves>>

-----------------------------------------------------------------------------
(* The pages.                                                              *)

Goto(p) ==
    /\ page' = p
    /\ form' = Blank
    /\ shown' = [h \in DOMAIN shown |-> "idle"]
    /\ naming' = [w \in DOMAIN naming |-> [naming[w] EXCEPT !.on = FALSE]]
    /\ UNCHANGED <<visit, letters, name>>

Open(p) ==
    /\ p # page
    /\ Goto(p)
    /\ flows' = [k \in Slots |-> [flows[k] EXCEPT !.on = FALSE]]
    /\ UNCHANGED <<chain, wallet, seen, sent, history, moves>>

\* The user types, or opens a form.
Inputs ==
    CASE page = "create"   -> {[form EXCEPT !.label = l, !.edited = Busy("create")] : l \in Labels}
      [] page = "settings" -> {[form EXCEPT !.amount = n] : n \in Amounts}
                                \cup {[form EXCEPT !.ceiling = n] : n \in {1}}
                                \cup {[form EXCEPT !.open = o] : o \in BOOLEAN}
      [] page = "agents"   -> {[form EXCEPT !.name = n] : n \in {0, 1}}
                                \cup {[form EXCEPT !.open = o] : o \in BOOLEAN}
      [] page = "recovery" -> {[form EXCEPT !.amount = n] : n \in Amounts}
      [] OTHER             -> {}

Type(f) ==
    /\ f \in Inputs /\ f # form
    /\ form' = f
    /\ UNCHANGED <<chain, wallet, visit, page, shown, seen, flows, sent, nameVars, history, moves>>

\* What the pages' buttons go by.
Queried == {"purse", "allowance", "held", "ceiling", "agent", "records", "portfolios"}

\* A query is answered: on mount, on focus, by a refetch or the stream.
Refresh(f) ==
    /\ seen[f] # chain[f]
    /\ seen' = [seen EXCEPT ![f] = chain[f]]
    /\ UNCHANGED <<chain, wallet, screen, flows, sent, nameVars, history, moves>>

\* Mutant: the owner is spared later approvals.
AllowanceUnlimited(amount) == Most + Most

\* The Approve button asks for the deposit and no more.
AllowanceFor(amount) == amount

\* The wallet's own tokens: no other account has any.
Purse == IF wallet = "owner" THEN seen.purse ELSE 0

Approve ==
    /\ form.amount > seen.allowance /\ form.amount <= Purse
    /\ Click("approve", "approve", AllowanceFor(form.amount), form.amount)

Deposit ==
    /\ form.amount > 0 /\ form.amount <= seen.allowance /\ form.amount <= Purse
    /\ Click("fund", "fund", form.amount, form.amount)

\* An input that nothing else depends on has the value it is sent with.
SetCapitalBase ==
    /\ wallet = "owner"
    /\ \E n \in Amounts \ {0} : Click("base", "setCapitalBase", n, n)

SaveGlobalPolicy ==
    /\ wallet = "owner"
    /\ Click("policy", "setGlobalPolicy", 1, 1)

SaveDomainPolicy ==
    /\ wallet = "owner" /\ form.open /\ form.ceiling > 0
    /\ Click("domain", "setDomainPolicy", form.ceiling, form.ceiling)

CloseDomain ==
    /\ wallet = "owner" /\ form.open /\ seen.ceiling > 0
    /\ Click("domain", "setDomainPolicy", 0, 0)

Register ==
    /\ wallet = "owner" /\ form.open
    /\ Click("register", "setAgent", 0, form.name)

Revoke ==
    /\ wallet = "owner" /\ seen.agent = "enabled"
    /\ Click("revoke", "revokeAgent", 0, 0)

Withdraw ==
    /\ wallet = "owner" /\ form.amount > 0 /\ form.amount <= seen.held
    /\ Click("withdraw", "withdraw", form.amount, form.amount)

WithdrawOutcome ==
    /\ wallet = "owner"
    /\ \E n \in Amounts \ {0} : Click("outcome", "withdrawOutcome", n, n)

\* The row names the record, and the record the order.
CancelOrder(row) ==
    /\ wallet = "owner" /\ row \in seen.records
    /\ Click("cancel", "cancelOrder", row, row)

Create ==
    /\ wallet = "owner" /\ form.label \notin seen.portfolios
    /\ Click("create", "createPortfolio", form.label, form.label)

\* Place order: the nonce is read first, and the button is free meanwhile.
PlaceOrder ==
    /\ page = "room" /\ wallet = "agent" /\ ~Busy("execute")
    /\ Started(Flow("execute", "nonce", "execute", 0, 0))
    /\ UNCHANGED shown

RefetchNonce(k) ==
    /\ flows[k].step = "nonce"
    /\ flows' = [flows EXCEPT ![k].step = "simulate", ![k].call.n = chain.nonce + 1]
    /\ Show(k, "signing")
    /\ UNCHANGED <<chain, wallet, visit, page, form, seen, sent, nameVars, history, moves>>

\* What a page does when its write is confirmed, unless it was left.
Cleared(f) ==
    IF f.hook \in {"fund", "withdraw"} THEN [form EXCEPT !.amount = 0]
    ELSE IF f.hook = "domain" THEN [form EXCEPT !.open = FALSE]
    ELSE IF f.hook = "register" /\ f.typed = 0 THEN Blank
    ELSE form

Leaves(k) == sent[flows[k].tx].status = "ok"

\* The create page goes to the address of the label it shows now.
Land(k) ==
    /\ flows[k].step = "receipt" /\ flows[k].hook = "create" /\ flows[k].on
    /\ Leaves(k)
    /\ Goto("portfolio")
    /\ history' = [history EXCEPT !.landed = form.label, !.astray = form.edited]
    /\ flows' = [j \in Slots |-> IF j = k THEN NoFlow ELSE [flows[j] EXCEPT !.on = FALSE]]
    /\ UNCHANGED <<chain, wallet, seen, sent, moves>>

\* A registration with a name goes on to store it.
Named(k) == flows[k].hook = "register" /\ flows[k].typed # 0

\* A name on its way holds the place of the next registration's: a bound.
ReceiptConfirmed(k) ==
    /\ flows[k].step = "receipt" /\ sent[flows[k].tx].status = "ok"
    /\ ~(flows[k].hook = "create" /\ flows[k].on)
    /\ flows' = [flows EXCEPT ![k] = NoFlow]
    /\ Show(k, "confirmed")
    /\ form' = IF flows[k].on THEN Cleared(flows[k]) ELSE form
    /\ \/ /\ Named(k) /\ naming["form"].step = "none"
          /\ StartNaming("form", flows[k].typed, flows[k].on)
       \/ ~Named(k) /\ UNCHANGED <<naming, history>>
    /\ UNCHANGED <<chain, wallet, visit, page, seen, sent, letters, name, moves>>

-----------------------------------------------------------------------------
(* The chain.                                                              *)

\* A change of the chain, under writes that were simulated before it.
Shaken(s) ==
    /\ chain' = s
    /\ flows' = [k \in Slots |->
                   IF flows[k].step = "wallet" /\ s # chain
                   THEN [flows[k] EXCEPT !.moved = TRUE] ELSE flows[k]]

Stirred(s, k) ==
    [j \in DOMAIN sent |->
        IF j # k /\ sent[j].status = "out" /\ s # chain
        THEN [sent[j] EXCEPT !.moved = TRUE] ELSE sent[j]]

\* An account's transactions are mined in the order of its nonces.
Mine(k) ==
    LET c == sent[k].call
        ok == CanDo(chain, c)
    IN  /\ sent[k].status = "out"
        /\ \A j \in 1 .. k - 1 : sent[j].call.by = c.by => sent[j].status # "out"
        /\ \E s \in IF ok THEN Outcomes(chain, c) ELSE {chain} :
              /\ Shaken(s)
              /\ sent' = [Stirred(s, k) EXCEPT ![k].status = IF ok THEN "ok" ELSE "reverted"]
        /\ history' = [history EXCEPT
                          !.asked = IF c.fn = "approve" THEN @ + sent[k].typed ELSE @,
                          !.deposited = IF ok /\ c.fn = "fund" THEN @ + c.n ELSE @]
        /\ UNCHANGED <<wallet, screen, seen, nameVars, moves>>

\* The market of the order comes too close to its end, or the policy ends.
TimeRunsOut ==
    /\ "room" \in visit.pages /\ chain.open
    /\ chain' = [chain EXCEPT !.open = FALSE]
    /\ UNCHANGED <<wallet, screen, seen, flows, sent, nameVars, history, moves>>

\* Agents trade and use nonces and headroom, orders fill and are released, pools are
\* recycled, the owner has other devices, and spends from the same wallet.
Elsewhere ==
    {[chain EXCEPT !.purse = n] : n \in Amounts}
      \cup {[chain EXCEPT !.held = n] : n \in Amounts}
      \cup {[chain EXCEPT !.agent = a] : a \in {"enabled", "revoked"}}
      \cup {[chain EXCEPT !.ceiling = n] : n \in {0, 1}}
      \cup {[chain EXCEPT !.policy = 2], [chain EXCEPT !.tokens = 0]}
      \cup {[chain EXCEPT !.admits = b] : b \in BOOLEAN}
      \cup {[chain EXCEPT !.nonce = n] : n \in {chain.nonce + 1} \cap (0 .. Most)}
      \cup {[chain EXCEPT !.book = @ \ {id}] : id \in chain.book}
      \cup {[chain EXCEPT !.records = @ \ {id}] : id \in chain.records \ chain.book}
      \cup {[chain EXCEPT !.portfolios = @ \cup {l}] : l \in Labels}

\* What the writes of a page depend on.
Concerns ==
    [create |-> {"portfolios"}, settings |-> {"purse", "allowance", "ceiling"},
     agents |-> {"agent"}, recovery |-> {"held", "tokens", "book", "records"}, 
     room |-> {"agent", "nonce", "admits"}]

Concerned == UNION {Concerns[p] : p \in visit.pages}

Others ==
    /\ moves.chain < visit.moves /\ moves' = [moves EXCEPT !.chain = @ + 1]
    /\ \/ /\ \E s \in Elsewhere :
                /\ \E f \in Concerned : s[f] # chain[f]
                /\ Shaken(s)
                /\ sent' = Stirred(s, 0)
          /\ UNCHANGED wallet
       \/ /\ \E w \in {"owner", "agent", "other"} \ {wallet} : wallet' = w
          /\ UNCHANGED <<chain, flows, sent>>
    /\ UNCHANGED <<screen, seen, nameVars, history>>

-----------------------------------------------------------------------------

Init ==
    /\ visit \in Visits /\ page \in visit.pages
    /\ chain = [purse |-> Most, allowance |-> visit.left, held |-> 1, base |-> 0, policy |-> 0,
                ceiling |-> 0, agent |-> "none", tokens |-> 1, book |-> {1, 2},
                records |-> {1, 2}, nonce |-> 0, portfolios |-> {}, open |-> TRUE, admits |-> TRUE]
    /\ seen = chain
    /\ wallet \in {"owner", "agent"}
    /\ form = Blank
    /\ shown = [h \in UNION {Hooks[p] : p \in visit.pages} |-> "idle"]
    /\ flows = [k \in Slots |-> NoFlow]
    /\ sent = <<>>
    /\ naming = [w \in {"form", "card1", "card2"} |-> NoName] /\ letters = {} /\ name = 0
    /\ history = [asked |-> chain.allowance, deposited |-> 0, landed |-> 0, astray |-> FALSE,
                  saves |-> 0, saved |-> 0, settled |-> TRUE]
    /\ moves = [writes |-> 0, chain |-> 0]

Buttons ==
    \/ Approve \/ Deposit \/ SetCapitalBase \/ SaveGlobalPolicy \/ SaveDomainPolicy \/ CloseDomain
    \/ Register \/ Revoke \/ Withdraw \/ WithdrawOutcome \/ Create \/ PlaceOrder
    \/ \E row \in {1, 2} : CancelOrder(row)

Writing ==
    \E k \in Slots :
        \/ RefetchNonce(k) \/ Simulate(k) \/ Sign(k) \/ Decline(k) \/ GiveUp(k)
        \/ ReceiptConfirmed(k) \/ ReceiptReverted(k) \/ Land(k)

Names ==
    \/ \E n \in {0, 1, 2} : SaveName(n)
    \/ \E way \in DOMAIN naming : 
          ServerTime(way) \/ SignName(way) \/ Confirm(way) \/ LoseAnswer(way)
    \/ \E l \in letters : Serve(l)
    \/ Age

Next ==
    \/ Buttons \/ Writing \/ Names
    \/ \E p \in visit.pages \cup {"portfolio"} : Open(p)
    \/ \E f \in Inputs : Type(f)
    \/ \E f \in Concerned \cap Queried : Refresh(f)
    \/ \E h \in Hooks[page] : Dismiss(h)
    \/ \E k \in DOMAIN sent : Mine(k)
    \/ TimeRunsOut \/ Others

Spec == Init /\ [][Next]_vars

=============================================================================
