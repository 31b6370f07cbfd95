----------------------------- MODULE PagesSafety -----------------------------
(***************************************************************************)
(* What an owner may rely on when every figure on the screen may be old    *)
(* and a page may be left in the middle of a write.                        *)
(***************************************************************************)
EXTENDS OwnerPages

Phases == {"idle", "signing", "pending", "confirmed", "failed"}

\* Everything keeps its type; no balance, allowance or base is ever negative.
PagesTypeOK ==
    /\ {chain.purse, chain.allowance, chain.held, chain.base, chain.tokens} \subseteq Nat
    /\ page \in visit.pages \cup {"portfolio"}
    /\ \A h \in DOMAIN shown : shown[h] \in Phases
    /\ \A k \in DOMAIN sent : sent[k].status \in {"out", "ok", "reverted"}
    /\ \A k \in Slots : flows[k].step \in {"free", "nonce", "simulate", "wallet", "receipt"}
    /\ \A k \in Slots : flows[k].tx \in 0 .. Len(sent)

\* What leaves the wallet for the portfolio never exceeds what the owner typed
\* into the approvals: a deposit that the page gave up on, or that was made from
\* an old allowance, may be mined beside its repetition, but the allowance of
\* the exact amount stops it (Funding in settings.tsx).
DepositsWithinApprovals == history.deposited <= history.asked

\* Nobody pays for a write that was hopeless when the wallet opened: one that
\* reverts on chain was overtaken by another change, or it is an order that the
\* market or the policy has not waited for (send in tx.ts; _evaluate).
RevertsOnlyIfOvertaken ==
    \A k \in DOMAIN sent :
        sent[k].status = "reverted" =>
            sent[k].moved \/ (sent[k].call.fn = "execute" /\ ~chain.open)

\* A button of the open page has one write under way at a time, whatever failed
\* or was dismissed before it; placing an order is the exception, its nonce
\* being read before the button is held (busy in tx.ts, execute in
\* control-room.tsx).
OneWritePerButton ==
    \A j, k \in Slots :
        /\ j # k /\ flows[j].on /\ flows[k].on
        /\ flows[j].hook = flows[k].hook
        => flows[j].hook = "execute"

\* The page a creation ends on is that of a portfolio that exists, unless the
\* label was edited while the creation was under way (create.tsx).
LandsOnItsPortfolio ==
    history.landed # 0 /\ ~history.astray => history.landed \in chain.portfolios

\* A name that the owner was told is saved stays, until the next save begins:
\* saves overlap, their answers arrive in any order and a request that was given
\* up may arrive late, but once no other save of the last five minutes is about,
\* what was confirmed last is what is stored (agents.tsx, and the timestamp that
\* PUT .../name of the API checks).
SavedNameStays == history.settled => name = history.saved

=============================================================================
