---------------------------- MODULE IndexerSafety ----------------------------
(* What the indexer's tables may be relied on for. *)
EXTENDS Indexer

(* Every log of a portfolio at or below the cursor *)
Covered == {l \in logs : l.event # "PortfolioCreated" /\ l.block <= cursor}

(* The tables are at rest: nothing runs and the cursor is at the head. *)
Quiet == cursor = head /\ \A w \in Workers : At(w, "idle")

(* "Nothing is skipped" (wrangler.toml): every log of every portfolio at or
   below the cursor has its row in chain_events, however many invocations
   overlap, die half way, or rewind. *)
CursorCoversLogs == Covered \subseteq events

(* The ledger implements the abstract one: a log is recorded once and projected
   at most once (recordEvent's unique key), and the cursor passes recorded logs
   only. *)
Ledger == INSTANCE EventLedger WITH
  published <- logs, claimed <- events, count <- applied, covered <- Covered

ImplementsLedger == Ledger!Spec

(* The last log about p among names, as the contract's own state stands *)
LastOf(p, names) ==
  {l \in logs : /\ l.portfolio = p /\ l.event \in names
                /\ \A k \in logs : k.portfolio = p /\ k.event \in names => ~ Before(l, k)}

ReservationsMatch ==
  \A o \in Orders :
    /\ record[o] > 0 => reservations[o].state # "none"
    /\ reservations[o].state = "RESTING" => reservations[o].qty = record[o]

PositionsMatch ==
  \A p \in Portfolios, m \in Markets :
    /\ positions[<<p, m>>].row # "none" <=> Tracked(p, m)
    /\ positions[<<p, m>>].row = "settled" <=> market[<<p, m>>] = "settled"

ConfigurationMatches ==
  \A p \in Portfolios :
    /\ agents[p] = "enabled" <=> \E l \in LastOf(p, {"AgentSet", "AgentRevoked"}) : l.event = "AgentSet"
    /\ \A l \in LastOf(p, {"DomainPolicySet"}) : policies[p] = l.qty

ReceiptsMatch ==
  \A l \in logs : l.event = "IntentReconciled" => receipts[l.order].receipt = "full"

(* "All converge on the same rows" (ARCHITECTURE.md): at rest, a resting row is
   an order the contract holds open with that quantity, a position row is a
   tracked market in its state, agents and policies are the last ones set, and
   every receipt has its intent, although positions are read from the latest
   block while older logs are still being projected, and the operator rewinds.
   What a fault may leave behind is the matter of RetriedNotLost. *)
TablesMatchTheContract ==
  Quiet /\ struck = {} => ReservationsMatch /\ PositionsMatch /\ ConfigurationMatches /\ ReceiptsMatch

(* must: a throw leaves the block "retried rather than lost".  The tables at rest
   agree with the contract after an invocation has died half way, too. *)
RetriedNotLost ==
  Quiet /\ struck \subseteq {"crash"} =>
    ReservationsMatch /\ PositionsMatch /\ ConfigurationMatches /\ ReceiptsMatch

(* The cron resumes from the cursor until it reaches the head: every block is
   passed at last, whatever dies or is rewound on the way. *)
CatchesUp == \A b \in 1 .. MaxBlock : (head >= b) ~> (cursor >= b)
=============================================================================
