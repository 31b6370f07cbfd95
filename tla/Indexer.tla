------------------------------- MODULE Indexer -------------------------------
(***************************************************************************)
(* The indexer worker: every invocation of ingest (the cron tick, or the   *)
(* manual route) reads the head, the cursor and the known portfolios, and  *)
(* then, chunk by chunk, discovers portfolios, records each log in         *)
(* chain_events, projects it, and moves the cursor.  Every await is a step *)
(* of its own, so invocations interleave with each other and the chain.    *)
(***************************************************************************)
EXTENDS ChainLog, FiniteSets

CONSTANTS
  Workers,     \* invocations of ingest that may run at the same time
  Window,      \* INGEST_WINDOW, blocks per invocation
  ChunkSize,   \* MAX_LOG_RANGE, blocks per getLogs
  StateFrom,   \* oldest height at which the RPC node still answers getCode
  Faults,      \* the faults of an instance, see FaultKinds
  MaxFaults,   \* bound: faults in a behaviour
  MaxRewinds,  \* bound: rewinds by the operator
  RoughUpTo    \* bound: height of the chain in a behaviour with faults or rewinds

FaultKinds ==
  {"overlap",          \* a tick, or the manual route, while an invocation is under way
   "crash",            \* the invocation dies, or one of its awaits throws
   "loadPortfolios",   \* the select of known portfolios returns an error
   "upsertPortfolio",  \* the upsert of a discovered portfolio returns an error
   "readCursor",       \* the select of the cursor returns an error
   "writeCursor",      \* the upsert of the cursor returns an error
   "update"}           \* an update of a projection returns an error

ASSUME WorkerAssumption ==
  /\ Window \in Nat \ {0} /\ ChunkSize \in Nat \ {0} /\ StateFrom \in Nat
  /\ Faults \subseteq FaultKinds /\ {MaxFaults, MaxRewinds, RoughUpTo} \subseteq Nat

VARIABLES
  portfolios,   \* rows of portfolios
  events,       \* rows of chain_events
  applied,      \* applied[l]: how often a recorded log was projected (history)
  cursor,       \* chain_cursors.last_block, NoCursor without a row
  agents, policies, markets, receipts, reservations, positions,   \* projections
  run,          \* run[w]: the local variables of invocation w
  struck, rewinds   \* the faults, and how many rewinds, there were

tables     == <<agents, policies, markets, receipts, reservations, positions>>
ledger     == <<portfolios, events, applied, cursor>>
budgets    == <<struck, rewinds>>
indexerVars == <<ledger, tables, run, budgets>>
vars       == <<chainVars, indexerVars>>

NoCursor == -1
Genesis  == 1    \* the factory's own deployment block

(* Rows *)
NoReservation == [state |-> "none", qty |-> 0]
NoPosition    == [row |-> "none", redeemed |-> FALSE]

Idle == [pc |-> "idle", from |-> 0, to |-> 0, known |-> {}, todo |-> {},
         log |-> {}, admitted |-> {}, settled |-> FALSE]

At(w, pc) == run[w].pc = pc
Goto(w, pc) == run' = [run EXCEPT ![w].pc = pc]
Continue(w) == run' = [run EXCEPT ![w].pc = "logs", ![w].log = {}, ![w].settled = FALSE]
Exit(w) == run' = [run EXCEPT ![w] = Idle]

(* A fault that the instance allows strikes, or nothing does. *)
Strikes(kind) ==
  /\ kind \in Faults \ struck /\ Cardinality(struck) < MaxFaults /\ head <= RoughUpTo
  /\ struck' = struck \cup {kind}
Spared == UNCHANGED struck

-----------------------------------------------------------------------------
(* Where to resume *)

(* getCode at a height the node has pruned is taken for "no code". *)
HasCode(h) == h >= Genesis /\ h >= StateFrom

(* The search halves 0 .. top until one height is left. *)
Bisection(top) ==
  LET search[lo \in 0 .. top + 1, hi \in 0 .. top] ==
        IF lo >= hi THEN lo
        ELSE LET mid == (lo + hi) \div 2
             IN IF HasCode(mid) THEN search[lo, mid] ELSE search[mid + 1, hi]
  IN search[0, top]

(* Where it ends: the first height that has code, and the top if none has. *)
FindDeploymentBlock(top) ==
  CHOOSE h \in 0 .. top : (h = top \/ HasCode(h)) /\ \A k \in 0 .. h - 1 : ~ HasCode(k)

(* Mutant: the cursor's own block is taken for the next one. *)
ResumeAfter(row) == IF row > 0 THEN row + 1 ELSE 0

ResumeFrom(row) ==
  IF row > 0 THEN row
  ELSE LET genesis == FindDeploymentBlock(head)
       IN IF genesis > 0 THEN genesis - 1 ELSE 0

Begin(w) ==
  /\ At(w, "idle")
  /\ head >= Genesis
  /\ IF \A v \in Workers : At(v, "idle") THEN Spared ELSE Strikes("overlap")
  /\ run' = [run EXCEPT ![w].pc = "cursor", ![w].to = head]
  /\ UNCHANGED <<chainVars, ledger, tables, rewinds>>

ReadCursor(w) ==
  /\ At(w, "cursor")
  /\ \E row \in {cursor, NoCursor} :
       LET start == ResumeFrom(row) + 1
           budgetEnd == start + Window - 1
           end == IF budgetEnd > run[w].to THEN run[w].to ELSE budgetEnd
       IN /\ IF row = cursor THEN Spared ELSE Strikes("readCursor")
          /\ IF start > end THEN Exit(w)
             ELSE run' = [run EXCEPT ![w].pc = "portfolios", ![w].from = start, ![w].to = end]
  /\ UNCHANGED <<chainVars, ledger, tables, rewinds>>

LoadPortfolios(w) ==
  /\ At(w, "portfolios")
  /\ \E known \in {portfolios, {}} :
       /\ IF known = portfolios THEN Spared ELSE Strikes("loadPortfolios")
       /\ run' = [run EXCEPT ![w].pc = "chunk", ![w].known = known]
  /\ UNCHANGED <<chainVars, ledger, tables, rewinds>>

-----------------------------------------------------------------------------
(* One chunk *)

ChunkEnd(w) == IF run[w].from + ChunkSize - 1 > run[w].to THEN run[w].to
               ELSE run[w].from + ChunkSize - 1

(* upsertPortfolio: an error leaves no id, and nothing is thrown. *)
UpsertPortfolios(created, stored) ==
  /\ IF stored = created THEN Spared ELSE Strikes("upsertPortfolio")
  /\ portfolios' = portfolios \cup stored

(* The factory's logs first; a portfolio whose upsert returns no id is left out
   of the addresses whose logs are then fetched. *)
Discover(w) ==
  /\ At(w, "chunk")
  /\ LET created == {l.portfolio : l \in FactoryLogs(run[w].from, ChunkEnd(w))}
     IN \E stored \in {created, {}} :
          LET known == run[w].known \cup stored
          IN /\ UpsertPortfolios(created, stored)
             /\ run' = [run EXCEPT ![w].pc = "logs", ![w].known = known, ![w].admitted = {},
                                   ![w].todo = PortfolioLogs(known, run[w].from, ChunkEnd(w))]
  /\ UNCHANGED <<chainVars, events, applied, cursor, tables, rewinds>>

(* Mutant: logs are taken as they come. *)
IsNextUnsorted(w, l) == l \in run[w].todo

(* The log that comes first in (block, logIndex) order *)
IsNext(w, l) == l \in run[w].todo /\ \A k \in run[w].todo : ~ Before(k, l)

(* Mutant: the table has no unique key. *)
DuplicateNever(l) == FALSE

(* recordEvent: a unique violation means the log is left alone. *)
Duplicate(l) == l \in events

InsertEvent(l) ==
  /\ events' = events \cup {l}
  /\ applied' = [k \in events \cup {l} |-> IF k \in events THEN applied[k] ELSE 0]

RecordEvent(w) ==
  /\ At(w, "logs")
  /\ \E l \in run[w].todo :
       /\ IsNext(w, l)
       /\ ~ Duplicate(l)
       /\ InsertEvent(l)
       /\ run' = [run EXCEPT ![w].pc = "project", ![w].todo = @ \ {l}, ![w].log = {l},
                             ![w].admitted = IF l.event = "IntentAdmitted" THEN @ \cup {l.order} ELSE @]
  /\ UNCHANGED <<chainVars, portfolios, cursor, tables, budgets>>

SkipDuplicate(w) ==
  /\ At(w, "logs")
  /\ \E l \in run[w].todo :
       /\ IsNext(w, l)
       /\ Duplicate(l)
       /\ run' = [run EXCEPT ![w].todo = @ \ {l}]
  /\ UNCHANGED <<chainVars, ledger, tables, budgets>>

(* Mutant: the upsert inserts the row and never updates it. *)
WriteCursorOnce(block) ==
  \/ Spared /\ cursor' = IF cursor = NoCursor THEN block ELSE cursor
  \/ Strikes("writeCursor") /\ UNCHANGED cursor

WriteCursor(block) ==
  \/ Spared /\ cursor' = block
  \/ Strikes("writeCursor") /\ UNCHANGED cursor

(* The cursor moves past the chunk once its last log is done. *)
AdvanceCursor(w) ==
  /\ At(w, "logs")
  /\ run[w].todo = {}
  /\ WriteCursor(ChunkEnd(w))
  /\ IF ChunkEnd(w) = run[w].to THEN Exit(w)
     ELSE run' = [run EXCEPT ![w].pc = "chunk", ![w].from = ChunkEnd(w) + 1]
  /\ UNCHANGED <<chainVars, portfolios, events, applied, tables, rewinds>>

-----------------------------------------------------------------------------
(* Projections *)

Projecting(w, l, names) == At(w, "project") /\ run[w].log = {l} /\ l.event \in names

Apply(l) == applied' = [applied EXCEPT ![l] = @ + 1]

AgentRow(l) ==
  CASE l.event = "AgentSet" -> "enabled"
    [] l.event = "AgentRevoked" /\ agents[l.portfolio] # "none" -> "revoked"
    [] OTHER -> agents[l.portfolio]

DomainPolicyRow(l) == IF l.event = "DomainPolicySet" THEN l.qty ELSE policies[l.portfolio]

ProjectConfiguration(w) ==
  /\ \E l \in events :
       /\ Projecting(w, l, {"AgentSet", "AgentRevoked", "DomainPolicySet", "Initialized"})
       /\ Apply(l)
       /\ agents' = [agents EXCEPT ![l.portfolio] = AgentRow(l)]
       /\ policies' = [policies EXCEPT ![l.portfolio] = DomainPolicyRow(l)]
  /\ Continue(w)
  /\ UNCHANGED <<chainVars, portfolios, events, cursor, markets, receipts, reservations, positions, budgets>>

(* MarketTracked, whose metadata is read from the venue's registry *)
UpsertMarket(l) == markets' = IF l.event = "MarketTracked" THEN markets \cup {l.market} ELSE markets

(* IntentAdmitted, whose row is the one a reconcile looks up *)
UpsertIntent(l) ==
  receipts' = IF l.event = "IntentAdmitted" THEN [receipts EXCEPT ![l.order].intent = TRUE] ELSE receipts

ProjectAdmission(w) ==
  /\ \E l \in events :
       /\ Projecting(w, l, {"MarketTracked", "IntentAdmitted"})
       /\ Apply(l)
       /\ UpsertMarket(l)
       /\ UpsertIntent(l)
  /\ Continue(w)
  /\ UNCHANGED <<chainVars, portfolios, events, cursor, agents, policies, reservations, positions, budgets>>

(* Without the intent's row a receipt has no agent and no market. *)
UpsertReceipt(o) == receipts' = [receipts EXCEPT ![o].receipt = IF receipts[o].intent THEN "full" ELSE "bare"]

UpsertReservation(o, resting) ==
  reservations' = IF resting > 0 THEN [reservations EXCEPT ![o] = [state |-> "RESTING", qty |-> resting]]
                  ELSE reservations

(* The order key comes from the IntentAdmitted this invocation recorded itself:
   without it there is a receipt and no reservation. *)
ProjectReconciled(w) ==
  /\ \E l \in events :
       LET o == l.order
           placed == receipts[o].intent /\ o \in run[w].admitted
       IN /\ Projecting(w, l, {"IntentReconciled"})
          /\ Apply(l)
          /\ UpsertReceipt(o)
          /\ UpsertReservation(o, IF placed THEN l.qty ELSE 0)
          /\ IF placed THEN Goto(w, "sync") ELSE Continue(w)
  /\ UNCHANGED <<chainVars, portfolios, events, cursor, agents, policies, markets, positions, budgets>>

(* Any release finalizes the row, and the result of the update is not looked at. *)
Finalized(row) == IF row.state = "none" THEN row ELSE [state |-> "FINALIZED", qty |-> 0]

ProjectReleased(w) ==
  /\ \E l \in events :
       /\ Projecting(w, l, {"ReservationReleased"})
       /\ Apply(l)
       /\ \/ Spared /\ reservations' = [reservations EXCEPT ![l.order] = Finalized(@)]
          \/ Strikes("update") /\ UNCHANGED reservations
  /\ Goto(w, "sync")
  /\ UNCHANGED <<chainVars, portfolios, events, cursor, agents, policies, markets, receipts, positions, rewinds>>

(* Updates touch a row that exists; the delete does not mind. *)
Updated(row, event) ==
  CASE event = "MarketPruned" -> NoPosition
    [] event = "SettledExposureReleased" /\ row.row # "none" -> [row EXCEPT !.row = "settled"]
    [] event = "Redeemed" /\ row.row # "none" -> [row EXCEPT !.redeemed = TRUE]
    [] OTHER -> row

ProjectPosition(w) ==
  /\ \E l \in events :
       /\ Projecting(w, l, {"SettledExposureReleased", "Redeemed", "MarketPruned"})
       /\ Apply(l)
       /\ \/ Spared /\ positions' = [positions EXCEPT ![<<l.portfolio, l.market>>] = Updated(@, l.event)]
          \/ Strikes("update") /\ UNCHANGED positions
  /\ Continue(w)
  /\ UNCHANGED <<chainVars, portfolios, events, cursor, agents, policies, markets, receipts, reservations, rewinds>>

(* syncPosition: marketState is read from the latest block, the row is written
   after the awaits that follow. *)
SyncRead(w) ==
  /\ At(w, "sync")
  /\ \E l \in run[w].log :
       IF Tracked(l.portfolio, l.market)
       THEN run' = [run EXCEPT ![w].pc = "syncWrite",
                               ![w].settled = market[<<l.portfolio, l.market>>] = "settled"]
       ELSE Continue(w)
  /\ UNCHANGED <<chainVars, ledger, tables, budgets>>

SyncWrite(w) ==
  /\ At(w, "syncWrite")
  /\ \E l \in run[w].log :
       positions' = [positions EXCEPT ![<<l.portfolio, l.market>>].row =
                       IF run[w].settled THEN "settled" ELSE "open"]
  /\ Continue(w)
  /\ UNCHANGED <<chainVars, ledger, agents, policies, markets, receipts, reservations, budgets>>

-----------------------------------------------------------------------------
(* The invocation is gone with everything it held in memory. *)
Crash(w) ==
  /\ ~ At(w, "idle")
  /\ Strikes("crash")
  /\ Exit(w)
  /\ UNCHANGED <<chainVars, ledger, tables, rewinds>>

(* POST /rewind *)
Rewind ==
  /\ rewinds < MaxRewinds /\ head <= RoughUpTo
  /\ rewinds' = rewinds + 1
  /\ \E blocks \in 1 .. MaxBlock : cursor' = IF cursor > blocks THEN cursor - blocks ELSE 0
  /\ UNCHANGED <<chainVars, portfolios, events, applied, tables, run, struck>>

Init ==
  /\ ChainInit
  /\ portfolios = {} /\ events = {} /\ applied = [l \in {} |-> 0] /\ cursor = NoCursor
  /\ agents = [p \in Portfolios |-> "none"]
  /\ policies = [p \in Portfolios |-> 0]
  /\ markets = {}
  /\ receipts = [o \in Orders |-> [intent |-> FALSE, receipt |-> "none"]]
  /\ reservations = [o \in Orders |-> NoReservation]
  /\ positions = [pm \in Portfolios \X Markets |-> NoPosition]
  /\ run = [w \in Workers |-> Idle]
  /\ struck = {} /\ rewinds = 0

(* One step of an invocation that is under way. *)
Step(w) ==
  \/ ReadCursor(w) \/ LoadPortfolios(w) \/ Discover(w)
  \/ RecordEvent(w) \/ SkipDuplicate(w) \/ AdvanceCursor(w)
  \/ ProjectConfiguration(w) \/ ProjectAdmission(w) \/ ProjectReconciled(w)
  \/ ProjectReleased(w) \/ ProjectPosition(w)
  \/ SyncRead(w) \/ SyncWrite(w)

Mined ==
  /\ (struck = {} /\ rewinds = 0) \/ head < RoughUpTo
  /\ ChainNext
  /\ UNCHANGED indexerVars

Next ==
  \/ Mined
  \/ \E w \in Workers : Begin(w) \/ Step(w) \/ Crash(w)
  \/ Rewind

Spec == Init /\ [][Next]_vars

(* The cron starts an invocation every minute; an invocation gets on or dies. *)
FairSpec == Spec /\ \A w \in Workers : WF_vars(Begin(w)) /\ WF_vars(Step(w))
=============================================================================
