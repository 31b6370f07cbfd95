------------------------------ MODULE Lifecycle ------------------------------
(***************************************************************************)
(* The lifecycle keeper: a scan every minute turns the reservations and    *)
(* positions of the database into jobs (a row and a queue message), and    *)
(* one queue consumer simulates, sends and confirms a transaction per job, *)
(* with retries, a dead-letter queue and one key whose nonces it hands     *)
(* out.  The contract, the venue and the indexer move in between.          *)
(***************************************************************************)
EXTENDS Integers, FiniteSets

CONSTANTS
  Portfolios, Markets, Orders,
  OwnerOf,      \* [Orders -> Portfolios]
  MarketOf,     \* [Orders -> Markets]
  Ghosts,       \* orders whose row may be wrong: the contract has no record of them
  Qty,          \* what every other order rests at first
  Environment,  \* what the venue does in an instance
  MaxEvents,    \* bound: how often it does something
  Limit,        \* rows a query of the scan returns
  MaxEnqueue,   \* MAX_ENQUEUE_PER_RUN
  PruneAt,      \* tracked markets of a domain from which a scan prunes
  MaxRetries,   \* retries of a message before it goes to the dead-letter queue
  Faults,       \* the faults of an instance, see FaultKinds
  MaxFaults     \* bound: faults in a behaviour

FaultKinds ==
  {"probe",    \* a read of the scan fails, which orderStillLive takes for "gone"
   "budget",   \* the scan runs out of RUN_BUDGET_MS, or dies
   "rpc",      \* simulate, the nonce read or the send fails
   "backlog",  \* a message waits for longer than half an hour (not counted)
   "timeout",  \* the receipt does not arrive in time; the transaction is out
   "crash"}    \* the consumer dies; the message is delivered again

ASSUME KeeperAssumption ==
  /\ OwnerOf \in [Orders -> Portfolios] /\ MarketOf \in [Orders -> Markets]
  /\ Ghosts \subseteq Orders
  /\ {Qty, Limit, MaxEnqueue, PruneAt} \subseteq Nat \ {0}
  /\ {MaxRetries, MaxFaults, MaxEvents} \subseteq Nat /\ Faults \subseteq FaultKinds

VARIABLES
  record, book,       \* quantity the contract, and the venue, hold open
  rolled, terminal,   \* markets whose pool moved on; resolved or voided markets
  market, held,       \* marketState's flags; markets the portfolio holds tokens of
  rows, positions,    \* tables reservations and positions
  unindexed,          \* releases the indexer has not projected yet
  jobs,               \* table reconciliation_jobs: the latest row of every job
  queue,              \* messages waiting for delivery
  mempool,            \* transactions of the key that are not mined, by nonce
  scanner, consumer,  \* local state of the scan and of the queue handler
  faults

chainVars == <<record, book, rolled, terminal, market, held>>
dbVars    == <<rows, positions, unindexed>>
vars      == <<chainVars, dbVars, jobs, queue, mempool, scanner, consumer, faults>>

Pairs == Portfolios \X Markets

(* A job is one kind of work of one portfolio on one order or market. *)
ReleaseJob(o)  == [kind |-> "release-order", portfolio |-> OwnerOf[o], key |-> o]
SettleJob(pm)  == [kind |-> "release-settled", portfolio |-> pm[1], key |-> pm[2]]
PruneJob(pm)   == [kind |-> "prune-market", portfolio |-> pm[1], key |-> pm[2]]
Jobs == {ReleaseJob(o) : o \in Orders} \cup {SettleJob(pm) : pm \in Pairs} \cup {PruneJob(pm) : pm \in Pairs}

(* fresh: the row's updated_at is less than half an hour old *)
Row(status) == [status |-> status, fresh |-> TRUE]
NoRow       == [status |-> "none", fresh |-> FALSE]
InFlight(j) == jobs[j].status = "PENDING"

NoJob == [kind |-> "none"]
ScannerIdle  == [pc |-> "idle", left |-> {}, portfolio |-> {},
                 todo |-> {}, blocked |-> {}, step |-> <<"probe">>, queued |-> 0]
(* ahead: by how much NonceSequence.next exceeds the pending count (a sequence
   that has read nothing yet reads that count); skipped: how many nonces lie
   unused before the one taken *)
ConsumerIdle == [pc |-> "idle", job |-> NoJob, attempts |-> 0, ahead |-> 0, skipped |-> 0, suspect |-> FALSE]

Strikes(kind) == kind \in Faults /\ faults < MaxFaults /\ faults' = faults + 1
Spared        == faults' = faults

-----------------------------------------------------------------------------
(* The contract's three permissionless calls *)

OnBook(o) == IF rolled[MarketOf[o]] THEN 0 ELSE book[o]
PairOf(o) == <<OwnerOf[o], MarketOf[o]>>
Reserved(pm) == market[pm] = "tracked" /\ \E o \in Orders : PairOf(o) = pm /\ record[o] > 0
Tracked(pm)  == market[pm] \in {"tracked", "settled"}

AnswerRelease(o) ==
  IF record[o] = 0 THEN "NothingToRelease"
  ELSE IF OnBook(o) >= record[o] THEN "OrderStillLive"
  ELSE IF market[PairOf(o)] = "tracked" THEN "ok"
  ELSE "Panic"    \* releaseSettled zeroed the sums this call subtracts from

AnswerSettle(pm) ==
  IF ~ terminal[pm[2]] THEN "MarketNotSettled"
  ELSE IF market[pm] = "tracked" THEN "ok" ELSE "NothingToRelease"

AnswerPrune(pm) ==
  IF ~ Tracked(pm) THEN "NotTracked"
  ELSE IF Reserved(pm) \/ (market[pm] = "tracked" /\ pm \in held) THEN "MarketStillActive"
  ELSE "ok"

(* What a call of job j answers now *)
Answer(j) ==
  CASE j.kind = "release-order"   -> AnswerRelease(j.key)
    [] j.kind = "release-settled" -> AnswerSettle(<<j.portfolio, j.key>>)
    [] j.kind = "prune-market"    -> AnswerPrune(<<j.portfolio, j.key>>)

MarketAfter(j) ==
  IF j.kind = "release-settled" THEN "settled"
  ELSE IF market[<<j.portfolio, j.key>>] = "settled" THEN "closed" ELSE "untracked"

(* A transaction of job j is mined; a revert leaves everything as it was. *)
Perform(j) ==
  IF Answer(j) # "ok" THEN UNCHANGED <<record, market, unindexed>>
  ELSE /\ unindexed' = unindexed \cup {j}
       /\ IF j.kind = "release-order"
          THEN record' = [record EXCEPT ![j.key] = OnBook(j.key)] /\ UNCHANGED market
          ELSE market' = [market EXCEPT ![<<j.portfolio, j.key>>] = MarketAfter(j)] /\ UNCHANGED record

Mine ==
  /\ \E tx \in mempool :
       /\ tx.skipped = 0
       /\ mempool' = mempool \ {tx}
       /\ Perform(tx.job)
  /\ UNCHANGED <<book, rolled, terminal, held, rows, positions, jobs, queue, scanner, consumer, faults>>

-----------------------------------------------------------------------------
(* The venue, the indexer and the clock *)

(* How much has happened to the markets *)
Events == Cardinality(held) + Cardinality({m \in Markets : rolled[m]}) + Cardinality({m \in Markets : terminal[m]})

Fill(o, left) ==
  /\ (IF left = 0 THEN "fill" ELSE "partialFill") \in Environment
  /\ left < OnBook(o)
  /\ book' = [book EXCEPT ![o] = left]
  /\ held' = held \cup {PairOf(o)}
  /\ UNCHANGED <<record, rolled, terminal, market, dbVars, jobs, queue, mempool, scanner, consumer, faults>>

(* A market is over: its book is drained and it is resolved. *)
Resolve(m) ==
  /\ "resolve" \in Environment
  /\ ~ terminal[m]
  /\ terminal' = [terminal EXCEPT ![m] = TRUE]
  /\ book' = [o \in Orders |-> IF MarketOf[o] = m THEN 0 ELSE book[o]]
  /\ UNCHANGED <<record, rolled, market, held, dbVars, jobs, queue, mempool, scanner, consumer, faults>>

(* The pool moves on to a later market. *)
Roll(m) ==
  /\ "roll" \in Environment
  /\ ~ rolled[m]
  /\ rolled' = [rolled EXCEPT ![m] = TRUE]
  /\ UNCHANGED <<record, book, terminal, market, held, dbVars, jobs, queue, mempool, scanner, consumer, faults>>

Venue == /\ Events < MaxEvents
         /\ \/ \E o \in Orders, left \in 0 .. Qty : Fill(o, left)
            \/ \E m \in Markets : Resolve(m) \/ Roll(m)

(* The indexer projects one release: see Indexer's Finalized, Updated, SyncWrite. *)
Index ==
  /\ \E j \in unindexed :
       /\ unindexed' = unindexed \ {j}
       /\ IF j.kind = "release-order"
          THEN /\ rows' = [rows EXCEPT ![j.key] = "FINALIZED"]
               /\ positions' = IF Tracked(PairOf(j.key)) THEN [positions EXCEPT ![PairOf(j.key)] = market[PairOf(j.key)]]
                               ELSE positions
          ELSE /\ UNCHANGED rows
               /\ positions' = [positions EXCEPT ![<<j.portfolio, j.key>>] =
                                  IF j.kind = "prune-market" THEN "none" ELSE IF @ = "none" THEN @ ELSE "settled"]
  /\ UNCHANGED <<chainVars, jobs, queue, mempool, scanner, consumer, faults>>

(* Half an hour passes over a job's row; without a backlog its message, with
   all its retries, is done long before. *)
Age(j) ==
  /\ jobs[j].fresh
  /\ "backlog" \in Faults \/ (consumer.job # j /\ \A msg \in queue : msg.job # j)
  /\ jobs' = [jobs EXCEPT ![j].fresh = FALSE]
  /\ UNCHANGED <<chainVars, dbVars, queue, mempool, scanner, consumer, faults>>

-----------------------------------------------------------------------------
(* The scan *)

(* blockedKeys: a job in flight, or finished within its cooldown *)
Blocked(p) == {j \in Jobs : j.portfolio = p /\ (InFlight(j) \/ jobs[j].fresh)}

(* Mutant: nothing ever expires. *)
NeverExpired(row) == row

(* A row that stayed PENDING past STALE_JOB_MS is failed. *)
Expired(row) == IF row.status = "PENDING" /\ ~ row.fresh THEN Row("FAILED") ELSE row

(* pruneJobHistory: finished rows that are old enough go, in time. *)
Pruned(row) == IF row.status # "PENDING" /\ ~ row.fresh THEN NoRow ELSE row

BeginScan ==
  /\ scanner.pc = "idle"
  /\ \/ jobs' = [j \in Jobs |-> Expired(jobs[j])]
     \/ jobs' = [j \in Jobs |-> Pruned(Expired(jobs[j]))]
  /\ scanner' = [ScannerIdle EXCEPT !.pc = "next", !.left = Portfolios]
  /\ UNCHANGED <<chainVars, dbVars, queue, mempool, consumer, faults>>

Enough == scanner.queued >= MaxEnqueue

(* At most Limit of the rows, in no particular order *)
AtMostLimit(found) ==
  {s \in SUBSET found : Cardinality(s) = IF Cardinality(found) < Limit THEN Cardinality(found) ELSE Limit}

OpenRows(p)      == {ReleaseJob(o) : o \in {q \in Orders : OwnerOf[q] = p /\ rows[q] = "RESTING"}}
OpenPositions(p) == {SettleJob(pm) : pm \in {q \in Pairs : q[1] = p /\ positions[q] = "tracked"}}
DomainMarkets(p) == {PruneJob(pm) : pm \in {q \in Pairs : q[1] = p /\ Tracked(q)}}

(* The jobs in flight or cooling down are read once per portfolio, before its rows. *)
NextPortfolio ==
  /\ scanner.pc = "next" /\ scanner.left # {} /\ ~ Enough
  /\ \E p \in scanner.left : \E found \in AtMostLimit(OpenRows(p)) :
       scanner' = [scanner EXCEPT !.pc = "orders", !.left = @ \ {p}, !.portfolio = {p},
                                  !.todo = found \ Blocked(p), !.blocked = Blocked(p) \ OpenRows(p)]
  /\ UNCHANGED <<chainVars, dbVars, jobs, queue, mempool, consumer, faults>>

StageDone(stage) == scanner.pc = stage /\ scanner.step = <<"probe">> /\ scanner.todo = {}

NextPositions ==
  /\ StageDone("orders")
  /\ \E p \in scanner.portfolio : \E found \in AtMostLimit(OpenPositions(p)) :
       scanner' = [scanner EXCEPT !.pc = "positions", !.todo = found \ scanner.blocked]
  /\ UNCHANGED <<chainVars, dbVars, jobs, queue, mempool, consumer, faults>>

NextDomain ==
  /\ StageDone("positions")
  /\ \E p \in scanner.portfolio :
       scanner' = [scanner EXCEPT !.pc = "domains", !.blocked = {}, !.portfolio = {},
                                  !.todo = IF Cardinality(DomainMarkets(p)) < PruneAt THEN {}
                                           ELSE DomainMarkets(p) \ scanner.blocked]
  /\ UNCHANGED <<chainVars, dbVars, jobs, queue, mempool, consumer, faults>>

EndPortfolio ==
  /\ StageDone("domains")
  /\ scanner' = [scanner EXCEPT !.pc = "next"]
  /\ UNCHANGED <<chainVars, dbVars, jobs, queue, mempool, consumer, faults>>

(* Mutant: an order of a recycled pool is judged by its id alone. *)
LiveById(o) == record[o] > 0 /\ book[o] >= record[o]

OrderStillLive(o) == ~ rolled[MarketOf[o]] /\ record[o] > 0 /\ book[o] >= record[o]
MarketTerminal(m) == terminal[m]
Prunable(pm) == Tracked(pm) /\ ~ Reserved(pm) /\ (market[pm] = "settled" \/ pm \notin held)

Wanted(j) ==
  CASE j.kind = "release-order"   -> ~ OrderStillLive(j.key)
    [] j.kind = "release-settled" -> MarketTerminal(j.key)
    [] j.kind = "prune-market"    -> Prunable(<<j.portfolio, j.key>>)

Working == scanner.pc \in {"orders", "positions", "domains"}

(* A read that throws is "not live" for an order and "no" for a market. *)
Probe(j) ==
  /\ Working /\ scanner.step = <<"probe">> /\ ~ Enough
  /\ j \in scanner.todo
  /\ \E wanted \in BOOLEAN :
       /\ \/ wanted = Wanted(j) /\ Spared
          \/ wanted = (j.kind = "release-order") /\ Strikes("probe")
       /\ scanner' = IF wanted THEN [scanner EXCEPT !.step = <<"insert", j>>] ELSE [scanner EXCEPT !.todo = @ \ {j}]
  /\ UNCHANGED <<chainVars, dbVars, jobs, queue, mempool, consumer>>

(* A row in flight makes the insert fail with 23505: nothing is sent. *)
InsertJob(j) ==
  /\ scanner.step = <<"insert", j>>
  /\ IF InFlight(j) THEN UNCHANGED jobs ELSE jobs' = [jobs EXCEPT ![j] = Row("PENDING")]
  /\ scanner' = [scanner EXCEPT !.todo = @ \ {j}, !.queued = @ + 1,
                                !.step = IF InFlight(j) THEN <<"probe">> ELSE <<"send", j>>]
  /\ UNCHANGED <<chainVars, dbVars, queue, mempool, consumer, faults>>

SendJob(j) ==
  /\ scanner.step = <<"send", j>>
  /\ queue' = queue \cup {[job |-> j, attempts |-> 1]}
  /\ scanner' = [scanner EXCEPT !.step = <<"probe">>]
  /\ UNCHANGED <<chainVars, dbVars, jobs, mempool, consumer, faults>>

EndScan ==
  /\ \/ scanner.pc = "next" /\ (scanner.left = {} \/ Enough) /\ Spared
     \/ Working /\ scanner.step = <<"probe">> /\ Enough /\ scanner.todo # {} /\ Spared
     \/ scanner.pc # "idle" /\ Strikes("budget")
  /\ scanner' = ScannerIdle
  /\ UNCHANGED <<chainVars, dbVars, jobs, queue, mempool, consumer>>

Scan == \/ BeginScan \/ NextPortfolio \/ NextPositions \/ NextDomain \/ EndPortfolio \/ EndScan
        \/ \E j \in Jobs : Probe(j) \/ InsertJob(j) \/ SendJob(j)

-----------------------------------------------------------------------------
(* The queue handler *)

(* A message is delivered in the batch at hand, or opens a new one, whose
   NonceSequence has read nothing yet. *)
Receive(j) ==
  /\ consumer.pc = "idle"
  /\ \E msg \in {n \in queue : n.job = j}, ahead \in {consumer.ahead, 0} :
       /\ queue' = queue \ {msg}
       /\ consumer' = [consumer EXCEPT !.pc = "simulate", !.job = msg.job, !.attempts = msg.attempts, !.ahead = ahead]
  /\ UNCHANGED <<chainVars, dbVars, jobs, mempool, scanner, faults>>

(* Mutant: an order that still rests is taken for a wrong key too. *)
SuspectLive(j, answer) == j.kind = "release-order" /\ answer # "MarketNotSettled"

Suspect(j, answer) == j.kind = "release-order" /\ answer \in {"NothingToRelease", "NotTracked"}

(* The nonce is the pending count, or the one after the last handed out. *)
TakeNonce == consumer' = [consumer EXCEPT !.pc = "submit", !.skipped = consumer.ahead, !.ahead = @ + 1]

Simulate ==
  /\ consumer.pc = "simulate"
  /\ LET answer == Answer(consumer.job)
     IN \/ /\ Strikes("rpc")
           /\ consumer' = [consumer EXCEPT !.pc = "failed"]
        \/ /\ answer = "ok" /\ Spared
           /\ TakeNonce
        \/ /\ answer = "Panic" /\ Spared
           /\ consumer' = [consumer EXCEPT !.pc = "failed"]
        \/ /\ answer \notin {"ok", "Panic"} /\ Spared
           /\ consumer' = [consumer EXCEPT !.pc = "record", !.suspect = Suspect(consumer.job, answer)]
  /\ UNCHANGED <<chainVars, dbVars, jobs, queue, mempool, scanner>>

(* writeContract: an error may hide a transaction that did get out. *)
Submit ==
  /\ consumer.pc = "submit"
  /\ \E sent, ok \in BOOLEAN :
       /\ ok => sent
       /\ IF ok THEN Spared ELSE Strikes("rpc")
       /\ mempool' = IF sent THEN mempool \cup {[job |-> consumer.job, skipped |-> consumer.skipped]} ELSE mempool
       /\ consumer' = [consumer EXCEPT !.pc = IF ok THEN "confirm" ELSE "failed",
                                       !.ahead = IF sent THEN @ - 1 ELSE @, !.skipped = 0]
  /\ UNCHANGED <<chainVars, dbVars, jobs, queue, scanner>>

(* A receipt counts as done even when it says the transaction reverted. *)
Confirm ==
  /\ consumer.pc = "confirm"
  /\ \/ /\ [job |-> consumer.job, skipped |-> 0] \notin mempool /\ Spared
        /\ consumer' = [consumer EXCEPT !.pc = "record"]
     \/ /\ Strikes("timeout")
        /\ consumer' = [consumer EXCEPT !.pc = "failed"]
  /\ UNCHANGED <<chainVars, dbVars, jobs, queue, mempool, scanner>>

(* addressJob: the rows of this kind and key, whatever portfolio they are of *)
Addressed(j) == {k \in Jobs : k.kind = j.kind /\ k.key = j.key}

(* The message comes back until it has been retried MaxRetries times; then it
   is in the dead-letter queue, which nothing reads. *)
Retry == queue' = IF consumer.attempts > MaxRetries THEN queue
                  ELSE queue \cup {[job |-> consumer.job, attempts |-> consumer.attempts + 1]}

(* A handler that dies before it acknowledges sees the message again. *)
Acknowledge ==
  /\ \/ Spared /\ UNCHANGED queue
     \/ Strikes("crash") /\ Retry
  /\ consumer' = [ConsumerIdle EXCEPT !.ahead = consumer.ahead]

Record ==
  /\ consumer.pc = "record"
  /\ jobs' = [j \in Jobs |-> IF j \in Addressed(consumer.job) /\ InFlight(j) THEN Row("DONE") ELSE jobs[j]]
  /\ IF consumer.suspect THEN consumer' = [consumer EXCEPT !.pc = "retire"] /\ UNCHANGED <<queue, faults>>
     ELSE Acknowledge
  /\ UNCHANGED <<chainVars, dbVars, mempool, scanner>>

Retired(o) == [rows EXCEPT ![o] = "EXPIRED"]

Retire ==
  /\ consumer.pc = "retire"
  /\ rows' = Retired(consumer.job.key)
  /\ Acknowledge
  /\ UNCHANGED <<chainVars, positions, unindexed, jobs, mempool, scanner>>

(* Mutant: the sequence goes on after a failure. *)
KeepNonces == consumer.ahead

NoncesAfterFailure == 0

Fail ==
  /\ consumer.pc = "failed"
  /\ jobs' = [j \in Jobs |-> IF j \in Addressed(consumer.job) /\ jobs[j].status # "none" THEN Row("FAILED") ELSE jobs[j]]
  /\ Retry
  /\ consumer' = [ConsumerIdle EXCEPT !.ahead = NoncesAfterFailure]
  /\ UNCHANGED <<chainVars, dbVars, mempool, scanner, faults>>

Crash ==
  /\ consumer.pc # "idle"
  /\ Strikes("crash")
  /\ Retry
  /\ consumer' = ConsumerIdle
  /\ UNCHANGED <<chainVars, dbVars, jobs, mempool, scanner>>

Consume == (\E j \in Jobs : Receive(j)) \/ Simulate \/ Submit \/ Confirm \/ Record \/ Retire \/ Fail

-----------------------------------------------------------------------------
Init ==
  /\ \E wrong \in SUBSET Ghosts : record = [o \in Orders |-> IF o \in wrong THEN 0 ELSE Qty]
  /\ book = record
  /\ rolled = [m \in Markets |-> FALSE] /\ terminal = rolled
  /\ market = [pm \in Pairs |-> IF \E o \in Orders : PairOf(o) = pm THEN "tracked" ELSE "untracked"]
  /\ held = {}
  /\ rows = [o \in Orders |-> "RESTING"]
  /\ positions = [pm \in Pairs |-> IF Tracked(pm) THEN "tracked" ELSE "none"]
  /\ unindexed = {}
  /\ jobs = [j \in Jobs |-> NoRow]
  /\ queue = {} /\ mempool = {}
  /\ scanner = ScannerIdle /\ consumer = ConsumerIdle
  /\ faults = 0

Next == Venue \/ Index \/ Mine \/ (\E j \in Jobs : Age(j)) \/ Scan \/ Consume \/ Crash

Spec == Init /\ [][Next]_vars

(* The cron fires every minute, the queue delivers every message, blocks are mined and
   indexed, and time passes; the venue need not do anything. *)
FairSpec == /\ Spec
            /\ WF_vars(Scan) /\ WF_vars(Consume) /\ WF_vars(Mine) /\ WF_vars(Index)
            /\ \A j \in Jobs : WF_vars(Age(j)) /\ SF_vars(Receive(j))
=============================================================================
