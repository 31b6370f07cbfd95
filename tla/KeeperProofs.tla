---------------------------- MODULE KeeperProofs ------------------------------
(***************************************************************************)
(* Theorems about the lifecycle keeper, for any number of portfolios,      *)
(* markets and orders, wrong rows, retries, and failing sends, timeouts    *)
(* and crashes.                                                            *)
(***************************************************************************)
EXTENDS LifecycleSafety, TLAPS

-----------------------------------------------------------------------------
(* The invariant *)

Stages   == {"idle", "simulate", "submit", "confirm", "record", "retire", "failed"}
Message  == [job : Jobs, attempts : Nat]
Sent     == [job : Jobs, skipped : Nat]
Handling == [pc : Stages, job : Jobs \cup {NoJob}, attempts : Nat, ahead : {0, 1}, skipped : Nat, suspect : BOOLEAN]

Typed ==
  /\ record \in [Orders -> Nat] /\ book \in [Orders -> Nat]
  /\ rows \in [Orders -> {"RESTING", "FINALIZED", "EXPIRED"}]
  /\ unindexed \subseteq Jobs /\ queue \subseteq Message /\ mempool \subseteq Sent
  /\ consumer \in Handling
  /\ consumer.pc # "idle" => consumer.job \in Jobs

(* The sequence is ahead of the chain by the nonce of the send under way only,
   and by one that a failed send has left unused, which ends with the batch. *)
NextNonceIsPending ==
  /\ consumer.pc \in {"idle", "simulate", "confirm", "record", "retire"} => consumer.ahead = 0
  /\ consumer.pc = "submit" => consumer.ahead = 1 /\ consumer.skipped = 0

(* A release that was answered with "nothing there" finds nothing later either. *)
SuspectHasNoRecord ==
  /\ consumer.pc \notin {"record", "retire"} => ~ consumer.suspect
  /\ consumer.pc = "retire" => consumer.suspect
  /\ consumer.suspect => \E o \in Orders : consumer.job = ReleaseJob(o) /\ record[o] = 0

KeeperInv == Typed /\ NextNonceIsPending /\ SuspectHasNoRecord /\ NoNonceGap /\ RetiredHasNoRecord

-----------------------------------------------------------------------------
(* Operators *)

\* A job of kind release-order is that of an order.
LEMMA ReleaseJobs ==
    ASSUME NEW j \in Jobs, j.kind = "release-order"
    PROVE  j.key \in Orders /\ j = ReleaseJob(j.key)
BY DEF Jobs, ReleaseJob, SettleJob, PruneJob

\* What is open of an order on the book
LEMMA OnBookTyped ==
    ASSUME Typed, NEW o \in Orders
    PROVE  OnBook(o) \in Nat /\ record[o] \in Nat
BY DEF Typed, OnBook

\* A transaction never opens a record again.
LEMMA PerformKeeps ==
    ASSUME Typed, NEW j \in Jobs, Perform(j)
    PROVE  /\ record' \in [Orders -> Nat] /\ unindexed' \subseteq Jobs
           /\ \A o \in Orders : record[o] = 0 => record'[o] = 0
<1>1. record \in [Orders -> Nat] /\ unindexed \subseteq Jobs
  BY DEF Typed
<1>2. CASE record' = record
  BY <1>1, <1>2 DEF Perform
<1>3. CASE j.kind = "release-order" /\ Answer(j) = "ok" /\ record' = [record EXCEPT ![j.key] = OnBook(j.key)]
  <2>1. j.key \in Orders
    BY <1>3, ReleaseJobs
  <2>2. OnBook(j.key) \in Nat
    BY <2>1, OnBookTyped
  <2>3. record[j.key] # 0
    BY <1>3 DEF Answer, AnswerRelease
  <2>4. QED
    BY <1>1, <1>3, <2>1, <2>2, <2>3 DEF Perform
<1>4. QED
  BY <1>2, <1>3 DEF Perform

\* Who retries puts the message back or drops it.
LEMMA RetryTyped ==
    ASSUME Typed, Retry, consumer.job \in Jobs
    PROVE  queue' \subseteq Message
<1>1. consumer.attempts \in Nat /\ queue \subseteq Message
  BY DEF Typed, Handling
<1>2. [job |-> consumer.job, attempts |-> consumer.attempts + 1] \in Message
  BY <1>1 DEF Message
<1>3. QED
  BY <1>1, <1>2 DEF Retry

-----------------------------------------------------------------------------
(* What a step leaves alone *)

\* The handler does not move, records do not open again, rows are not retired.
LEMMA HandlerStays ==
    ASSUME KeeperInv, UNCHANGED consumer,
           record' \in [Orders -> Nat], book' \in [Orders -> Nat],
           \A o \in Orders : record[o] = 0 => record'[o] = 0,
           rows' \in [Orders -> {"RESTING", "FINALIZED", "EXPIRED"}],
           \A o \in Orders : rows'[o] = "EXPIRED" => rows[o] = "EXPIRED",
           unindexed' \subseteq Jobs, queue' \subseteq Message, mempool' \subseteq mempool
    PROVE  KeeperInv'
<1>1. Typed'
  BY DEF KeeperInv, Typed
<1>2. NextNonceIsPending' /\ SuspectHasNoRecord' /\ NoNonceGap' /\ RetiredHasNoRecord'
  BY DEF KeeperInv, NextNonceIsPending, SuspectHasNoRecord, NoNonceGap, RetiredHasNoRecord
<1>3. QED
  BY <1>1, <1>2 DEF KeeperInv

\* The handler moves, and the chain and the rows stay.
LEMMA HandlerMoves ==
    ASSUME KeeperInv, UNCHANGED <<record, book, rows, unindexed>>,
           queue' \subseteq Message, mempool' \subseteq Sent, NoNonceGap',
           NEW r, consumer' = r, r \in Handling, r.pc # "idle" => r.job \in Jobs,
           r.pc \in {"idle", "simulate", "confirm", "record", "retire"} => r.ahead = 0,
           r.pc = "submit" => r.ahead = 1 /\ r.skipped = 0,
           r.pc \notin {"record", "retire"} => ~ r.suspect,
           r.pc = "retire" => r.suspect,
           r.suspect => \E o \in Orders : r.job = ReleaseJob(o) /\ record[o] = 0
    PROVE  KeeperInv'
<1>1. Typed'
  BY DEF KeeperInv, Typed
<1>2. NextNonceIsPending' /\ SuspectHasNoRecord' /\ RetiredHasNoRecord'
  BY DEF KeeperInv, NextNonceIsPending, SuspectHasNoRecord, RetiredHasNoRecord
<1>3. QED
  BY <1>1, <1>2 DEF KeeperInv

\* The handler, field by field
LEMMA Fields ==
    ASSUME KeeperInv
    PROVE  /\ consumer \in Handling /\ (consumer.pc # "idle" => consumer.job \in Jobs)
           /\ consumer.attempts \in Nat /\ consumer.ahead \in {0, 1} /\ consumer.skipped \in Nat
           /\ queue \subseteq Message /\ mempool \subseteq Sent
           /\ (consumer.pc \in {"idle", "simulate", "confirm", "record", "retire"} => consumer.ahead = 0)
           /\ (consumer.pc = "submit" => consumer.ahead = 1 /\ consumer.skipped = 0)
           /\ (consumer.pc \notin {"record", "retire"} => ~ consumer.suspect)
           /\ (consumer.pc = "retire" => consumer.suspect)
           /\ (consumer.suspect => \E o \in Orders : consumer.job = ReleaseJob(o) /\ record[o] = 0)
BY DEF KeeperInv, Typed, Handling, NextNonceIsPending, SuspectHasNoRecord

\* A handler that is done, or has died
LEMMA HandlerEnds ==
    ASSUME KeeperInv, UNCHANGED <<record, book, rows, unindexed, mempool>>, queue' \subseteq Message,
           consumer' = ConsumerIdle
    PROVE  KeeperInv'
<1>1. /\ ConsumerIdle \in Handling /\ ConsumerIdle.pc = "idle" /\ ConsumerIdle.ahead = 0
      /\ ~ ConsumerIdle.suspect
  BY DEF ConsumerIdle, Handling, Stages
<1>2. mempool' \subseteq Sent /\ NoNonceGap'
  BY Fields DEF KeeperInv, NoNonceGap
<1> HIDE DEF ConsumerIdle
<1>3. QED
  BY <1>1, <1>2, HandlerMoves

-----------------------------------------------------------------------------
(* The steps of the chain, the indexer, the clock and the scan *)

\* A transaction is mined.
LEMMA MineKeeps ==
    ASSUME KeeperInv, Mine
    PROVE  KeeperInv'
<1>1. PICK tx \in mempool : mempool' = mempool \ {tx} /\ Perform(tx.job)
  BY DEF Mine
<1>2. tx.job \in Jobs
  BY DEF KeeperInv, Typed, Sent
<1>3. /\ record' \in [Orders -> Nat] /\ unindexed' \subseteq Jobs
      /\ \A o \in Orders : record[o] = 0 => record'[o] = 0
  BY <1>1, <1>2, PerformKeeps DEF KeeperInv
<1>4. UNCHANGED <<book, rows, queue, consumer>>
  BY DEF Mine
<1>5. QED
  BY <1>1, <1>3, <1>4, HandlerStays DEF KeeperInv, Typed

\* The venue fills, resolves or moves on.
LEMMA VenueKeeps ==
    ASSUME KeeperInv, Venue
    PROVE  KeeperInv'
<1>1. KeeperAssumption!1 /\ Qty \in Nat
  BY KeeperAssumption
<1>2. UNCHANGED <<record, rows, unindexed, queue, mempool, consumer>>
  BY DEF Venue, Fill, Resolve, Roll, dbVars
<1>3. book' \in [Orders -> Nat]
  <2>1. book \in [Orders -> Nat]
    BY DEF KeeperInv, Typed
  <2>2. \A n \in 0 .. Qty : n \in Nat
    BY <1>1
  <2>3. ASSUME NEW o \in Orders, NEW left \in 0 .. Qty, Fill(o, left)
        PROVE  book' \in [Orders -> Nat]
    BY <2>1, <2>2, <2>3 DEF Fill
  <2>4. ASSUME NEW m \in Markets, Resolve(m) \/ Roll(m)
        PROVE  book' \in [Orders -> Nat]
    BY <2>1, <2>4 DEF Resolve, Roll
  <2>5. QED
    BY <2>3, <2>4 DEF Venue
<1>4. QED
  BY <1>2, <1>3, HandlerStays DEF KeeperInv, Typed

\* The indexer finalizes a row.
LEMMA IndexKeeps ==
    ASSUME KeeperInv, Index
    PROVE  KeeperInv'
<1>1. PICK j \in unindexed : /\ unindexed' = unindexed \ {j}
                             /\ IF j.kind = "release-order" THEN rows' = [rows EXCEPT ![j.key] = "FINALIZED"]
                                ELSE UNCHANGED rows
  BY DEF Index
<1>2. rows \in [Orders -> {"RESTING", "FINALIZED", "EXPIRED"}]
  BY DEF KeeperInv, Typed
<1>3. /\ rows' \in [Orders -> {"RESTING", "FINALIZED", "EXPIRED"}]
      /\ \A o \in Orders : rows'[o] = "EXPIRED" => rows[o] = "EXPIRED"
  BY <1>1, <1>2
<1>4. UNCHANGED <<record, book, queue, mempool, consumer>>
  BY DEF Index, chainVars
<1>5. QED
  BY <1>1, <1>3, <1>4, HandlerStays DEF KeeperInv, Typed

\* Time passes over the rows of the jobs, and the scan adds to them.
LEMMA ScanKeeps ==
    ASSUME KeeperInv, Scan \/ \E j \in Jobs : Age(j)
    PROVE  KeeperInv'
<1>1. UNCHANGED <<record, book, rows, unindexed, mempool, consumer>>
  BY DEF Scan, Age, BeginScan, NextPortfolio, NextPositions, NextDomain, EndPortfolio, EndScan, Probe, InsertJob,
         SendJob, chainVars, dbVars
<1>2. queue' \subseteq Message
  <2>1. ASSUME NEW j \in Jobs, SendJob(j)
        PROVE  queue' \subseteq Message
    <3>1. [job |-> j, attempts |-> 1] \in Message
      BY DEF Message
    <3>2. QED
      BY <2>1, <3>1, Fields DEF SendJob
  <2>2. CASE UNCHANGED queue
    BY <2>2, Fields
  <2>3. QED
    BY <2>1, <2>2 DEF Scan, Age, BeginScan, NextPortfolio, NextPositions, NextDomain, EndPortfolio, EndScan, Probe,
                      InsertJob
<1>3. QED
  BY <1>1, <1>2, HandlerStays DEF KeeperInv, Typed

-----------------------------------------------------------------------------
(* The queue handler *)

\* A message comes in.
LEMMA ReceiveKeeps ==
    ASSUME KeeperInv, NEW j \in Jobs, Receive(j)
    PROVE  KeeperInv'
<1>1. PICK msg \in queue, ahead \in {consumer.ahead, 0} :
        /\ queue' = queue \ {msg}
        /\ consumer' = [consumer EXCEPT !.pc = "simulate", !.job = msg.job, !.attempts = msg.attempts, !.ahead = ahead]
  BY DEF Receive
<1>2. /\ consumer.pc = "idle" /\ UNCHANGED <<record, book, rows, unindexed, mempool>>
  BY DEF Receive, chainVars, dbVars
<1>3. msg.job \in Jobs /\ msg.attempts \in Nat /\ ahead = 0 /\ ~ consumer.suspect
  BY <1>2, Fields DEF Message
<1> DEFINE r == [consumer EXCEPT !.pc = "simulate", !.job = msg.job, !.attempts = msg.attempts, !.ahead = ahead]
<1>4. /\ r \in Handling /\ r.pc = "simulate" /\ r.job = msg.job /\ r.ahead = 0
      /\ r.suspect = consumer.suspect
  BY <1>3, Fields DEF Handling, Stages
<1> HIDE DEF r
<1>5. queue' \subseteq Message /\ mempool' \subseteq Sent /\ NoNonceGap'
  BY <1>1, <1>2, Fields DEF KeeperInv, NoNonceGap
<1>6. consumer' = r
  BY <1>1 DEF r
<1>7. QED
  BY <1>2, <1>3, <1>4, <1>5, <1>6, HandlerMoves

\* The call is simulated, and a nonce taken for one that would go through.
LEMMA SimulateKeeps ==
    ASSUME KeeperInv, Simulate
    PROVE  KeeperInv'
<1>1. consumer.pc = "simulate" /\ UNCHANGED <<record, book, rows, unindexed, queue, mempool>>
  BY DEF Simulate, chainVars, dbVars
<1>2. queue' \subseteq Message /\ mempool' \subseteq Sent /\ NoNonceGap' /\ consumer.ahead = 0
      /\ ~ consumer.suspect /\ consumer.job \in Jobs /\ consumer \in Handling
  BY <1>1, Fields DEF KeeperInv, NoNonceGap
<1>3. CASE consumer' = [consumer EXCEPT !.pc = "failed"]
  <2> DEFINE r == [consumer EXCEPT !.pc = "failed"]
  <2>1. r \in Handling /\ r.pc = "failed" /\ r.job = consumer.job /\ r.suspect = consumer.suspect
    BY <1>2 DEF Handling, Stages
  <2> HIDE DEF r
  <2>2. consumer' = r
    BY <1>3 DEF r
  <2>3. QED
    BY <1>1, <1>2, <2>1, <2>2, HandlerMoves
<1>4. CASE TakeNonce
  <2> DEFINE r == [consumer EXCEPT !.pc = "submit", !.skipped = 0, !.ahead = 1]
  <2>1. /\ r \in Handling /\ r.pc = "submit" /\ r.job = consumer.job /\ r.suspect = consumer.suspect
        /\ r.skipped = 0 /\ r.ahead = 1
    BY <1>2 DEF Handling, Stages
  <2>2. consumer' = r
    <3>1. consumer.ahead + 1 = 1
      BY <1>2
    <3>2. QED
      BY <1>2, <1>4, <3>1 DEF TakeNonce
  <2> HIDE DEF r
  <2>3. QED
    BY <1>1, <1>2, <2>1, <2>2, HandlerMoves
<1>5. CASE consumer' = [consumer EXCEPT !.pc = "record", !.suspect = Suspect(consumer.job, Answer(consumer.job))]
  <2>1. Suspect(consumer.job, Answer(consumer.job)) \in BOOLEAN
    BY DEF Suspect
  <2>2. PICK suspect \in BOOLEAN : suspect = Suspect(consumer.job, Answer(consumer.job))
    BY <2>1
  <2>3. suspect => \E o \in Orders : consumer.job = ReleaseJob(o) /\ record[o] = 0
    <3> SUFFICES ASSUME suspect
                 PROVE  \E o \in Orders : consumer.job = ReleaseJob(o) /\ record[o] = 0
      OBVIOUS
    <3>1. consumer.job.kind = "release-order" /\ Answer(consumer.job) \in {"NothingToRelease", "NotTracked"}
      BY <2>2 DEF Suspect
    <3>2. consumer.job.key \in Orders /\ consumer.job = ReleaseJob(consumer.job.key)
      BY <1>2, <3>1, ReleaseJobs
    <3>3. record[consumer.job.key] = 0
      BY <3>1 DEF Answer, AnswerRelease
    <3>4. QED
      BY <3>2, <3>3
  <2> DEFINE r == [consumer EXCEPT !.pc = "record", !.suspect = suspect]
  <2>4. /\ r \in Handling /\ r.pc = "record" /\ r.job = consumer.job /\ r.suspect = suspect /\ r.ahead = 0
    BY <1>2 DEF Handling, Stages
  <2> HIDE DEF r
  <2>5. consumer' = r
    BY <1>5, <2>2 DEF r
  <2>6. QED
    BY <1>1, <1>2, <2>3, <2>4, <2>5, HandlerMoves
<1>6. QED
  BY <1>3, <1>4, <1>5 DEF Simulate

\* It is sent with the pending nonce, or not sent.
LEMMA SubmitKeeps ==
    ASSUME KeeperInv, Submit
    PROVE  KeeperInv'
<1>1. PICK sent \in BOOLEAN, ok \in BOOLEAN :
        /\ ok => sent
        /\ mempool' = IF sent THEN mempool \cup {[job |-> consumer.job, skipped |-> consumer.skipped]} ELSE mempool
        /\ consumer' = [consumer EXCEPT !.pc = IF ok THEN "confirm" ELSE "failed",
                                        !.ahead = IF sent THEN @ - 1 ELSE @, !.skipped = 0]
  BY DEF Submit
<1>2. consumer.pc = "submit" /\ UNCHANGED <<record, book, rows, unindexed, queue>>
  BY DEF Submit, chainVars, dbVars
<1>3. /\ consumer.skipped = 0 /\ consumer.job \in Jobs /\ ~ consumer.suspect /\ consumer \in Handling
      /\ consumer.ahead = 1
  BY <1>2, Fields
<1>4. mempool' \subseteq Sent /\ NoNonceGap' /\ queue' \subseteq Message
  <2>1. [job |-> consumer.job, skipped |-> consumer.skipped] \in Sent
    BY <1>3 DEF Sent
  <2>2. QED
    BY <1>1, <1>2, <1>3, <2>1, Fields DEF KeeperInv, NoNonceGap
<1> DEFINE pc == IF ok THEN "confirm" ELSE "failed"
           ahead == IF sent THEN consumer.ahead - 1 ELSE consumer.ahead
           r == [consumer EXCEPT !.pc = pc, !.ahead = ahead, !.skipped = 0]
<1>5. ahead \in {0, 1} /\ (ok => ahead = 0)
  <2>1. 1 - 1 = 0
    OBVIOUS
  <2>2. QED
    BY <1>1, <1>3, <2>1
<1>6. /\ r \in Handling /\ r.pc = pc /\ r.job = consumer.job /\ r.suspect = consumer.suspect /\ r.ahead = ahead
  BY <1>3, <1>5 DEF Handling, Stages
<1>7. consumer' = r
  BY <1>1
<1>8. (pc = "confirm" /\ ahead = 0) \/ pc = "failed"
  BY <1>5
<1> HIDE DEF r, pc, ahead
<1>9. QED
  BY <1>2, <1>3, <1>4, <1>6, <1>7, <1>8, HandlerMoves

\* The receipt arrives, or does not in time.
LEMMA ConfirmKeeps ==
    ASSUME KeeperInv, Confirm
    PROVE  KeeperInv'
<1>1. PICK pc \in {"record", "failed"} : consumer' = [consumer EXCEPT !.pc = pc]
  BY DEF Confirm
<1>2. consumer.pc = "confirm" /\ UNCHANGED <<record, book, rows, unindexed, queue, mempool>>
  BY DEF Confirm, chainVars, dbVars
<1>3. /\ queue' \subseteq Message /\ mempool' \subseteq Sent /\ NoNonceGap' /\ consumer.ahead = 0
      /\ ~ consumer.suspect /\ consumer.job \in Jobs /\ consumer \in Handling
  BY <1>2, Fields DEF KeeperInv, NoNonceGap
<1> DEFINE r == [consumer EXCEPT !.pc = pc]
<1>4. /\ r \in Handling /\ r.pc = pc /\ r.job = consumer.job /\ r.suspect = consumer.suspect
      /\ r.ahead = consumer.ahead
  BY <1>3 DEF Handling, Stages
<1> HIDE DEF r
<1>5. consumer' = r
  BY <1>1 DEF r
<1>6. QED
  BY <1>2, <1>3, <1>4, <1>5, HandlerMoves

\* A handler that acknowledges, or dies before it does, is idle with no nonce to spare.
LEMMA AcknowledgeEnds ==
    ASSUME KeeperInv, Acknowledge, consumer.pc \in {"record", "retire"}
    PROVE  queue' \subseteq Message /\ consumer' = ConsumerIdle
<1>1. consumer.ahead = 0 /\ consumer.job \in Jobs /\ queue \subseteq Message
  BY Fields
<1>2. consumer' = ConsumerIdle
  BY <1>1 DEF Acknowledge, ConsumerIdle
<1>3. queue' \subseteq Message
  <2>1. CASE UNCHANGED queue
    BY <1>1, <2>1
  <2>2. CASE Retry
    BY <1>1, <2>2, RetryTyped DEF KeeperInv
  <2>3. QED
    BY <2>1, <2>2 DEF Acknowledge
<1>4. QED
  BY <1>2, <1>3

\* The job's row is done; a suspect's reservation is retired next.
LEMMA RecordKeeps ==
    ASSUME KeeperInv, Record
    PROVE  KeeperInv'
<1>1. consumer.pc = "record" /\ UNCHANGED <<record, book, rows, unindexed, mempool>>
  BY DEF Record, chainVars, dbVars
<1>2. CASE consumer.suspect
  <2>1. consumer' = [consumer EXCEPT !.pc = "retire"] /\ UNCHANGED queue
    BY <1>2 DEF Record
  <2>2. /\ queue' \subseteq Message /\ mempool' \subseteq Sent /\ NoNonceGap' /\ consumer.ahead = 0
        /\ consumer.job \in Jobs /\ consumer \in Handling
        /\ \E o \in Orders : consumer.job = ReleaseJob(o) /\ record[o] = 0
    BY <1>1, <1>2, <2>1, Fields DEF KeeperInv, NoNonceGap
  <2> DEFINE r == [consumer EXCEPT !.pc = "retire"]
  <2>3. /\ r \in Handling /\ r.pc = "retire" /\ r.job = consumer.job /\ r.suspect = consumer.suspect
        /\ r.ahead = consumer.ahead
    BY <2>2 DEF Handling, Stages
  <2> HIDE DEF r
  <2>4. consumer' = r
    BY <2>1 DEF r
  <2>5. QED
    BY <1>1, <1>2, <2>2, <2>3, <2>4, HandlerMoves
<1>3. CASE ~ consumer.suspect
  <2>1. Acknowledge
    BY <1>3 DEF Record
  <2>2. QED
    BY <1>1, <2>1, AcknowledgeEnds, HandlerEnds
<1>4. QED
  BY <1>2, <1>3

\* The suspect's reservation is retired: the contract has nothing open for it.
LEMMA RetireKeeps ==
    ASSUME KeeperInv, Retire
    PROVE  KeeperInv'
<1>1. /\ consumer.pc = "retire" /\ rows' = [rows EXCEPT ![consumer.job.key] = "EXPIRED"]
      /\ UNCHANGED <<record, book, unindexed, mempool>>
  BY DEF Retire, Retired, chainVars
<1>2. PICK o \in Orders : consumer.job = ReleaseJob(o) /\ record[o] = 0
  BY <1>1, Fields
<1>3. consumer.job.key = o
  BY <1>2 DEF ReleaseJob
<1>4. /\ rows' \in [Orders -> {"RESTING", "FINALIZED", "EXPIRED"}]
      /\ \A q \in Orders : rows'[q] = "EXPIRED" => q = o \/ rows[q] = "EXPIRED"
  BY <1>1, <1>3 DEF KeeperInv, Typed
<1>5. queue' \subseteq Message /\ consumer' = ConsumerIdle
  BY <1>1, AcknowledgeEnds DEF Retire
<1>6. /\ ConsumerIdle \in Handling /\ ConsumerIdle.pc = "idle" /\ ConsumerIdle.ahead = 0
      /\ ~ ConsumerIdle.suspect
  BY DEF ConsumerIdle, Handling, Stages
<1> HIDE DEF ConsumerIdle
<1>7. Typed'
  BY <1>1, <1>4, <1>5, <1>6 DEF KeeperInv, Typed
<1>8. NextNonceIsPending' /\ SuspectHasNoRecord'
  BY <1>5, <1>6 DEF NextNonceIsPending, SuspectHasNoRecord
<1>9. NoNonceGap' /\ RetiredHasNoRecord'
  BY <1>1, <1>2, <1>4 DEF KeeperInv, NoNonceGap, RetiredHasNoRecord
<1>10. QED
  BY <1>7, <1>8, <1>9 DEF KeeperInv

\* The message is retried and the nonces read anew; or the handler dies.
LEMMA FailKeeps ==
    ASSUME KeeperInv, Fail \/ Crash
    PROVE  KeeperInv'
<1>1. /\ consumer.pc # "idle" /\ Retry /\ consumer' = ConsumerIdle
      /\ UNCHANGED <<record, book, rows, unindexed, mempool>>
  BY DEF Fail, Crash, NoncesAfterFailure, ConsumerIdle, chainVars, dbVars
<1>2. queue' \subseteq Message
  BY <1>1, Fields, RetryTyped DEF KeeperInv
<1>3. QED
  BY <1>1, <1>2, HandlerEnds

-----------------------------------------------------------------------------
(* The theorems *)

\* The keeper starts with an idle handler and rows that rest.
LEMMA KeeperInit ==
    ASSUME Init
    PROVE  KeeperInv
<1>1. Qty \in Nat
  BY KeeperAssumption
<1>2. PICK wrong \in SUBSET Ghosts : record = [o \in Orders |-> IF o \in wrong THEN 0 ELSE Qty]
  BY DEF Init
<1>3. record \in [Orders -> Nat] /\ book \in [Orders -> Nat]
  BY <1>1, <1>2 DEF Init
<1>4. /\ consumer \in Handling /\ consumer.pc = "idle" /\ consumer.ahead = 0 /\ ~ consumer.suspect
  BY DEF Init, ConsumerIdle, Handling, Stages
<1>5. Typed
  BY <1>3, <1>4 DEF Init, Typed
<1>6. NextNonceIsPending /\ SuspectHasNoRecord
  BY <1>4 DEF NextNonceIsPending, SuspectHasNoRecord
<1>7. NoNonceGap /\ RetiredHasNoRecord
  BY DEF Init, NoNonceGap, RetiredHasNoRecord
<1>8. QED
  BY <1>5, <1>6, <1>7 DEF KeeperInv

\* No step breaks the invariant.
LEMMA KeeperStep ==
    ASSUME KeeperInv, [Next]_vars
    PROVE  KeeperInv'
<1>1. ASSUME UNCHANGED vars
      PROVE  KeeperInv'
  BY <1>1 DEF vars, chainVars, dbVars, KeeperInv, Typed, NextNonceIsPending, SuspectHasNoRecord, NoNonceGap,
              RetiredHasNoRecord
<1>2. ASSUME Venue \/ Index \/ Mine \/ (\E j \in Jobs : Age(j)) \/ Scan
      PROVE  KeeperInv'
  BY <1>2, VenueKeeps, IndexKeeps, MineKeeps, ScanKeeps
<1>3. ASSUME Consume \/ Crash
      PROVE  KeeperInv'
  BY <1>3, ReceiveKeeps, SimulateKeeps, SubmitKeeps, ConfirmKeeps, RecordKeeps, RetireKeeps, FailKeeps DEF Consume
<1>4. QED
  BY <1>1, <1>2, <1>3 DEF Next

\* The invariant holds of every state a run of the keeper reaches.
LEMMA KeeperInvariant == Spec => []KeeperInv
<1>1. Init => KeeperInv
  BY KeeperInit
<1>2. KeeperInv /\ [Next]_vars => KeeperInv'
  BY KeeperStep
<1>3. QED
  BY <1>1, <1>2, PTL DEF Spec

(* No transaction the keeper has sent waits behind a nonce that no other
   transaction uses, whatever sends failed, receipts timed out and handlers
   died before (NonceSequence, withNonce and submit). *)
THEOREM KeeperNoNonceGap == Spec => []NoNonceGap
<1>1. KeeperInv => NoNonceGap
  BY DEF KeeperInv
<1>2. QED
  BY <1>1, KeeperInvariant, PTL

(* A reservation row the consumer retires as a suspect is of an order the
   contract holds nothing open for, although the chain and other messages move
   between the simulation that said so and the update (processJob). *)
THEOREM KeeperRetiredHasNoRecord == Spec => []RetiredHasNoRecord
<1>1. KeeperInv => RetiredHasNoRecord
  BY DEF KeeperInv
<1>2. QED
  BY <1>1, KeeperInvariant, PTL
==============================================================================
