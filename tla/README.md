# AIRSPACE: specifications and proofs

AIRSPACE lets several trading agents share one pool of capital. An agent
proposes an order; one contract, `AirspacePortfolio`, admits it only when the
agent's own policy and the portfolio's shared envelope both allow it, places it
on the DreamDEX venue and keeps the books. Workers index its logs, serve views
of it, keep it clear of dead orders and trade for the agents; web pages let the
owner run it. This directory holds TLA+ models of all of these, the TLC
instances that check them, and theorems checked by TLAPS.

## 1. The system

| Component | State it keeps | Operations | Interacts through |
|---|---|---|---|
| `contracts/src/AirspacePortfolio.sol` | policies, agent nonces and commitments, one `MarketState` per market, domain lists, one `OrderRec` per resting order, `capitalBase`, `reservedCollateral` | `execute`, `releaseOrder`, `releaseSettled`, `pruneMarket`, the owner's calls | calls to the venue; everybody calls it |
| DreamDEX venue (external; `contracts/test/mocks/MockDreamDex.sol` is the tests' stand-in) | order books, pool generations, market phases, token balances | placement, matching, cancel, expiry drain, finalize, settle, recycle, redeem | answers `getOrder`, `marketNonce`, `balanceOf`; changes between the portfolio's transactions without telling it |
| preview: `previewIntent`, the API's simulate route, `packages/risk` | none | ordered refusal codes, rows of the gate stack | mirrors what `execute` enforces |
| `workers/indexer` | cursor, event rows, projections | scan log windows, discover portfolios, record, project | chain logs, database |
| `workers/lifecycle` | job rows, queue, one key's nonces | scan, release, settle, prune, retry | the three permissionless calls, the indexer's rows |
| `workers/api`, event store | a portfolio's events and scan cursor, in a Durable Object's storage and memory | scan windows, alarm, answer views | chain logs |
| `workers/api`, snapshot stream | latest snapshot, verdict on the implementation, websockets | refresh, alarm, broadcast | contract reads, browser |
| `workers/api`, views | none: rows folded from the history | reservations, markets, intents, integrity | event store, contract |
| `workers/agent` | price offset, last outcome | preview, choose a nonce, estimate, send, report a refusal | contract, API |
| `apps/web`, the owner's pages | forms, the writes under way, query answers | simulate, sign, wait; save a name | wallet, contract, API |
| `scripts/risk-verifier.mjs` | none | re-derive every market's worst case by enumeration | contract and venue reads |
| `AirspacePortfolioFactory.sol` | clones by owner and salt | `createPortfolio` | initializes portfolios |
| `Cadence.sol`, `packages/protocol`, `packages/sdk`, `packages/types`, `packages/db`, other scripts, `engineering` | none of their own, or tables the workers write | encodings, wrappers, campaigns, superseded spikes | |

What is hard about it:

* **Nobody reports fills.** A resting order can be filled by a counterparty,
  cancelled, or drained at expiry in a transaction of the venue's. The portfolio
  learns of it only when somebody calls `releaseOrder`, so its books lag behind
  the chain in one direction that has to be the safe one.
* **Orders resolve independently.** Exposure must cover every combination of
  fills and cancellations of what rests, not the net.
* **Pools are recycled.** The same pool address hosts one market after another
  and its order ids may start again, so records of a dead generation coexist
  with live orders of the next.
* **Several totals describe the same orders**: four counters per market, a
  reserved total, one commitment per agent, the records themselves, and the
  balances on chain. Rounding, price improvement, partial releases and clamped
  subtractions act on them differently.
* **Agents compete** for one domain's headroom; the loser must see the winner's
  reservation.
* **Swap and pop** over bounded lists whose slots are stored elsewhere.
* **Every worker awaits.** Invocations of the indexer and the agent overlap; a
  Durable Object serves requests, alarms and websockets in between its own reads;
  each may die, be evicted or lose an answer between any two of them, and the
  chain moves meanwhile.
* **Nodes trail each other**, so that a later read may see an older chain.
* **One key sends every keeper job**: a failed send must not leave a nonce unused.
* **Pages show old figures** and can be left in the middle of a write.

What makes each component correct:

* *portfolio*: no admission leaves a domain over its ceiling; reported exposure
  is never below what is reachable; records reserve at least what the venue
  holds; the totals equal the sums of the records; a nonce is used once; budgets
  hold after reconciliation; lists and slots agree; a stuck reservation can be
  cleared;
* *preview*: a stack without a refusal means exactly what `execute` admits;
* *risk verifier*: no end of a market it misses; on one block no false accusation, in a
  watch none unless trading overtook the round;
* *indexer*: every log below the cursor is recorded, projected at most once, and
  the rows at rest are the contract's;
* *keeper*: a dead order's reservation and a spent market's exposure are cleared
  at last; no transaction waits behind a nonce nobody uses; no live row retired;
* *event store*: no gap below the checkpoint; complete means current;
* *snapshot stream*: an unmarked snapshot is of a verified factory; whoever stays
  connected sees the latest version;
* *views*: the rows explain the contract's own figures, and what is offered works unless
  a read failed;
* *agent*: it pays for a refusal only when overtaken, by others or by time; an intent is shown with the
  decision it got; it widens until its orders rest;
* *pages*: deposits stay within approvals, nothing reverts that was not overtaken, one
  write per button, a confirmed name stays.

## 2. Modules

| Module | Models | Source |
|---|---|---|
| `Exposure` | order kinds, escrow rounded up, the bounds of the reachable interval and their worst case | `_reserveFor`, `_bounds`, `marketWorstCaseExposure` |
| `Sums` | the sum of a function over a finite set, without a recursive operator | |
| `DreamDex` | the venue as the portfolio sees it (external) | `IDreamDex.sol`, and how `AirspacePortfolio.sol` uses it |
| `AirspacePortfolio` | the contract composed with the venue; one action per transaction | `AirspacePortfolio.sol` |
| `PortfolioSafety` | the properties of the contract | |
| `AdmissionView` | the refusal codes in order, the mask, the gate stack | `_evaluate`, `packages/risk`, the simulate route |
| `RiskVerifier` | the independent check of the exposure, on one block | `scripts/risk-verifier.mjs` |
| `RiskRound` | the rounds of its watch, one read after the other | the same |
| `PortfolioViews`, `ViewsSafety` | the contract with its log, the rows folded from it, the integrity request, what the pages offer | `workers/api`, `apps/web` |
| `ChainLog` | the chain as the indexer reads it | the contract's and the factory's events |
| `EventLedger` | abstract: what an event ledger promises | |
| `Indexer`, `IndexerSafety` | overlapping invocations over the log | `workers/indexer` |
| `Lifecycle`, `LifecycleSafety` | scan, queue, consumer and key, over orders and markets | `workers/lifecycle` |
| `EventStore`, `EventStoreSafety` | the coordinator's scan, storage and memory | `workers/api/src/coordinator.ts` |
| `SnapshotStream`, `SnapshotSafety` | the coordinator's snapshot, and the browser's | the same, and `apps/web` |
| `Desk`, `DeskSafety` | ticks of the agent over the contract's gates and the API's records | `workers/agent`, the report route |
| `OwnerPages`, `PagesSafety` | a tab with its writes, and the chain behind them | `apps/web` |
| `MCOrders`, `MCPortfolio`, `MCRound`, `MCViews`, `MCIndexer`, `MCLifecycle`, `MCEventStore`, `MCSnapshot`, `MCDesk`, `MCPages` | instances for TLC | |
| `PortfolioProofs` | laws of sums and of rounding; types, lists and books of the contract; exposure, ceiling, nonces, budgets, the verifier and the preview | |
| `ViewsProofs` | the laws of the folds, of sums by parts and of paging; what the views show is the contract's | |
| `IndexerProofs`, `KeeperProofs`, `StoreProofs`, `StreamProofs`, `DeskProofs`, `PagesProofs` | the theorems of the workers and the pages | |

`AirspacePortfolio` extends `DreamDex` and `Sums`: one next-state relation
interleaves agents, keepers, the owner and the venue. `AdmissionView` and
`RiskVerifier` are judgements over its states, without variables of their own;
`RiskRound` composes the latter's reads with the contract's steps.
`PortfolioViews` composes it with its log and a request. `Indexer` extends
`ChainLog`. `Lifecycle`, `Desk` and `OwnerPages` carry the part of the contract
that their actor reads and writes. `Indexer` and `EventStore` each implement
`EventLedger`.

### How state and actions correspond to the code

*Contract.* Storage variables keep their names. `marketState[m].open` is the function of the
four counters `yesLong`, `yesShort`, `noLong`, `noShort` indexed by order kind.
`agentPolicyHash # 0` is the field `registered`. Hashes and gate bit masks
are left out here. A mapping's key that is a hash of several values (`_orderKey`,
`_outcomeId`) is the tuple of those values.

`Execute(a, i)` is one whole call of `execute`: the admission gates in `_evaluate`
(agent, registry, domain, generation, trading, price, grid, capacity), the
reservation, the placement, and the reconciliation with whatever the venue did.
What the venue does with an order is a choice over the quantities filled and left
resting and the collateral taken, within the exact allowance the portfolio
grants; a call that reverts changes nothing and is no step. The reservation of the
whole order, followed by dropping the part that is gone, appears as one update of
each total, with both terms written out. `ReleaseOrder`, `ReleaseSettled` and
`PruneMarket` are the permissionless calls with their guards; the checked
subtraction in `releaseOrder` is a guard. The owner's calls are one action each.

*Venue.* Its own steps are `ExternalFill`, `RemoveOrder` (cancelled by the owner,
or drained after expiry), `Finalize`, `Settle`, `Roll` (a pool goes to its next
market, which the code and its tests take to happen only after the last one is
over and drained), `DepositOutcome` (anyone may transfer tokens to the portfolio)
and `Tick`. The registry is a set of constants (`PoolOf`, `GenOf`, `DomainOf`,
`TradingStart`, `Expiry`): a record never changes once its market exists.

*Workers.* An invocation is a record of local variables with a `pc`; every `await`
ends a step, so that whatever else runs comes in between. A Durable Object's input
gate, which holds other events back while storage is written, is a guard
(`Storing`). Faults (a failed read, a dead invocation, an evicted object, a late
receipt, an old message) are actions of their own, counted by `MaxFaults`. A
transaction that is out sits in a set until it is mined against the state it then
finds.

*Verifier.* With `--block` all reads name one block, and `RiskVerifier` judges one
state. A watch (and a single sample without `--block`) reads at the latest block:
`RiskRound` has one step per awaited read, in the code's order, and any step of
`AirspacePortfolio` between two of them. The logs of some range may be missed, a
failed read of an order counts as nothing open, and any other failed read ends the
round without a verdict (`AbandonRound`). Two of its fields are history: `moved`, the
markets overtaken since the round began, and `accused`.

*Time.* A tick of the agent remembers when it picked its market; the chain's clock is
the worker's. `Evaluate` has the agent's gates and those of time in the contract's
order. On the room's tab one window, which may close once, stands for the market's
end, the headroom and the policy's term, and a flag that others set for every other
gate.

*Pages.* Each `useWrite` hook is a phase in `shown`; each write under way is a slot
of `flows` that goes through nonce, simulate, wallet and receipt, whether or not
its page is still open. `seen` is what the queries last answered.

Mutant operators in these modules are named variants of a definition with a
plausible bug; no run uses them, they exist to show that each property can fail.

## 3. Runs

| Run | Question | Bounds |
|---|---|---|
| `recycling` | Do books, exposure, lists, pins, ceiling and the verifier stay right when a pool and its order ids are used again? | 2 successive markets on one pool in one domain, 1 agent, orders of every kind of size 1 or 2, 2 ids per generation, ceiling 3, deposits of 1 |
| `policies` | Do budgets, cooldowns, expiry, nonces and the preview hold while the owner changes everything, and which changes can make a watch round of the verifier accuse a sound market? | 2 agents, 1 market, 2 orders of size 2, transfers of 2; the full `Spec` from the deployed state with a clock of 2 and two global policies, and the rounds of a watch, all reads apart, over a funded portfolio |
| `stuck_reservation` | Can a stuck reservation always be cleared? (violated) | 1 market, 3 orders |
| `transfer_in` | Is an admitted order always within the ceiling? (violated) | 1 market, 2 orders, deposits of 2 |
| `views` | Do the rows explain the contract, and does what is offered work? | 1 market to its end, resolved or voided, 2 orders, 1 integrity request, 5 transactions that emit logs, a history 1 of them behind, pages and answers of 1 row, any set of failed reads |
| `indexer` | Are logs neither skipped nor applied twice, are the rows the contract's, is the head reached? | 2 invocations, 4 blocks, window 3, chunk 2, 2 faults and 1 rewind up to height 2 |
| `indexer_crash` | Is a log retried when its invocation dies? (violated) | 1 invocation, 3 blocks, 1 crash |
| `keeper` | Are dead orders and spent markets cleared at last, with no nonce skipped and no live row retired? | 1 order whose row may be wrong, 1 event of the venue, 1 fault, 1 retry |
| `store` | Is nothing missed below the checkpoint, is complete current, does a watcher catch up? | 5 blocks, windows of 1, nodes trail by 1, overlap 1, 1 request, 1 fault |
| `stream` | Is an unmarked snapshot verified, and does a browser end with the latest? | 1 new version, 1 frame kept, other visitors, 1 fault of any kind |
| `desk` | Are decisions recorded and shown as they were, does the desk pay only when overtaken, by others or by time, and does it back off until it rests? | 2 overlapping ticks, ceiling of 1 order, bands 60 and 200, 1 fault or 1 move, a clock of 4, a market that ends at 4 and is picked with 3 left, headroom 2, cooldown 1, a policy that ends at 1 or later |
| `pages` | Can an owner rely on old figures and abandoned pages? | a tab on each page, 2 writes (3 in the control room), 1 move, 2 saved names |

Why these bounds are enough to be interesting:

* *Contract.* Prices are 1 with `One = 2`, so that an order of one contract costs
  half a unit and is rounded up, and releasing half of a two-contract order divides
  an odd amount. Ceiling 3 admits some pairs of orders and refuses others; two ids
  per generation collide after a recycle; the two markets of one domain make swap
  and pop move something; intents name any generation, so that stale ones are
  proposed. In `policies` the tight settings refuse at each limit and the loose
  ones let what was refused through; nothing is admitted once the market is
  settled, so settled markets are looked at under one setting only
  (`SettledLast`). Agents are interchangeable there (`AgentSymmetry`). Its second
  scenario, told apart by the global policy (`Watching`), is the verifier's.
  `recycling`, the two violations and `views` start from a configured and funded
  portfolio (`EnvelopeInit`, which the owner's calls reach from `Init`).
* *Views.* The log is one sequence; an order's two or three logs count as one transaction
  and a history ends between transactions (`Cuts`). Two orders of size 2 with one nonce
  each fill, are released in part and are redeemed; pages of one row make paging matter;
  an answer of one row is shorter than the list, as the newest 100 of the code are
  (`MaxRows`); the log starts with the agent's and the domain's settings, and after one more log of
  any kind (a ceiling taken away, an agent revoked, capital moved) only orders, releases
  and the market's end still come (`OwnerFirst`).
* *Indexer.* A window of 3 over chunks of 2 leaves a chunk boundary inside a window
  and a second window for the fourth block; two invocations overlap in every
  position; a fault with a rewind needs two blocks to show.
* *Keeper.* A row that may be wrong (`Ghosts`) is what the suspect path is for; two
  messages and a retry fit a backlog, a batch and the dead-letter queue.
* *Store, stream.* Windows of one block with two read together fail separately; a
  head of five outruns what one call scans; one version and one frame are enough for
  an older answer to overtake a newer one.
* *Verifier.* With one market a round that has been overtaken can show nothing more
  (`StillTelling`); the run goes on from the next one. Buys and sells rest, fill in part,
  are cancelled and released, tokens are withdrawn and the market settles between any two
  of the reads, at one time.
* *Desk.* One order fills the ceiling, so two overlapping ticks always compete; of the
  two bands one is inside the default offset and one is not. Three, two, one
  and no time units are left of a market, so that each gate of time shuts in turn, the
  policy's before them where it ends at 1. The clock runs to its end while nothing fails
  and nobody else moves; otherwise it stands still, but for one second under others' moves
  (`OneTrouble`).
* *Pages.* Two writes of one page include a repeated one while the first is out; the
  control room's unguarded button needs three; its window closes at some point. Two saves
  of one card and one of a registration are under way together.

`MaxOrders`, `MaxNonce`, `MaxGen`, `MaxTime`, `MaxHeld`, `MaxBlock`, `MaxVersion`,
`MaxRecords` and `MaxLog` bound what would grow without end. Systems that stop when
the bounds are used up do not check for deadlock.

### Fairness

* *Indexer*: `Begin(w)` and `Step(w)` are weakly fair. The cron starts an
  invocation every minute, and an invocation either gets on or dies.
* *Keeper*: the cron (`Scan`), the queue's consumer, the chain (`Mine`) and the
  indexer (`Index`) go on; time passes (`Age`); and the queue delivers every message
  (`Receive`, strongly fair, since the consumer is in and out of work). The venue
  and the faults need do nothing.
* *Store*: a scan under way goes on, an alarm that is set rings and is set again.
  Nobody has to ask for a view.
* *Stream*: the same for the alarm and each refresh; frames arrive; a browser whose
  socket is closed opens another; a snapshot's age grows.
* *Desk*: ticks start and go on, blocks are closed.

The portfolio, the verifier, the views and the pages are checked for safety only.

### What they show

* `NeverUnderstates` is the contract's central promise ("uncertainty overstates, never
  understates"): for every subset of the resting orders that fills while the
  others come back, the position reached is inside the exposure charged.
  `KnownMarketKeepsCeiling`: after any admitted order on a market that is tracked
  or untouched, the usage the domain reports is within the ceiling.
* `RecordsCoverOrders`, `ReservationsMatchRecords`, `ReservedMatchesRecords`,
  `AttributionCoversReservations`: the records cover the book, and each running
  total agrees with the records. `DomainListsMatchTracking`,
  `PinnedToItsGeneration`: list and pin bookkeeping.
  `AdmissionKeepsBudgets`, `OneOrderPerNonce`: what an order raises (its agent's share,
  the reserved collateral, the committed capital) stays within the agent's, the global
  and the domain's limit after reconciliation, and so does the number of live markets;
  replay protection. The instance of `policies` has one market, so that the limit on
  live markets is there but cannot be passed; the theorem covers it.
* `VerifierJudgesRight`: on one block, while the pools are on the generations of their
  markets, the enumeration of sixteen ends reaches what the open orders can do, and the
  verifier accuses nobody, whichever logs and orders it misses. In a watch this is not
  so (see the end of this section): `AccusesOnlyTheOvertaken` names the changes that can mislead a
  round: an order placed on the pool, tokens that come or go without a trade, a
  settlement that is booked, a pool that moves on. Fills, cancellations, drained orders
  and released reservations never do, wherever they fall between the reads: the figure
  is read before the balances and the orders after them, so that a fill in between is
  counted in one place at most. That a domain's total understates follows from one of
  its markets; that `domainRiskUsage` equals the sum printed beside it is claimed of one
  block alone.
* `CleanStackMeansAdmitted`: what the product shows as admissible is what
  `execute` admits, refusals without a row included.
* `ImplementsLedger` (indexer and store), `CursorCoversLogs`, `NoLogMissed`,
  `CompleteMeansCurrent`: the two readers of the log keep the promises of
  `EventLedger`. `TablesMatchTheContract`: without faults the rows at rest are the
  contract's, although positions are read from the latest block while older logs
  are still projected.
* `HistoryExplainsTheContract`, `IndependentAgrees`, `AlarmOnlyWhileMoving`: what is folded
  from the log is what the contract holds, and an alarm means movement. The card of an
  agent asks once, for what the route cuts to the newest 100 rows: it never shows more
  than the agent's records hold, and all of it while no open row is older than those.
  `IndependentAgrees` does not speak of domains with an order left behind by a settled
  market.
* `OfferedIsReleasable`: a row whose own reads went through is offered for release only
  when the contract could free it; whichever reads fail, what is pending is offered on
  a page, and by the control room's panel while no open row is older than its newest
  100, and a resting order can be cancelled. `OfferedRedeemPays`: what a shown button
  redeems is worth something. A void is the exception it states: it pays half, rounded
  down, so that a single base unit of the winning side redeems for nothing. It does not
  say that every token is offered: after the first `Redeemed` log a row hides its
  buttons, even if a part is left, and a pruned market has no row.
* `PaysOnlyWhenOvertaken`, `RevertsOnlyIfOvertaken`: a transaction of the agent or of a
  page that was possible when it was simulated reverts only when another change, or the
  time it took, overtook it. For the agent the time is bounded: a market picked with
  90 seconds left has 30 to spare over a headroom of 60.
* `SavedNameStays`: saves overlap, for Enter saves whatever is under way. Once the last
  confirmed one was not overtaken and no other that the route may still accept (five
  minutes) is about, its name is what is stored, until the next save begins.
* `DeadOrdersAreReleased`, `SpentMarketsAreSettled`, `CatchesUp`,
  `ConnectedCatchesUp`, `ConnectedSeesTheLatest`, `WidensUntilItRests`: what must
  happen at last, through the faults of the instance.

### Disagreements with the documentation

1. **A reservation can become impossible to clear.** `releaseSettled` zeroes a
   market's counters and leaves its order records; `releaseOrder` on such a record
   then subtracts from zero and reverts (`AirspacePortfolio.sol:919`).
   `ARCHITECTURE.md:175-177` says any party can clear a stuck reservation. The
   trace: an order rests, the market settles, `releaseSettled`, the order leaves the
   book. The market's exposure is right (it is settled), but the record and its
   share of `reservedCollateral`, which gates later buys, stay.
2. **An admitted order can leave a domain over its ceiling** when the portfolio
   held outcome tokens of a market before its first order there: an untracked market
   is projected from zero (`AirspacePortfolio.sol:617`), then measured from the
   balance. `SECURITY.md:159-160` states the guarantee without that condition.
   `KnownMarketKeepsCeiling` is the guarantee with it.
3. **A log's projection can be lost.** When an indexer invocation dies after the
   event row is inserted, the retry takes the log for a duplicate and never projects
   it (`workers/indexer/src/index.ts:258`); lines 397-398 say a throw leaves the
   block "retried rather than lost".

### Seen while modelling, without a run of their own

* *Contract*: `agentCommitted` is never reduced by releases or redemptions
  (`AirspacePortfolio.sol:764`); quantities are cut to 128 bits for the counters but not for
  the venue (618); a price above one reverts the preview of a NO order (698). The
  refund (856) and the clamp of the total (926) are harmless: `TypeCorrect` and
  `EscrowCorrect` prove it.
* *Indexer*: a partial release marks the row `FINALIZED` (762); errors of three database
  calls are dropped (139, 480, 760); a pruned node makes the search for the
  deployment block skip towards later blocks, where the comment says it errs towards
  scanning again (327).
* *Keeper*: jobs are keyed without the portfolio (508); rows beyond the query's limit are
  taken in no order (151); a release job after `releaseSettled` is retried until it is
  dead-lettered (567).
* *Views*: **a live order can be offered for release.** `overlayReservation` takes a failed
  read of the pool or of the order for an order that is gone
  (`workers/api/src/portfolio-live.ts:88-104`), so that its row needs reconciliation, and
  `releaseOrder` would revert; `apps/web/src/components/reconciliation.tsx:213` says a
  reservation is offered "only when the contract itself could free it". This is why
  `OfferedIsReleasable` sets the rows with a failed read apart (`offered \ failed`).
* *API*: the overlap of two scans covers nodes that trail by at most 12 blocks; with more
  an event can be missed for good, which is the hypothesis of the store's theorems.
  A marked snapshot counts as fresh; a fetch and a frame may arrive in either
  order; `/invalidate` has no caller; a history 200 blocks behind may report a
  mismatch; lists that reorder on activity can hide a row from a reader that pages
  by offset; `revokeAgent` gives an address that was never set a policy hash, but no log
  that lists it (`AirspacePortfolio.sol:394`), which is harmless, as it cannot trade.
* *Agent*: an identical intent of an overlapping tick leaves a refusal beside an admitted
  receipt; a venue's own revert is filed as a contract refusal; a send that failed
  may have landed; the offset stays when its price is out of range; a replay at the
  end of a block may give another code than the one the transaction met.
* *Pages*: renewing the global policy overwrites it with defaults; `maxLiveMarkets` is taken
  from the live count; a label edited while a creation is under way leads elsewhere;
  a timeout reads "Transaction failed"; the row button can send a `releaseSettled`
  that reverts; Cancel on a record of a recycled pool would cancel a newer order
  with the same id; a verdict stays shown for an edited form; two saves of a name that
  overlap may end with the older one; Place order leaves its
  button free while the nonce is read again.
* *Risk verifier*: **a watch can stop the campaign over a sound deployment.** Its reads are
  made at the latest block, one after the other (`scripts/risk-verifier.mjs:406`). The
  contract's figure for a market is read, an order is placed there or tokens arrive, and
  the balances or the book read next show them; line 420 then prints that "the
  deployment understated independent worst-case exposure". This is why
  `AccusesOnlyTheOvertaken` has its condition. Over a recycled pool an order of its index may be read as one of the
  next market's; it is judged while the pool is on the market's generation, and a market
  whose pool has moved on counts as overtaken.

## 4. Proofs

Each theorem is about the specification of its module for all values of the constants
that satisfy the named assumptions of the modules (which every run evaluates): any
number of markets, orders, agents, logs, jobs, calls, ticks or writes, any prices and
quantities, any bounds. The views add that agents and domains are finitely many
(`ViewsAssumption`): they are addresses and hashes of fixed width, and a page adds them up.

| Theorem | States | Module | Run |
|---|---|---|---|
| `TypeCorrect` | `[]TypeOK` | `PortfolioProofs` | `recycling` |
| `ListsCorrect` | `[]DomainListsMatchTracking` | | |
| `EscrowCorrect` | `[]ReservedMatchesRecords` | | |
| `ReservationsCorrect` | `[]ReservationsMatchRecords` | | |
| `CoverCorrect` | `[]RecordsCoverOrders` | | |
| `AttributionCorrect` | `[]AttributionCoversReservations` | | |
| `PinningCorrect` | `[]PinnedToItsGeneration` | | |
| `ExposureCorrect` | `[]NeverUnderstates` | | |
| `CeilingCorrect` | `KnownMarketKeepsCeiling`, of steps | | |
| `UsageCorrect` | `UsageRisesOnlyWithOrders`, of steps | | none |
| `VerifierCorrect` | `[]VerifierJudgesRight` | | `recycling` |
| `RoundAccusesRightly` | `[]AccusesOnlyTheOvertaken` of `RoundSpec` | | `policies` |
| `NonceCorrect` | `OneOrderPerNonce`, of steps | | |
| `BudgetsCorrect` | `AdmissionKeepsBudgets`, of steps | | |
| `PreviewCorrect` | `[]CleanStackMeansAdmitted` | | |
| `ViewsInvariant` | `[](CeilingInv /\ LogInv)` | `ViewsProofs` | |
| `HistoryCorrect` | `[]HistoryExplainsTheContract` | | `views` |
| `SecondOpinionCorrect` | `[]IndependentAgrees` | | |
| `RedeemCorrect` | `[]OfferedRedeemPays` | | |
| `AlarmCorrect` | `[]AlarmOnlyWhileMoving` | | |
| `OfferedCorrect` | `[]OfferedAreReleasable`: `OfferedIsReleasable` without `ENABLED` | | |
| `IndexerCoversLogs` | `[]CursorCoversLogs` | `IndexerProofs` | `indexer` |
| `IndexerImplementsLedger` | `ImplementsLedger`: `EventLedger` is implemented | | |
| `IndexerTablesMatch` | `[]TablesMatchTheContract` | | |
| `KeeperNoNonceGap` | `[]NoNonceGap` | `KeeperProofs` | `keeper` |
| `KeeperRetiredHasNoRecord` | `[]RetiredHasNoRecord` | | |
| `StoreTypeCorrect` | `[]TypeOK` of the store | `StoreProofs` | |
| `StoreMissesNoLog` | `[]NoLogMissed` | | `store` |
| `StoreCompleteIsCurrent` | `[]CompleteMeansCurrent` | | |
| `StoreImplementsLedger` | `ImplementsLedger`: `EventLedger` is implemented | | |
| `StreamTypeCorrect` | `[]TypeOK` of the stream | `StreamProofs` | |
| `StreamUnmarkedIsVerified` | `[]UnmarkedIsVerified` | | `stream` |
| `DeskTypeCorrect` | `[]DeskTypeOK` | `DeskProofs` | |
| `DeskPaysOnlyWhenOvertaken` | `[]PaysOnlyWhenOvertaken` | | `desk` |
| `DeskStarvedOnlyByMore` | `[]StarvedOnlyByMore` | | none |
| `DeskRecordedCodeIsTheRevert` | `[]RecordedCodeIsTheRevert` | | `desk` |
| `DeskSentOnceShowsItsDecision` | `[]SentOnceShowsItsDecision` | | |
| `PagesTypeCorrect` | `[]PagesTypeOK` | `PagesProofs` | |
| `PagesDepositsWithinApprovals` | `[]DepositsWithinApprovals` | | `pages` |
| `PagesRevertsOnlyIfOvertaken` | `[]RevertsOnlyIfOvertaken` | | |
| `PagesOneWritePerButton` | `[]OneWritePerButton` | | |
| `PagesLandOnTheirPortfolio` | `[]LandsOnItsPortfolio` | | |
| `PagesSavedNameStays` | `[]SavedNameStays` | | `pages` |

### The contract

*Types and lists.* Types alone are not inductive: `pruneMarket` reads the last
element of a list and overwrites the slot of the pruned market, which is in range
only if lists and slots match. The inductive invariant is `TypeInv`, their
conjunction, with one lemma per action (`ExecuteTypes`, `ExecuteLists`,
`ReleaseOrderTypes`, `ReleaseSettledTypes`, `PruneMarketTypes`, `OwnerTypes`,
`VenueStepTypes`). `TypeCorrect` says in particular that the refund in
`_reconcile`, the release of a share and the clamped totals stay in the naturals.

*Books.* `BooksInv` adds to `TypeInv` the five properties about records, totals and
pins and three facts none of which the contract checks:

* `PastMarketsOver`: a pool has moved on from a market only if that market is
  settled or past its expiry. With the trading gates it follows
  (`AdmittedIsCurrent`) that an admitted order is for the market its pool hosts now,
  so that its record names the right market and the pin is the right generation.
* `IdsInOrder`: no record has the key the next order will get. Otherwise a recycled
  pool's repeated ids would overwrite a record and the sums would drift.
* `RecordsPay`: unit price times the record's whole open quantity is at most its
  collateral. `RecordsCoverOrders` itself is not preserved by `releaseOrder`, because
  what is released is a share of the record, which may be larger than what rests.

`StepKinds` reduces every step to three: one that places an order, one that
releases a record, and a quiet one (`QuietPortfolio`, `QuietVenue`). A step changes at
most one record, and `SumsMove` says how each of the three sums moves with it. The
laws of `Sum` come first in `PortfolioProofs`, with those of the rounding: the escrow
of an order is the least whole amount covering it (`ReserveType`, `ReserveLeast`) and
a proportional release rounded down leaves enough for what still rests
(`ShareKeepsCover`).

*Exposure.* `ExposureCorrect` is a consequence of `BooksInv`: each resting order has
a record of its own (`KeyOf` is injective on the orders of one generation), so that
the orders of a kind rest for at most the counter of that kind
(`RestsWithinOpen`, with `SumThrough`), and any mixture of fills lies between the
bounds (`WithinInterval`).

*Ceiling.* `CeilingInv` adds to `BooksInv` that the portfolio marks a market settled
only once it is (`SettledForGood`) and that a market which is not tracked has nothing
reserved (`UntrackedEmpty`): an untracked market is projected from zero, and with no
tokens held zero is right. Only `execute` places an order (`PlacedByExecute`), the
order's market is measured at no more than was projected for each of the four kinds
(`ProjectionHolds`), the other markets of the list keep their exposure because their
tokens are different (`OthersKeepRisk`), and one slot of the domain's sum changes or
one is appended (`UsageHolds`). The condition on the market is where the proof needs
it, and dropping it is the second disagreement of section 3. `UsageCorrect` and
`BudgetsCorrect` follow the same split of the steps, and `NonceCorrect` needs only that
`agentNonce` never falls. `BudgetsCorrect` takes three more facts: an order that sells
commits nothing and one that buys at most its reserve (`CommitmentHolds`), an agent's
share is what was admitted, and only the order's own slot can begin to carry exposure,
which the gate has counted (`LiveMarketsHold`). The floor of free collateral is not
part of it.

*Verifier.* `LargestOfSixteen`: the largest of the sixteen ends is `WorstCase` of the
quantities found open, because each end is between the bounds and both bounds are
ends. What is found open is at most the counters (`LiveWithinOpen`), every resting order
is found (`RestingFound`), and the domain's sum over slots is the sum over the sampled
markets, in both directions (`UsageIsAccounted`). An order that is
missed is only taken away from what is found open.

*Rounds.* `RoundInv` says, of the market at hand while nothing has overtaken it, that the
contract's figure, once read, bounds both ends of what the reads still to come can find:
the balances that are read, or would be read now, with the orders found open and those
still to be looked up counted as they rest now (`Highest`, `Lowest`, `Bounded`). A fill
moves its quantity from the book to a balance, a cancelled sell its escrow; whichever of
the two is read already, the sum does not grow (`StepSettles`, `BoundKept`), because an
order is looked up after both balances. When the figure is
read the contract's own counters cover all of it (`RestsWithinCharge`), or the market
has been pruned since and nothing of it is left (`Empty`). `Overtakes` is what is left of the steps.

*Preview.* `GatesInOrder`: the 27 gates, one after the other, all pass exactly when
`Admissible` holds. An intent that is refused has a first failing gate, and the rows
are highlighted for it (`RefusalShows`); an admitted one shows none (`AdmissionShows`).

### The views

*The invariant.* The contract's invariant says nothing of the log, and the five
properties of the views say nothing of the logs still to come. `LogInv`, which goes with
`CeilingInv`, says what makes the next step of a fold the right one: logs carry what their
names promise (`Logs`); an intent in the log has a nonce its agent's watermark covers
(`HashesUsed`), so that an admission is new to the log and the order of each intent is
admitted once (`AdmittedOnce`); the open rows are the records, with their agents, markets,
domains and kinds (`RowsMatch`), also when a recycled pool's id returns to a closed row;
the tracked rows are the tracked markets (`TrackedMatch`); the last policies and the
registrations are the contract's (`SettingsMatch`); and a request that has seen the whole
log has read the total it explains (`AskMatch`). Each transaction has a lemma
(`ExecutedStep`, `ReleasedOrderStep`, `PrunedStep`, `PolicyStep`, `AgentStep` and the rest),
and `ViewsAreSteps` says that a step with its log is a step of `AirspacePortfolio`, so that
`CeilingInv` is not proved again.

*The folds* are recursive functions on `0 .. Len(log)`. That such a function is defined at
every length needs an induction; `Induction` is the one over the naturals for a set, which
follows from the existence of a least element and needs no operator as a parameter.
`ReservationRecursion` and `TrackedRecursion` are the folds' equations, `ReservationStep`
and `TrackedStep` the effect of one more log. A row reads the admission of its intent
anywhere in the history, so that rows stay the same when the history grows only because
an admission that is in it stays the one (`AdmissionStays`).

*What is shown.* `SumOfParts`: a sum is the sum of the sums over its parts, which takes an
agent's card through its domains (`CardIsRecords`). For the second implementation of the
exposure, what the rows hold open of a market in each of the four kinds is the market's
counter (`PendingIsOpen`), and the markets of its union are the slots of the domain's list
(`ReconstructionIs`, `PositionsAreUsage`). `LineCovers` shows the segments cover the usage.
`PagesShowAll`: every row is on the page at one of the offsets the pager reaches, whatever
the page size. With it `AllListed` lets `OfferedCorrect` and `RedeemCorrect` speak of
records and markets instead of pages. `OfferedAreReleasable` is `OfferedIsReleasable` with
the guards of `releaseOrder` (`Releasable`) in the place of `ENABLED ReleaseOrder(k)`.

### The workers

*Indexer.* The theorems assume `Dependable`: the node answers for the factory's block and
the selects and upserts of `portfolios` do not fail. Without them a portfolio is
silently unknown to an invocation that still moves the cursor. Cursor reads and
writes, projections and everything else may fail, and invocations overlap, crash and
are rewound. `IndexerInv` says that a log is no higher than the head and no lower than
its portfolio's creation (`ChainInv`); that the logs below an invocation's chunk are
recorded and those of the chunk recorded or still to do, with their portfolios known
(`RunCovers`); that the same holds below the cursor (`CursorCovers`); and that a log
somebody is projecting has not been projected, and by nobody else (`AppliedOnce`). The
refinement rests on it: every step is a publication, a claim, an application, a
movement of the watermark or a stutter of `EventLedger`.

`IndexerTablesMatch` needs two more invariants. `HistoryInv` is what the logs say of the
contract: an order is admitted once, in the block that reconciles it; a market is
tracked from an order's log until its pruning, and settled for good. `RowsInv` says what
each row is while no fault has happened (`Faithful`): invocations then take turns and go
through the logs in order, so that the log under way is the last one recorded and all
earlier ones are projected. Between the two logs of an order its intent is remembered;
an order row holds the latest open quantity among the projected logs; a position row,
which is read at the latest block and may be ahead of the log, is of a tracked market or
of one whose pruning is still to be projected; a settled row has a log that says so. At
rest all logs are projected, and the rows are the contract. An overlap of two
invocations counts as a fault, because it breaks the order. TLC checked both
invariants with the bounds of the run.

*Keeper.* `NextNonceIsPending`: between two jobs the sequence is at the pending nonce of
the chain; during a submission it is one ahead and nothing has been skipped; a send
that fails throws the sequence away. `SuspectHasNoRecord`: between the simulation that
found nothing and the update of the row, no transaction gives the order a record again.

*Store.* The theorems other than types assume `Lag <= Overlap`, that is, nodes trail by
no more than what the next scan reads again; a larger lag loses events, as section 3
says. The scan under way covers, with what memory holds, everything below its next
window, whatever part of storage an eviction has left behind (`ScanCovers`), and memory
is filled only from storage or from such a scan (`MemoryFilled`).

*Stream.* Only a call that has a verdict reads (`ReadersAreVerified`), and an isolate
that has `current` as its verdict is not on a superseded factory, since a redeployment
takes its memory (`VerdictHolds`). A snapshot from storage is marked.

*Desk.* `UnmovedGoesThrough`: a transaction whose tick has seen no move since its
estimate would still be admitted, or would be refused by a gate of time that has shut
since; the time that takes is measured from when its market was picked. `CleanReplays`: where nothing followed in the block,
what the API replays is the state the transaction met. `UnrepeatedIsAlone`: an intent
that was sent once has no other trace in mempool, log or records.

### The pages

`AllowanceIsLeft`: what is deposited, with the allowance that is left and what
approvals under way may add, is within what was typed. `UnmovedCanBeDone`: the
simulated call of a write that nobody overtook can still be done, unless it is an order
whose window has closed. `HeldWhileWriting`: a
button's hook is busy while a write of the open page is. `LabelKept` ties the label on
the form to the creation under way. `NamesInOrder`: requests are numbered, a confirmed save
that nothing overtook has stored its name, and while its confirmation counts no request
is about that the route would accept. Each
is inductive together with `Typed`; actions are grouped by what they leave alone
(`WriteQuiet`, `ScreenQuiet`, `ChainQuiet`, `NamesAside`).

### Left to TLC

* Liveness: `DeadOrdersAreReleased`, `SpentMarketsAreSettled`, `CatchesUp`,
  `ConnectedCatchesUp`, `ConnectedSeesTheLatest`, `WidensUntilItRests`. The prover has no
  rules for fairness and `ENABLED`.
* `OfferedIsReleasable`, which uses `ENABLED`. All else that it says is
  `OfferedCorrect`; that the guards of `ReleaseOrder` enable it is left to the run.
* `BisectionIsRight`: that the binary searches for the deployment block end where
  `FindDeploymentBlock` says, evaluated over bounded inputs.
* The properties of the three violations, which are false.

## 5. Not modelled

* *Contract*: `ownerCall` (an arbitrary call by the owner), `initialize` as a step,
  integer widths; prices above `One` and kinds above 3, which the contract refuses or
  reverts on. The log `IntentRefused` is rolled back by the revert that follows it, so
  that nobody reads one; logs that no fold reads carry a name alone.
* *Venue*: fees, self-matching, other traders' orders, collateral transferred into the
  portfolio outside `fund`.
* *Cadence and domain keys*: `DomainOf` is a constant. *Factory*: address derivation.
* *Indexer*: reads of one call to the node that are torn across blocks.
* *Keeper*: the key itself, its gas and balance; the query limit of 500 rows stands as
  `Limit`; prune jobs are modelled, but the instance has too few markets to reach them; finished
  job rows go at some time, rather than after three days.
* *Risk verifier*: the figures of its report that are only printed (`MISMATCH` among them,
  when the reads are of several blocks), the evidence file, the time limits of a watch.
* *API*: the registry and the read-only routes; a failed read of a record or a balance,
  which fails the whole answer; `/invalidate`, which nobody calls. Views start from
  the history in order (`byPosition`), with one transaction in a block.
* *Agent*: the choice of a market and the strategies' signals; reads that throw before a
  send end the tick. The contract is reduced to the gates that others and time
  move (a market that resolves before its end is left out), its clock is the worker's, and
  two transactions in the mempool that are equal count as one.
* *Pages*: one row per cancelled id; the wallet "other" also stands for none or a wrong
  network; one market in the room's tab, whose window closes once; more than two saves of
  a card at a time; what the route that stores a name awaits is one step; everything that
  is only shown.
* *Scripts* other than the verifier, `engineering`, encodings and typed wrappers.

## 6. What could come next

* *Envelope*: an abstract specification of the shared envelope (agents, one ceiling, a
  set of reserved orders) that `AirspacePortfolio` implements.
* *Desk and stream*: that an admitted intent is placed once; that frames never go back
  to a version older than the one a browser asked for.
