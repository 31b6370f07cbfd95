------------------------------ MODULE ChainLog ------------------------------
(***************************************************************************)
(* The chain as the off-chain workers read it: an append-only set of logs, *)
(* numbered by block and position, that the factory and its portfolios     *)
(* emit, one transaction a block.  The contract's own state is kept only   *)
(* as far as a later transaction or a worker's read depends on it: what an *)
(* order record still holds open, and whether a market is tracked.         *)
(***************************************************************************)
EXTENDS Integers, Sequences, FiniteSets

CONSTANTS
  Portfolios,    \* portfolios the factory may create
  Markets,       \* market ids of the venue
  Orders,        \* an admitted intent and the order it rests, one identity
  NoMarket,      \* a log that names no market
  NoOrder,       \* a log that names no order
  OwnerOf,       \* [Orders -> Portfolios]
  MarketOf,      \* [Orders -> Markets]
  MaxQty,        \* bound: quantity an order leaves resting
  MaxBlock,      \* bound: height of the chain
  Transactions   \* the kinds of transactions of an instance

ASSUME OrdersAssumption ==
  /\ OwnerOf \in [Orders -> Portfolios]
  /\ MarketOf \in [Orders -> Markets]
  /\ NoMarket \notin Markets
  /\ NoOrder \notin Orders

ASSUME BoundsAssumption == MaxQty \in Nat /\ MaxBlock \in Nat

VARIABLES
  head,     \* height of the chain
  logs,     \* every log emitted so far
  record,   \* record[o]: quantity orderRec holds open for o
  market    \* market[<<p, m>>]: what marketState says of m

chainVars == <<head, logs, record, market>>

Events ==
  {"PortfolioCreated", "Initialized", "AgentSet", "AgentRevoked", "DomainPolicySet",
   "MarketTracked", "IntentAdmitted", "IntentReconciled", "ReservationReleased",
   "SettledExposureReleased", "Redeemed", "MarketPruned"}

Log == [block : Nat, index : Nat, event : Events, portfolio : Portfolios,
        market : Markets \cup {NoMarket}, order : Orders \cup {NoOrder}, qty : Nat]

(* What one call emits, before the block numbers it. *)
Entry(e, p, m, o, q) == [event |-> e, portfolio |-> p, market |-> m, order |-> o, qty |-> q]

Of(e, p)          == Entry(e, p, NoMarket, NoOrder, 0)
OfMarket(e, p, m) == Entry(e, p, m, NoOrder, 0)
OfOrder(e, o, q)  == Entry(e, OwnerOf[o], MarketOf[o], o, q)

(* One transaction is mined: its entries become the logs of the next block. *)
Mine(kind, entries) ==
  /\ kind \in Transactions
  /\ head < MaxBlock
  /\ head' = head + 1
  /\ logs' = logs \cup
       {[block |-> head + 1, index |-> i, event |-> entries[i].event,
         portfolio |-> entries[i].portfolio, market |-> entries[i].market,
         order |-> entries[i].order, qty |-> entries[i].qty] : i \in DOMAIN entries}

(* (block, logIndex), the order of execution. *)
Before(k, l) == \/ k.block < l.block
                \/ k.block = l.block /\ k.index < l.index

Blocks(from, to) == {l \in logs : l.block \in from .. to}

FactoryLogs(from, to) == {l \in Blocks(from, to) : l.event = "PortfolioCreated"}

PortfolioLogs(ps, from, to) ==
  {l \in Blocks(from, to) : l.event # "PortfolioCreated" /\ l.portfolio \in ps}

Created   == {l.portfolio : l \in FactoryLogs(1, head)}
Placed(o) == \E l \in logs : l.event = "IntentAdmitted" /\ l.order = o

CreatePortfolio(p) ==
  /\ p \notin Created
  /\ Mine("create", <<Of("Initialized", p), Of("PortfolioCreated", p)>>)
  /\ UNCHANGED <<record, market>>

(* marketState(m).tracked *)
Tracked(p, m) == market[<<p, m>>] \in {"tracked", "settled"}

(* An admitted order rests q of its quantity; its market is tracked first. *)
Execute(o, q) ==
  LET p == OwnerOf[o]
      m == MarketOf[o]
      tracking == IF market[<<p, m>>] = "untracked" THEN <<OfMarket("MarketTracked", p, m)>> ELSE <<>>
  IN /\ p \in Created
     /\ ~ Placed(o)
     /\ market[<<p, m>>] \in {"untracked", "tracked"}
     /\ Mine("execute", tracking \o <<OfOrder("IntentAdmitted", o, 0), OfOrder("IntentReconciled", o, q)>>)
     /\ record' = [record EXCEPT ![o] = q]
     /\ market' = [market EXCEPT ![<<p, m>>] = "tracked"]

(* releaseOrder finds `left` of o still on the book and lets the rest go; once
   releaseSettled has zeroed the market's counters its subtraction reverts. *)
ReleaseOrder(o, left) ==
  /\ left < record[o]
  /\ market[<<OwnerOf[o], MarketOf[o]>>] = "tracked"
  /\ Mine(IF left = 0 THEN "release" ELSE "partialRelease",
          <<OfOrder("ReservationReleased", o, record[o] - left)>>)
  /\ record' = [record EXCEPT ![o] = left]
  /\ UNCHANGED market

ReleaseSettled(p, m) ==
  /\ market[<<p, m>>] = "tracked"
  /\ Mine("settle", <<OfMarket("SettledExposureReleased", p, m)>>)
  /\ market' = [market EXCEPT ![<<p, m>>] = "settled"]
  /\ UNCHANGED record

Redeem(p, m) ==
  /\ p \in Created
  /\ Mine("redeem", <<OfMarket("Redeemed", p, m)>>)
  /\ UNCHANGED <<record, market>>

PruneMarket(p, m) ==
  /\ \/ market[<<p, m>>] = "settled"
     \/ /\ market[<<p, m>>] = "tracked"
        /\ \A o \in Orders : OwnerOf[o] = p /\ MarketOf[o] = m => record[o] = 0
  /\ Mine("prune", <<OfMarket("MarketPruned", p, m)>>)
  /\ market' = [market EXCEPT ![<<p, m>>] = IF @ = "settled" THEN "closed" ELSE "untracked"]
  /\ UNCHANGED record

(* The owner configures its one agent and its one domain. *)
Configure(p, e, q) ==
  /\ p \in Created
  /\ Mine("configure", <<Entry(e, p, NoMarket, NoOrder, q)>>)
  /\ UNCHANGED <<record, market>>

SetAgent(p)           == Configure(p, "AgentSet", 0)
RevokeAgent(p)        == Configure(p, "AgentRevoked", 0)
SetDomainPolicy(p, q) == Configure(p, "DomainPolicySet", q)

ChainInit ==
  /\ head = 0
  /\ logs = {}
  /\ record = [o \in Orders |-> 0]
  /\ market = [pm \in Portfolios \X Markets |-> "untracked"]

OrderNext ==
  \E o \in Orders, q \in 0 .. MaxQty : Execute(o, q) \/ ReleaseOrder(o, q)

PortfolioNext ==
  \E p \in Portfolios :
    \/ CreatePortfolio(p)
    \/ SetAgent(p)
    \/ RevokeAgent(p)
    \/ \E q \in 1 .. MaxQty : SetDomainPolicy(p, q)
    \/ \E m \in Markets : ReleaseSettled(p, m) \/ Redeem(p, m) \/ PruneMarket(p, m)

ChainNext == OrderNext \/ PortfolioNext
=============================================================================
