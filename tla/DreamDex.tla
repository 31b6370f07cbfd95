------------------------------ MODULE DreamDex ------------------------------
(***************************************************************************)
(* The DreamDEX venue as the portfolio uses it.  It is external code: what *)
(* is here is what IDreamDex.sol declares and what the portfolio and its   *)
(* tests rely on.  A pool hosts one market per generation (marketNonce)    *)
(* and is recycled for the next; an outcome token belongs to one           *)
(* generation; order ids count up and may start again after a recycle.     *)
(* Only the portfolio's own orders and balances are state.                 *)
(***************************************************************************)
EXTENDS Exposure, FiniteSets

CONSTANTS
    Markets,       \* market ids
    Pools,         \* pool addresses
    MaxGen,        \* generations a pool goes through
    MaxOrders,     \* orders one generation of a pool accepts
    MaxTime,       \* last value of the clock
    PoolOf,        \* the pool a market trades on
    GenOf,         \* the generation of that pool that hosts it
    TradingStart,  \* when the market opens
    Expiry,        \* when it stops trading
    Outcomes,      \* how markets can end
    Prices,        \* prices an order can carry
    Amounts,       \* sizes of the transfers the environment makes
    DepositSizes,  \* sizes of outcome-token transfers into the portfolio
    MaxHeld        \* bound on what such a transfer, or a funding, leaves held

Gens     == 1 .. MaxGen
OrderIds == 1 .. MaxOrders
Sides    == {"YES", "NO"}

Terminal == {"resolvedYes", "resolvedNo", "voided"}
Phases   == {"trading", "finalized"} \cup Terminal

ASSUME VenueAssumption ==
    /\ MaxGen \in Nat \ {0}
    /\ MaxOrders \in Nat
    /\ MaxTime \in Nat
    /\ IsFiniteSet(Pools)
    /\ PoolOf \in [Markets -> Pools]
    /\ GenOf \in [Markets -> Gens]
    /\ TradingStart \in [Markets -> Nat]
    /\ Expiry \in [Markets -> Nat]
    /\ Outcomes \subseteq Terminal
    /\ Prices \subseteq 0 .. One
    /\ Amounts \subseteq Nat
    /\ DepositSizes \subseteq Nat
    /\ MaxHeld \in Nat

\* A pool generation hosts at most one market.
ASSUME OneMarketPerGeneration ==
    \A m, n \in Markets :
        PoolOf[m] = PoolOf[n] /\ GenOf[m] = GenOf[n] => m = n

VARIABLES
    now,        \* block.timestamp
    poolNonce,  \* marketNonce of every pool
    phase,      \* how far a market has come
    nextId,     \* the id the pool's next order gets
    book,       \* the portfolio's resting orders, at the ids of this generation
    bal,        \* the portfolio's ERC-6909 outcome balances
    free        \* the portfolio's collateral balance

venueVars == <<now, poolNonce, phase, nextId, book, bal, free>>

\* A token id packs pool, generation and outcome, so that no two are the same.
TokenId(pool, nonce, side) == <<pool, nonce, side>>
TokenIds == Pools \X Gens \X Sides

NoOrder == [kind |-> "BUY_YES", price |-> 0, quantityRemaining |-> 0]
BookOrders == [kind : Kinds, price : Prices \cup {0}, quantityRemaining : Nat]

VenueTypeOK ==
    /\ now \in Nat
    /\ poolNonce \in [Pools -> Gens]
    /\ phase \in [Markets -> Phases]
    /\ nextId \in [Pools -> 1 .. MaxOrders + 1]
    /\ book \in [Pools \X OrderIds -> BookOrders]
    /\ bal \in [TokenIds -> Nat]
    /\ free \in Nat

VenueInit ==
    /\ now = 1
    /\ poolNonce = [p \in Pools |-> 1]
    /\ phase = [m \in Markets |-> "trading"]
    /\ nextId = [p \in Pools |-> 1]
    /\ book = [o \in Pools \X OrderIds |-> NoOrder]
    /\ bal = [t \in TokenIds |-> 0]

-----------------------------------------------------------------------------
(* What the portfolio reads.                                               *)

\* module.markets(id) knows a market from the moment its pool is bound to it.
Registered(m) == poolNonce[PoolOf[m]] >= GenOf[m]

Hosts(pool, m) == PoolOf[m] = pool /\ GenOf[m] = poolNonce[pool]

Finalized(pool) == \E m \in Markets : Hosts(pool, m) /\ phase[m] # "trading"

IsSettled(m) == phase[m] \in Terminal

\* getOrder: zero stands for its revert, the same for filled and cancelled.
LiveRemaining(pool, id) == book[<<pool, id>>].quantityRemaining

SideOf(kind) == IF IsYes(kind) THEN "YES" ELSE "NO"

\* What a seller is paid for n contracts.
Proceeds(kind, price, n) == (UnitPrice(kind, price) * n) \div One

-----------------------------------------------------------------------------
(* What the venue does with an order placed by the portfolio: filled now,    *)
(* resting afterwards.  A buy pays collOut, a sell escrows its tokens.       *)

Placement(quantity, filled, resting) ==
    \/ filled + resting = quantity          \* LIMIT, POST_ONLY, FOK
    \/ filled <= quantity /\ resting = 0    \* IOC: the remainder is cancelled

\* The resting part is escrowed at the limit price, the filled part costs at
\* most it, and the exact allowance caps the two together.
Charge(i, filled, resting, collOut) ==
    LET escrow == ReserveFor(i.kind, i.price, resting)
    IN  IF IsBuy(i.kind)
        THEN /\ escrow <= collOut
             /\ collOut <= escrow + ReserveFor(i.kind, i.price, filled)
        ELSE collOut = 0

PlaceBinaryOrder(i, filled, resting, collOut) ==
    LET token == TokenId(i.pool, poolNonce[i.pool], SideOf(i.kind))
    IN  /\ nextId[i.pool] <= MaxOrders
        /\ Placement(i.quantity, filled, resting)
        /\ Charge(i, filled, resting, collOut)
        /\ IF IsBuy(i.kind)
           THEN /\ collOut <= free
                /\ free' = free - collOut
                /\ bal' = [bal EXCEPT ![token] = @ + filled]
           ELSE /\ bal[token] >= i.quantity
                /\ free' = free + Proceeds(i.kind, i.price, filled)
                /\ bal' = [bal EXCEPT ![token] = @ - (filled + resting)]
        /\ nextId' = [nextId EXCEPT ![i.pool] = @ + 1]
        /\ book' = IF resting = 0
                   THEN book
                   ELSE [book EXCEPT ![<<i.pool, nextId[i.pool]>>] =
                            [kind |-> i.kind, price |-> i.price,
                             quantityRemaining |-> resting]]
        /\ UNCHANGED <<now, poolNonce, phase>>

-----------------------------------------------------------------------------
(* Steps of the venue and of third parties.                                *)

Reduced(order, n) ==
    IF n = order.quantityRemaining
    THEN NoOrder
    ELSE [order EXCEPT !.quantityRemaining = @ - n]

\* A counterparty takes n contracts of a resting order.
ExternalFill(p, id, n) ==
    LET o == book[<<p, id>>]
    IN  /\ ~Finalized(p)
        /\ n > 0 /\ n <= o.quantityRemaining
        /\ book' = [book EXCEPT ![<<p, id>>] = Reduced(o, n)]
        /\ IF IsBuy(o.kind)
           THEN /\ bal' = [bal EXCEPT ![TokenId(p, poolNonce[p], SideOf(o.kind))] = @ + n]
                /\ UNCHANGED free
           ELSE /\ free' = free + Proceeds(o.kind, o.price, n)
                /\ UNCHANGED bal
        /\ UNCHANGED <<now, poolNonce, phase, nextId>>

\* A resting order leaves the book unfilled and its escrow comes back: the
\* owner cancelled it, or anyone drained it once it had expired.
RemoveOrder(p, id) ==
    LET o == book[<<p, id>>]
    IN  /\ o.quantityRemaining > 0
        /\ book' = [book EXCEPT ![<<p, id>>] = NoOrder]
        /\ IF IsBuy(o.kind)
           THEN /\ free' = free + ReserveFor(o.kind, o.price, o.quantityRemaining)
                /\ UNCHANGED bal
           ELSE /\ bal' = [bal EXCEPT ![TokenId(p, poolNonce[p], SideOf(o.kind))] =
                              @ + o.quantityRemaining]
                /\ UNCHANGED free
        /\ UNCHANGED <<now, poolNonce, phase, nextId>>

Finalize(m) ==
    /\ Registered(m)
    /\ phase[m] = "trading"
    /\ phase' = [phase EXCEPT ![m] = "finalized"]
    /\ UNCHANGED <<now, poolNonce, nextId, book, bal, free>>

Settle(m, outcome) ==
    /\ Registered(m)
    /\ ~IsSettled(m)
    /\ phase' = [phase EXCEPT ![m] = outcome]
    /\ UNCHANGED <<now, poolNonce, nextId, book, bal, free>>

\* The pool is given to its next market: the last one is over and every order
\* on it has been drained.  Ids may start again.
Roll(p) ==
    /\ poolNonce[p] < MaxGen
    /\ \A m \in Markets : Hosts(p, m) => IsSettled(m) \/ now >= Expiry[m]
    /\ \A id \in OrderIds : book[<<p, id>>] = NoOrder
    /\ poolNonce' = [poolNonce EXCEPT ![p] = @ + 1]
    /\ nextId' = [nextId EXCEPT ![p] = 1]
    /\ UNCHANGED <<now, phase, book, bal, free>>

Tick ==
    /\ now < MaxTime
    /\ now' = now + 1
    /\ UNCHANGED <<poolNonce, phase, nextId, book, bal, free>>

\* Anyone can send the portfolio outcome tokens of the markets it trades.
DepositOutcome(t, n) ==
    /\ bal[t] + n <= MaxHeld
    /\ bal' = [bal EXCEPT ![t] = @ + n]
    /\ UNCHANGED <<now, poolNonce, phase, nextId, book, free>>

VenueNext ==
    \/ \E p \in Pools, id \in OrderIds :
          \/ \E n \in 1 .. LiveRemaining(p, id) : ExternalFill(p, id, n)
          \/ RemoveOrder(p, id)
    \/ \E m \in Markets : Finalize(m)
    \/ \E m \in Markets, outcome \in Outcomes : Settle(m, outcome)
    \/ \E p \in Pools : Roll(p)
    \/ \E t \in TokenIds, n \in DepositSizes : DepositOutcome(t, n)
    \/ Tick

=============================================================================
