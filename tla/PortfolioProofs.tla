--------------------------- MODULE PortfolioProofs ---------------------------
(***************************************************************************)
(* Why the portfolio's books, its exposure figures and the answers built   *)
(* on them can be trusted: the laws of Sum, the types, the pinned          *)
(* generations, the theorems about order records, reservations and the     *)
(* escrow behind them; then that a market's charge bounds every position   *)
(* its resting orders can still lead to, that an admission keeps the       *)
(* ceilings and budgets, that the risk verifier's verdict is right and     *)
(* that the preview shows the decision that is enforced.  All of it holds  *)
(* for any number of markets, pools, generations, agents and orders.       *)
(***************************************************************************)
EXTENDS PortfolioSafety, RiskRound, AdmissionView, FiniteSetTheorems, WellFoundedInduction, TLAPS

-----------------------------------------------------------------------------
(* The laws of Sum.                                                        *)

\* A column of height n has n points.
LEMMA ColumnSize ==
    ASSUME NEW f, NEW x, f[x] \in Nat
    PROVE  IsFiniteSet(Column(f, x)) /\ Cardinality(Column(f, x)) = f[x]
<1>1. IsFiniteSet(1 .. f[x]) /\ Cardinality(1 .. f[x]) = f[x]
  <2>1. 1 \in Int /\ f[x] \in Int
    OBVIOUS
  <2>2. /\ IsFiniteSet(1 .. f[x])
        /\ Cardinality(1 .. f[x]) = IF 1 > f[x] THEN 0 ELSE f[x] - 1 + 1
    BY <2>1, FS_Interval
  <2>3. QED
    BY <2>2
<1>2. IsFiniteSet({x}) /\ Cardinality({x}) = 1
  BY FS_Singleton
<1>3. /\ IsFiniteSet({x} \X (1 .. f[x]))
      /\ Cardinality({x} \X (1 .. f[x])) = Cardinality({x}) * Cardinality(1 .. f[x])
  BY <1>1, <1>2, FS_Product
<1>4. QED
  BY <1>1, <1>2, <1>3 DEF Column

\* The points under f on a finite set are finitely many.
LEMMA GraphFinite ==
    ASSUME NEW S, IsFiniteSet(S), NEW f, \A x \in S : f[x] \in Nat
    PROVE  IsFiniteSet(UNION {Column(f, x) : x \in S})
<1> DEFINE h == [x \in S |-> Column(f, x)]
<1>1. h \in Surjection(S, {Column(f, x) : x \in S})
  BY DEF Surjection
<1>2. IsFiniteSet({Column(f, x) : x \in S})
  BY <1>1, FS_Surjection
<1>3. \A c \in {Column(f, x) : x \in S} : IsFiniteSet(c)
  BY ColumnSize
<1>4. QED
  BY <1>2, <1>3, FS_UNION

\* A sum is a natural number.
LEMMA SumType ==
    ASSUME NEW S, IsFiniteSet(S), NEW f, \A x \in S : f[x] \in Nat
    PROVE  Sum(f, S) \in Nat
BY GraphFinite, FS_CardinalityType DEF Sum

\* The empty sum.
LEMMA SumEmpty ==
    ASSUME NEW f
    PROVE  Sum(f, {}) = 0
<1>1. UNION {Column(f, x) : x \in {}} = {}
  OBVIOUS
<1>2. QED
  BY <1>1, FS_EmptySet DEF Sum

\* A sum depends only on the values over its set.
LEMMA SumSame ==
    ASSUME NEW S, NEW f, NEW g, \A x \in S : f[x] = g[x]
    PROVE  Sum(f, S) = Sum(g, S)
<1>1. {Column(f, x) : x \in S} = {Column(g, x) : x \in S}
  BY DEF Column
<1>2. QED
  BY <1>1 DEF Sum

\* One more element adds its value.
LEMMA SumAdd ==
    ASSUME NEW S, IsFiniteSet(S), NEW y, y \notin S,
           NEW f, \A x \in S : f[x] \in Nat, f[y] \in Nat
    PROVE  Sum(f, S \cup {y}) = Sum(f, S) + f[y]
<1> DEFINE G == UNION {Column(f, x) : x \in S}
           C == Column(f, y)
<1>1. UNION {Column(f, x) : x \in S \cup {y}} = G \cup C
  OBVIOUS
<1>2. G \cap C = {}
  BY DEF Column
<1>3. IsFiniteSet(G)
  BY GraphFinite
<1>4. IsFiniteSet(C) /\ Cardinality(C) = f[y]
  BY ColumnSize
<1>5. Cardinality(G) \in Nat
  BY <1>3, FS_CardinalityType
<1>6. Cardinality(G \cap C) = 0
  BY <1>2, FS_EmptySet
<1>7. Cardinality(G \cup C) = Cardinality(G) + Cardinality(C) - Cardinality(G \cap C)
  BY <1>3, <1>4, FS_Union
<1>8. Cardinality(G \cup C) = Cardinality(G) + f[y]
  BY <1>4, <1>5, <1>6, <1>7
<1> HIDE DEF C
<1>9. QED
  BY <1>1, <1>8 DEF Sum

\* Taking an element out takes its value out.
LEMMA SumRemove ==
    ASSUME NEW S, IsFiniteSet(S), NEW y \in S,
           NEW f, \A x \in S : f[x] \in Nat
    PROVE  Sum(f, S) = Sum(f, S \ {y}) + f[y]
<1>1. IsFiniteSet(S \ {y})
  BY FS_RemoveElement
<1>2. (S \ {y}) \cup {y} = S
  OBVIOUS
<1>3. Sum(f, (S \ {y}) \cup {y}) = Sum(f, S \ {y}) + f[y]
  BY <1>1, SumAdd
<1>4. QED
  BY <1>2, <1>3

\* Changing the value of one element changes the sum by the difference.
LEMMA SumChange ==
    ASSUME NEW S, IsFiniteSet(S), NEW y \in S,
           NEW f, \A x \in S : f[x] \in Nat,
           NEW g, g[y] \in Nat, \A x \in S \ {y} : g[x] = f[x]
    PROVE  Sum(g, S) = Sum(f, S) - f[y] + g[y]
<1>1. IsFiniteSet(S \ {y})
  BY FS_RemoveElement
<1>2. Sum(f, S) = Sum(f, S \ {y}) + f[y]
  BY SumRemove
<1>3. Sum(g, S) = Sum(g, S \ {y}) + g[y]
  BY SumRemove
<1>4. Sum(g, S \ {y}) = Sum(f, S \ {y})
  BY SumSame
<1>5. Sum(f, S \ {y}) \in Nat
  BY <1>1, SumType
<1>6. QED
  BY <1>2, <1>3, <1>4, <1>5

\* A sum over a part is at most the sum over the whole, and pointwise smaller
\* values make a smaller sum.
LEMMA SumMonotone ==
    ASSUME NEW S, IsFiniteSet(S), NEW T \in SUBSET S,
           NEW f, NEW g, \A x \in S : g[x] \in Nat,
           \A x \in T : f[x] \in Nat /\ f[x] <= g[x]
    PROVE  Sum(f, T) <= Sum(g, S)
<1> DEFINE F == UNION {Column(f, x) : x \in T}
           G == UNION {Column(g, x) : x \in S}
<1>1. \A x \in T : Column(f, x) \subseteq Column(g, x)
  BY DEF Column
<1>2. F \subseteq G
  BY <1>1
<1>3. IsFiniteSet(G)
  BY GraphFinite
<1>4. QED
  BY <1>2, <1>3, FS_Subset DEF Sum

\* Part of a sum moves when one element y joins, leaves or changes its value.
LEMMA SumMoves ==
    ASSUME NEW S, IsFiniteSet(S), NEW y \in S,
           NEW T \in SUBSET S, NEW U \in SUBSET S, T \ {y} = U \ {y},
           NEW f, \A x \in S : f[x] \in Nat,
           NEW g, \A x \in S : g[x] \in Nat,
           \A x \in T \ {y} : g[x] = f[x]
    PROVE  Sum(g, U) = Sum(f, T) - (IF y \in T THEN f[y] ELSE 0)
                                 + (IF y \in U THEN g[y] ELSE 0)
<1> DEFINE W == T \ {y}
<1>1. IsFiniteSet(T) /\ IsFiniteSet(U) /\ IsFiniteSet(W)
  BY FS_Subset
<1>2. Sum(f, W) \in Nat /\ Sum(g, W) = Sum(f, W)
  <2>1. Sum(f, W) \in Nat
    BY <1>1, SumType
  <2>2. Sum(g, W) = Sum(f, W)
    BY SumSame
  <2>3. QED
    BY <2>1, <2>2
<1>3. Sum(f, T) = Sum(f, W) + (IF y \in T THEN f[y] ELSE 0)
  <2>1. CASE y \in T
    <3>1. \A x \in T : f[x] \in Nat
      OBVIOUS
    <3>2. Sum(f, T) = Sum(f, T \ {y}) + f[y]
      BY <1>1, <2>1, <3>1, SumRemove
    <3>3. W = T \ {y}
      OBVIOUS
    <3>4. QED
      BY <2>1, <3>2, <3>3
  <2>2. CASE y \notin T
    <3>1. W = T
      BY <2>2
    <3>2. Sum(f, W) = Sum(f, T)
      BY <3>1, Zenon
    <3> HIDE DEF W
    <3>3. QED
      BY <1>2, <2>2, <3>2
  <2>3. QED
    BY <2>1, <2>2
<1>4. Sum(g, U) = Sum(g, W) + (IF y \in U THEN g[y] ELSE 0)
  <2>1. CASE y \in U
    <3>1. \A x \in U : g[x] \in Nat
      OBVIOUS
    <3>2. Sum(g, U) = Sum(g, U \ {y}) + g[y]
      BY <1>1, <2>1, <3>1, SumRemove
    <3>3. W = U \ {y}
      OBVIOUS
    <3>4. QED
      BY <2>1, <3>2, <3>3
  <2>2. CASE y \notin U
    <3>1. W = U
      BY <2>2
    <3>2. Sum(g, W) = Sum(g, U)
      BY <3>1, Zenon
    <3> HIDE DEF W
    <3>3. QED
      BY <1>2, <2>2, <3>2
  <2>3. QED
    BY <2>1, <2>2
<1>5. f[y] \in Nat /\ g[y] \in Nat
  OBVIOUS
<1>6. QED
  BY <1>2, <1>3, <1>4, <1>5

\* A sum over two sets is at most the two sums.
LEMMA SumOfUnion ==
    ASSUME NEW S, IsFiniteSet(S), NEW T, IsFiniteSet(T),
           NEW f, \A x \in S \cup T : f[x] \in Nat
    PROVE  Sum(f, S \cup T) <= Sum(f, S) + Sum(f, T)
<1> DEFINE F == UNION {Column(f, x) : x \in S}
           G == UNION {Column(f, x) : x \in T}
<1>1. UNION {Column(f, x) : x \in S \cup T} = F \cup G
  OBVIOUS
<1>2. IsFiniteSet(F) /\ IsFiniteSet(G)
  BY GraphFinite
<1>3. Cardinality(F \cup G) = Cardinality(F) + Cardinality(G) - Cardinality(F \cap G)
  BY <1>2, FS_Union
<1>4. IsFiniteSet(F \cap G)
  BY <1>2, FS_Intersection
<1>5. Cardinality(F) \in Nat /\ Cardinality(G) \in Nat /\ Cardinality(F \cap G) \in Nat
  BY <1>2, <1>4, FS_CardinalityType
<1>6. Cardinality(F \cup G) <= Cardinality(F) + Cardinality(G)
  BY <1>3, <1>5
<1>7. QED
  BY <1>1, <1>6 DEF Sum

\* Where every element has a counterpart of its own that is worth at least as
\* much, the sum is at most the counterparts'.
LEMMA SumThrough ==
    ASSUME NEW S, NEW T, IsFiniteSet(T), NEW h \in Injection(S, T),
           NEW f, NEW g, \A y \in T : g[y] \in Nat,
           \A x \in S : f[x] \in Nat /\ f[x] <= g[h[x]]
    PROVE  Sum(f, S) <= Sum(g, T)
<1> DEFINE F == UNION {Column(f, x) : x \in S}
           G == UNION {Column(g, y) : y \in T}
           H == [point \in F |-> <<h[point[1]], point[2]>>]
<1>1. h \in [S -> T] /\ \A a, b \in S : h[a] = h[b] => a = b
  BY DEF Injection, IsInjective
<1>2. \A point \in F : /\ point[1] \in S /\ point[2] \in 1 .. f[point[1]]
                        /\ point = <<point[1], point[2]>>
  BY DEF Column
<1>3. \A x \in S : \A n \in 1 .. f[x] : <<h[x], n>> \in G
  <2> SUFFICES ASSUME NEW x \in S, NEW n \in 1 .. f[x] PROVE <<h[x], n>> \in G
    OBVIOUS
  <2>1. h[x] \in T /\ f[x] \in Nat /\ g[h[x]] \in Nat /\ f[x] <= g[h[x]]
    BY <1>1
  <2>2. n \in 1 .. g[h[x]]
    BY <2>1
  <2>3. QED
    BY <2>1, <2>2 DEF Column
<1>4. H \in [F -> G]
  BY <1>2, <1>3
<1>5. \A p, q \in F : H[p] = H[q] => p = q
  BY <1>1, <1>2
<1>6. H \in Injection(F, G)
  BY <1>4, <1>5 DEF Injection, IsInjective
<1>7. IsFiniteSet(G)
  BY GraphFinite
<1> HIDE DEF F, G, H
<1>8. Cardinality(F) <= Cardinality(G)
  BY <1>6, <1>7, FS_Injection
<1>9. QED
  BY <1>8 DEF Sum, F, G

-----------------------------------------------------------------------------
(* Facts about the exposure arithmetic, for every quantity and price.      *)

\* Integer division, characterised by multiplication.
LEMMA DivBounds ==
    ASSUME NEW x \in Nat, NEW y \in Nat \ {0}
    PROVE  /\ x \div y \in Nat
           /\ y * (x \div y) <= x
           /\ x < y * (x \div y) + y
BY SMT

\* A quotient is at most n as soon as n times the divisor reaches the dividend.
LEMMA DivAtMost ==
    ASSUME NEW x \in Nat, NEW y \in Nat \ {0}, NEW n \in Nat, x <= n * y
    PROVE  x \div y <= n
BY SMT

\* A unit price is a natural number.
LEMMA UnitType ==
    ASSUME NEW kind \in Kinds, NEW price \in 0 .. One
    PROVE  UnitPrice(kind, price) \in Nat
BY OneAssumption DEF UnitPrice

\* An order's reservation is a natural number and pays for the whole order.
LEMMA ReserveType ==
    ASSUME NEW kind \in Kinds, NEW price \in 0 .. One, NEW q \in Nat
    PROVE  /\ ReserveFor(kind, price, q) \in Nat
           /\ UnitPrice(kind, price) * q <= ReserveFor(kind, price, q) * One
<1> DEFINE u == UnitPrice(kind, price)
           x == u * q + One - 1
<1>1. u \in Nat /\ One \in Nat \ {0}
  BY UnitType, OneAssumption
<1> HIDE DEF u
<1>2. u * q \in Nat
  BY <1>1
<1>3. x \in Nat
  BY <1>1, <1>2
<1>4. x \div One \in Nat /\ x < One * (x \div One) + One
  BY <1>1, <1>3, DivBounds
<1>5. u * q <= One * (x \div One)
  BY <1>1, <1>2, <1>4
<1>6. One * (x \div One) = (x \div One) * One
  BY <1>1, <1>4
<1>7. QED
  BY <1>4, <1>5, <1>6 DEF ReserveFor, u

\* It is the least collateral that does.
LEMMA ReserveLeast ==
    ASSUME NEW kind \in Kinds, NEW price \in 0 .. One, NEW q \in Nat, NEW c \in Nat,
           UnitPrice(kind, price) * q <= c * One
    PROVE  ReserveFor(kind, price, q) <= c
<1> DEFINE u == UnitPrice(kind, price)
           x == u * q + One - 1
<1>1. u \in Nat /\ One \in Nat \ {0}
  BY UnitType, OneAssumption
<1> HIDE DEF u
<1>2. u * q \in Nat /\ u * q <= c * One
  BY <1>1 DEF u
<1>3. x \in Nat /\ x < c * One + One
  BY <1>1, <1>2
<1>4. (c + 1) * One = c * One + One
  BY <1>1
<1>5. x \div One \in Nat /\ One * (x \div One) <= x
  BY <1>1, <1>3, DivBounds
<1>6. One * (x \div One) < One * (c + 1)
  BY <1>1, <1>3, <1>4, <1>5
<1>7. x \div One < c + 1
  BY <1>1, <1>5, <1>6
<1>8. QED
  BY <1>5, <1>7 DEF ReserveFor, u

\* A smaller order of the same kind and price reserves no more.
LEMMA ReserveMonotone ==
    ASSUME NEW kind \in Kinds, NEW price \in 0 .. One, NEW q \in Nat, NEW r \in 0 .. q
    PROVE  ReserveFor(kind, price, r) <= ReserveFor(kind, price, q)
<1> DEFINE u == UnitPrice(kind, price)
           c == ReserveFor(kind, price, q)
<1>1. u \in Nat /\ c \in Nat /\ u * q <= c * One
  BY UnitType, ReserveType
<1> HIDE DEF u, c
<1>2. u * r <= u * q
  BY <1>1
<1>3. u * r <= c * One
  BY <1>1, <1>2, OneAssumption
<1>4. QED
  BY <1>1, <1>3, ReserveLeast DEF u, c

\* Releasing r of q contracts in proportion takes at most the whole reservation.
LEMMA ShareType ==
    ASSUME NEW c \in Nat, NEW q \in Nat \ {0}, NEW r \in 0 .. q
    PROVE  (c * r) \div q \in 0 .. c
<1>1. c * r \in Nat /\ c * r <= c * q
  BY SMT
<1>2. QED
  BY <1>1, DivBounds, DivAtMost

\* Releasing all of an order takes all of its reservation.
LEMMA WholeShare ==
    ASSUME NEW c \in Nat, NEW q \in Nat \ {0}
    PROVE  (c * q) \div q = c
<1>1. c * q \in Nat /\ q * c = c * q
  BY SMT
<1>2. (c * q) \div q \in Nat /\ (c * q) \div q <= c
  BY <1>1, DivBounds, DivAtMost
<1>3. c * q < q * ((c * q) \div q) + q
  BY <1>1, DivBounds
<1> DEFINE d == (c * q) \div q
<1> HIDE DEF d
<1>4. q * c < q * (d + 1)
  <2>1. d \in Nat /\ q * (d + 1) = q * d + q
    BY <1>2, SMT DEF d
  <2>2. QED
    BY <1>1, <1>3, <2>1 DEF d
<1>5. c < d + 1
  BY <1>2, <1>4, SMT DEF d
<1>6. QED
  BY <1>2, <1>5 DEF d

\* What stays after a proportional release still pays for what stays open:
\* rounding down what is released rounds up what is kept.
LEMMA ShareKeepsCover ==
    ASSUME NEW c \in Nat, NEW q \in Nat \ {0}, NEW r \in 0 .. q,
           NEW u \in Nat, u * q <= c * One
    PROVE  u * (q - r) <= (c - ((c * r) \div q)) * One
<1> DEFINE s == (c * r) \div q
           k == c - s
           d == q - r
<1>1. s \in 0 .. c /\ q * s <= c * r
  <2>1. c * r \in Nat
    BY SMT
  <2>2. QED
    BY <2>1, ShareType, DivBounds
<1> HIDE DEF s
<1>2. k \in Nat /\ d \in Nat /\ c * d = c * q - c * r /\ q * k = q * c - q * s
  BY <1>1
<1>3. c * d <= q * k
  BY <1>1, <1>2, SMT
<1> HIDE DEF k, d
<1>4. (u * q) * d <= (c * One) * d
  BY <1>2, OneAssumption, SMT
<1>5. (c * One) * d = (c * d) * One /\ (u * q) * d = q * (u * d)
  BY <1>2, OneAssumption, SMT
<1>6. (c * d) * One <= (q * k) * One
  BY <1>2, <1>3, OneAssumption, SMT
<1>7. (q * k) * One = q * (k * One)
  BY <1>2, OneAssumption, SMT
<1>8. u * d \in Nat /\ k * One \in Nat
  BY <1>2, OneAssumption, SMT
<1>9. q * (u * d) <= q * (k * One)
  BY <1>2, <1>4, <1>5, <1>6, <1>7, <1>8, OneAssumption, SMT
<1>10. u * d <= k * One
  BY <1>8, <1>9, SMT
<1>11. QED
  BY <1>10 DEF k, d, s

-----------------------------------------------------------------------------
(* Types, and the lists that pruneMarket relies on.                        *)

NoncedIntents ==
    [market : Markets, pool : Pools, marketNonce : Gens, kind : Kinds,
     price : Prices, quantity : Nat, expireTimestamp : Nat, nonce : Nat]

\* Types alone are not inductive: pruneMarket reads the last element of a list
\* and overwrites a slot, which is only sound if lists and slots match.
TypeInv == TypeOK /\ DomainListsMatchTracking

LEMMA IntentsTyped ==
    ASSUME NEW i \in Intents, NEW n \in 1 .. MaxNonce
    PROVE  WithNonce(i, n) \in NoncedIntents
BY PortfolioAssumption DEF WithNonce, NoncedIntents, IntentType

LEMMA IntentFields ==
    ASSUME NEW i \in NoncedIntents
    PROVE  /\ i.market \in Markets /\ i.pool \in Pools /\ i.marketNonce \in Gens
           /\ i.kind \in Kinds /\ i.price \in Prices /\ i.price \in 0 .. One
           /\ i.quantity \in Nat /\ i.nonce \in Nat
           /\ \A n \in 0 .. i.quantity : n \in Nat /\ n <= i.quantity
<1>1. i.price \in Prices /\ i.quantity \in Nat
  BY DEF NoncedIntents
<1>2. i.price \in 0 .. One
  BY <1>1, VenueAssumption
<1>3. QED
  BY <1>1, <1>2 DEF NoncedIntents

LEMMA InitTypeInv == Init => TypeInv
<1> SUFFICES ASSUME Init PROVE TypeInv
  OBVIOUS
<1> USE DEF Init, Fresh, VenueInit
<1>1. VenueTypeOK
  BY VenueAssumption DEF VenueTypeOK, Gens, TokenIds, BookOrders, NoOrder, Kinds, Phases
<1>2. marketState \in [Markets -> MarketStates]
  BY VenueAssumption DEF MarketStates, Untouched, NoReservation
<1>3. orderRec \in [OrderKeys -> OrderRecs]
  BY DEF OrderRecs
<1>4. TypeOK
  BY <1>1, <1>2, <1>3 DEF TypeOK, GlobalPolicyType, DomainPolicyType, AgentPolicyType,
     ZeroGlobalPolicy, ZeroDomainPolicy, ZeroAgentPolicy
<1>5. DomainListsMatchTracking
  BY PortfolioAssumption DEF DomainListsMatchTracking, Untouched
<1>6. QED
  BY <1>4, <1>5 DEF TypeInv

\* The market part of a step that leaves tracking alone.
LEMMA TrackingUnchanged ==
    ASSUME DomainListsMatchTracking,
           UNCHANGED <<domainMarkets, marketSlot>>,
           \A m \in Markets : /\ (marketState'[m].tracked <=> marketState[m].tracked)
                              /\ marketState'[m].domain = marketState[m].domain,
           domainMarkets \in [Domains -> Seq(Markets)]
    PROVE  DomainListsMatchTracking'
BY DEF DomainListsMatchTracking

LEMMA ReducedType ==
    ASSUME NEW order \in BookOrders, NEW n \in Nat, n <= order.quantityRemaining
    PROVE  Reduced(order, n) \in BookOrders
<1>1. NoOrder \in BookOrders
  BY DEF NoOrder, BookOrders, Kinds
<1>2. [order EXCEPT !.quantityRemaining = order.quantityRemaining - n] \in BookOrders
  BY DEF BookOrders
<1>3. QED
  BY <1>1, <1>2 DEF Reduced

\* The venue keeps its types.
LEMMA VenueStepTypes ==
    ASSUME VenueTypeOK, VenueNext
    PROVE  VenueTypeOK'
<1> USE VenueAssumption, OneAssumption DEF VenueTypeOK
<1>1. ASSUME NEW p \in Pools, NEW id \in OrderIds
      PROVE  /\ book[<<p, id>>] \in BookOrders
             /\ \A side \in Sides : TokenId(p, poolNonce[p], side) \in TokenIds
             /\ \A kind \in Kinds : SideOf(kind) \in Sides
  BY DEF TokenId, TokenIds, Sides, SideOf
<1>2. ASSUME NEW kind \in Kinds, NEW price \in Prices \cup {0}, NEW n \in Nat
      PROVE  Proceeds(kind, price, n) \in Nat /\ ReserveFor(kind, price, n) \in Nat
  <2>1. price \in 0 .. One
    BY <1>2
  <2>2. UnitPrice(kind, price) * n \in Nat
    BY <2>1, UnitType
  <2>3. QED
    BY <2>1, <2>2, DivBounds, ReserveType DEF Proceeds
<1>3. ASSUME NEW p \in Pools, NEW id \in OrderIds,
             NEW n \in 1 .. LiveRemaining(p, id), ExternalFill(p, id, n)
      PROVE  VenueTypeOK'
  <2> DEFINE o == book[<<p, id>>]
  <2>1. o \in BookOrders /\ n \in Nat /\ n <= o.quantityRemaining
    BY <1>1, <1>3 DEF LiveRemaining, BookOrders
  <2>2. Reduced(o, n) \in BookOrders
    BY <2>1, ReducedType
  <2>3. book' \in [Pools \X OrderIds -> BookOrders]
    BY <1>3, <2>2 DEF ExternalFill
  <2>4. Proceeds(o.kind, o.price, n) \in Nat
    BY <1>2, <2>1 DEF BookOrders
  <2>5. TokenId(p, poolNonce[p], SideOf(o.kind)) \in TokenIds
    BY <1>1, <2>1 DEF BookOrders
  <2>6. bal' \in [TokenIds -> Nat] /\ free' \in Nat
    BY <1>3, <2>1, <2>4, <2>5 DEF ExternalFill
  <2>7. QED
    BY <1>3, <2>3, <2>6 DEF ExternalFill
<1>4. ASSUME NEW p \in Pools, NEW id \in OrderIds, RemoveOrder(p, id)
      PROVE  VenueTypeOK'
  <2> DEFINE o == book[<<p, id>>]
  <2>1. o \in BookOrders
    BY <1>1
  <2>2. book' \in [Pools \X OrderIds -> BookOrders]
    BY <1>4 DEF RemoveOrder, NoOrder, BookOrders, Kinds
  <2>3. ReserveFor(o.kind, o.price, o.quantityRemaining) \in Nat
    BY <1>2, <2>1 DEF BookOrders
  <2>4. TokenId(p, poolNonce[p], SideOf(o.kind)) \in TokenIds
    BY <1>1, <2>1 DEF BookOrders
  <2>5. bal' \in [TokenIds -> Nat] /\ free' \in Nat
    BY <1>4, <2>1, <2>3, <2>4 DEF RemoveOrder, BookOrders
  <2>6. QED
    BY <1>4, <2>2, <2>5 DEF RemoveOrder
<1>5. ASSUME NEW m \in Markets, Finalize(m)
      PROVE  VenueTypeOK'
  BY <1>5 DEF Finalize, Phases
<1>6. ASSUME NEW m \in Markets, NEW outcome \in Outcomes, Settle(m, outcome)
      PROVE  VenueTypeOK'
  BY <1>6 DEF Settle, Phases
<1>7. ASSUME NEW p \in Pools, Roll(p)
      PROVE  VenueTypeOK'
  BY <1>7 DEF Roll, Gens
<1>8. ASSUME NEW t \in TokenIds, NEW n \in DepositSizes, DepositOutcome(t, n)
      PROVE  VenueTypeOK'
  <2>1. n \in Nat
    OBVIOUS
  <2>2. bal' \in [TokenIds -> Nat]
    BY <1>8, <2>1 DEF DepositOutcome
  <2>3. QED
    BY <1>8, <2>2 DEF DepositOutcome
<1>9. ASSUME Tick
      PROVE  VenueTypeOK'
  BY <1>9 DEF Tick
<1>10. QED
  BY <1>3, <1>4, <1>5, <1>6, <1>7, <1>8, <1>9 DEF VenueNext

-----------------------------------------------------------------------------
(* An order placed by execute.                                             *)

\* The quantities PlaceAndReconcile computes with.
LEMMA OrderTyped ==
    ASSUME TypeOK, NEW a \in Agents, NEW i \in NoncedIntents,
           NEW resting \in 0 .. i.quantity, NEW collOut \in 0 .. ReserveRequired(i)
    PROVE  /\ ReserveRequired(i) \in Nat
           /\ RestingEscrow(i, resting) \in 0 .. ReserveRequired(i)
           /\ AgentCommittedReconciled(a, i, collOut) \in Nat
           /\ ReservedCollateralReconciled(i, RestingEscrow(i, resting)) =
                  reservedCollateral + RestingEscrow(i, resting)
<1>1. i.kind \in Kinds /\ i.price \in 0 .. One /\ i.quantity \in Nat /\ resting \in Nat
  BY IntentFields
<1>2. ReserveRequired(i) \in Nat
  BY <1>1, ReserveType DEF ReserveRequired
<1>3. RestingEscrow(i, resting) \in 0 .. ReserveRequired(i)
  <2>1. /\ ReserveFor(i.kind, i.price, resting) \in Nat
        /\ ReserveFor(i.kind, i.price, resting) <= ReserveRequired(i)
    BY <1>1, ReserveType, ReserveMonotone DEF ReserveRequired
  <2>2. QED
    BY <1>2, <2>1 DEF RestingEscrow
<1>4. AgentCommittedReconciled(a, i, collOut) \in Nat
  <2>1. agentCommitted[a] \in Nat /\ collOut \in Nat /\ collOut <= ReserveRequired(i)
    BY <1>2 DEF TypeOK
  <2>2. QED
    BY <1>2, <2>1 DEF AgentCommittedReconciled, AgentCommittedAfter, ClampedSub
<1>5. ReservedCollateralReconciled(i, RestingEscrow(i, resting)) =
          reservedCollateral + RestingEscrow(i, resting)
  BY <1>2, <1>3 DEF ReservedCollateralReconciled, RestingEscrow, TypeOK
<1>6. QED
  BY <1>2, <1>3, <1>4, <1>5

\* What the venue does with it.
LEMMA PlacementTypes ==
    ASSUME VenueTypeOK, NEW i \in NoncedIntents, i.marketNonce = poolNonce[i.pool],
           NEW filled \in 0 .. i.quantity, NEW resting \in 0 .. i.quantity, NEW collOut \in Nat,
           PlaceBinaryOrder(i, filled, resting, collOut)
    PROVE  VenueTypeOK' /\ nextId[i.pool] \in OrderIds
<1> DEFINE token == TokenId(i.pool, poolNonce[i.pool], SideOf(i.kind))
<1> USE DEF VenueTypeOK
<1>1. /\ i.kind \in Kinds /\ i.price \in Prices /\ i.price \in 0 .. One
      /\ i.quantity \in Nat /\ filled \in Nat /\ resting \in Nat /\ i.pool \in Pools
  BY IntentFields
<1>2. token \in TokenIds
  BY <1>1 DEF TokenId, TokenIds, Sides, SideOf
<1>3. nextId[i.pool] \in OrderIds
  BY <1>1, VenueAssumption DEF PlaceBinaryOrder, OrderIds
<1>4. nextId' \in [Pools -> 1 .. MaxOrders + 1]
  BY <1>1, <1>3, VenueAssumption DEF PlaceBinaryOrder, OrderIds
<1>5. book' \in [Pools \X OrderIds -> BookOrders]
  BY <1>1, <1>3 DEF PlaceBinaryOrder, BookOrders
<1>6. Proceeds(i.kind, i.price, filled) \in Nat
  <2>1. UnitPrice(i.kind, i.price) * filled \in Nat
    BY <1>1, UnitType
  <2>2. QED
    BY <2>1, OneAssumption, DivBounds DEF Proceeds
<1>7. filled + resting <= i.quantity
  BY <1>1 DEF PlaceBinaryOrder, Placement
<1>8. free' \in Nat
  BY <1>1, <1>6 DEF PlaceBinaryOrder
<1>9. bal' \in [TokenIds -> Nat]
  <2>1. bal[token] \in Nat
    BY <1>2
  <2>2. CASE IsBuy(i.kind)
    <3>1. bal' = [bal EXCEPT ![token] = bal[token] + filled]
      BY <2>2 DEF PlaceBinaryOrder
    <3>2. bal[token] + filled \in Nat
      BY <1>1, <2>1
    <3>3. QED
      BY <1>2, <3>1, <3>2
  <2>3. CASE ~IsBuy(i.kind)
    <3>1. /\ bal' = [bal EXCEPT ![token] = bal[token] - (filled + resting)]
          /\ bal[token] >= i.quantity
      BY <2>3 DEF PlaceBinaryOrder
    <3>2. bal[token] - (filled + resting) \in Nat
      BY <1>1, <1>7, <2>1, <3>1
    <3>3. QED
      BY <1>2, <3>1, <3>2
  <2>4. QED
    BY <2>2, <2>3
<1>10. QED
  BY <1>3, <1>4, <1>5, <1>8, <1>9 DEF PlaceBinaryOrder

\* Reserving the whole order and dropping what is gone reserves what rests.
LEMMA DropGone ==
    ASSUME NEW x \in Nat, NEW q \in Nat, NEW r \in 0 .. q
    PROVE  x + q - (q - r) \in Nat /\ x + q - (q - r) = x + r
OBVIOUS

LEMMA ExecuteTypes ==
    ASSUME TypeOK, NEW a \in Agents, NEW i \in NoncedIntents, Execute(a, i)
    PROVE  TypeOK'
<1> USE DEF TypeOK
<1>1. PICK filled \in 0 .. i.quantity, resting \in 0 .. i.quantity,
           collOut \in 0 .. ReserveRequired(i) :
              PlaceAndReconcile(a, i, filled, resting, collOut)
  BY DEF Execute
<1>2. /\ i.market \in Markets /\ i.pool \in Pools /\ i.marketNonce \in Gens
      /\ i.kind \in Kinds /\ i.quantity \in Nat /\ i.nonce \in Nat
      /\ resting \in Nat /\ resting <= i.quantity
  BY IntentFields
<1>3. /\ i.marketNonce = poolNonce[i.pool]
      /\ DomainOf[i.market] \in Domains
  BY <1>2, PortfolioAssumption
  DEF Execute, Admissible, MarketGates, GenerationGates
<1>4. /\ ReserveRequired(i) \in Nat /\ collOut \in Nat
      /\ RestingEscrow(i, resting) \in Nat
      /\ AgentCommittedReconciled(a, i, collOut) \in Nat
      /\ ReservedCollateralReconciled(i, RestingEscrow(i, resting)) \in Nat
  <2>1. /\ ReserveRequired(i) \in Nat
        /\ RestingEscrow(i, resting) \in 0 .. ReserveRequired(i)
        /\ AgentCommittedReconciled(a, i, collOut) \in Nat
        /\ ReservedCollateralReconciled(i, RestingEscrow(i, resting)) =
               reservedCollateral + RestingEscrow(i, resting)
    BY OrderTyped
  <2>2. collOut \in Nat /\ RestingEscrow(i, resting) \in Nat
    BY <2>1
  <2>3. reservedCollateral + RestingEscrow(i, resting) \in Nat
    BY <2>2
  <2>4. QED
    BY <2>1, <2>2, <2>3
<1>5. VenueTypeOK' /\ nextId[i.pool] \in OrderIds
  BY <1>1, <1>3, <1>4, PlacementTypes DEF PlaceAndReconcile
<1>6. /\ agentNonce' \in [Agents -> Nat]
      /\ agentLastTradeAt' \in [Agents -> Nat]
      /\ agentCommitted' \in [Agents -> Nat]
      /\ reservedCollateral' \in Nat
  BY <1>1, <1>2, <1>4 DEF PlaceAndReconcile, VenueTypeOK
<1>7. domainMarkets' \in [Domains -> Seq(Markets)] /\ marketSlot' \in [Markets -> Nat]
  <2>1. /\ Append(domainMarkets[DomainOf[i.market]], i.market) \in Seq(Markets)
        /\ Len(domainMarkets[DomainOf[i.market]]) + 1 \in Nat
    BY <1>2, <1>3
  <2>2. QED
    BY <1>1, <1>2, <1>3, <2>1 DEF PlaceAndReconcile, Track
<1>8. marketState' \in [Markets -> MarketStates]
  <2>1. ReservedOpen(i, resting) \in [Kinds -> Nat]
    <3>1. marketState[i.market].open \in [Kinds -> Nat]
      BY <1>2 DEF MarketStates
    <3>2. marketState[i.market].open[i.kind] \in Nat
      BY <1>2, <3>1
    <3>3. marketState[i.market].open[i.kind] + i.quantity - (i.quantity - resting) \in Nat
      BY <1>2, <3>2, DropGone
    <3>4. QED
      BY <1>2, <3>1, <3>3 DEF ReservedOpen
  <2>2. [Pinned(i) EXCEPT !.open = ReservedOpen(i, resting)] \in MarketStates
    <3>1. marketState[i.market] \in MarketStates
      BY <1>2
    <3>2. Pinned(i) \in MarketStates
      BY <1>2, <1>3, <3>1 DEF Pinned, MarketStates
    <3>3. QED
      BY <2>1, <3>2 DEF MarketStates
  <2>3. QED
    BY <1>1, <2>2 DEF PlaceAndReconcile
<1>9. orderRec' \in [OrderKeys -> OrderRecs]
  <2>1. CASE resting = 0
    BY <1>1, <2>1 DEF PlaceAndReconcile, RecordResting
  <2>2. CASE resting # 0
    <3> DEFINE r == [agent |-> a, market |-> i.market, kind |-> i.kind,
                     qtyOpen |-> resting, collReserved |-> RestingEscrow(i, resting)]
               key == OrderKey(i.pool, i.marketNonce, nextId[i.pool])
    <3>1. r \in OrderRecs
      BY <1>2, <1>4, <2>2 DEF OrderRecs
    <3>2. orderRec' = [orderRec EXCEPT ![key] = r]
      BY <1>1, <2>2 DEF PlaceAndReconcile, RecordResting
    <3>3. QED
      BY <3>1, <3>2
  <2>3. QED
    BY <2>1, <2>2
<1>10. QED
  BY <1>1, <1>5, <1>6, <1>7, <1>8, <1>9 DEF PlaceAndReconcile, policyVars

\* A market enters its domain's list at the end, below the cap.
LEMMA ExecuteLists ==
    ASSUME TypeInv, NEW a \in Agents, NEW i \in NoncedIntents, Execute(a, i)
    PROVE  DomainListsMatchTracking'
<1> DEFINE m == i.market
           d == DomainOf[m]
<1> USE DEF TypeInv, TypeOK
<1>1. PICK filled \in 0 .. i.quantity, resting \in 0 .. i.quantity,
           collOut \in 0 .. ReserveRequired(i) :
              PlaceAndReconcile(a, i, filled, resting, collOut)
  BY DEF Execute
<1>2. m \in Markets /\ d \in Domains
  BY PortfolioAssumption DEF NoncedIntents, Execute, Admissible, MarketGates
<1>3. /\ marketState'[m].tracked
      /\ marketState'[m].domain = d
      /\ \A n \in Markets \ {m} : marketState'[n] = marketState[n]
  BY <1>1, <1>2 DEF PlaceAndReconcile, Pinned, MarketStates
<1>4. CASE marketState[m].tracked
  <2>1. marketState[m].domain = d
    BY <1>4 DEF Execute, Admissible, MarketGates, GenerationGates
  <2>2. UNCHANGED <<domainMarkets, marketSlot>>
    BY <1>1, <1>4 DEF PlaceAndReconcile, Track
  <2>3. \A n \in Markets : /\ (marketState'[n].tracked <=> marketState[n].tracked)
                            /\ marketState'[n].domain = marketState[n].domain
    BY <1>2, <1>3, <1>4, <2>1
  <2>4. QED
    BY <2>2, <2>3, TrackingUnchanged
<1>5. CASE ~marketState[m].tracked
  <2>1. /\ domainMarkets' = [domainMarkets EXCEPT ![d] = Append(@, m)]
        /\ marketSlot' = [marketSlot EXCEPT ![m] = Len(domainMarkets[d]) + 1]
    BY <1>1, <1>5 DEF PlaceAndReconcile, Track
  <2>2. Len(domainMarkets[d]) < MaxMarkets
    BY <1>2, <1>5 DEF Execute, Admissible, CapacityGates
  <2>3. /\ domainMarkets[d] \in Seq(Markets)
        /\ domainMarkets'[d] = Append(domainMarkets[d], m)
        /\ Len(domainMarkets'[d]) = Len(domainMarkets[d]) + 1
        /\ domainMarkets'[d][Len(domainMarkets[d]) + 1] = m
        /\ \A k \in 1 .. Len(domainMarkets[d]) : domainMarkets'[d][k] = domainMarkets[d][k]
    BY <1>2, <2>1
  <2>4. ASSUME NEW e \in Domains
        PROVE  /\ Len(domainMarkets'[e]) <= MaxMarkets
               /\ \A k \in 1 .. Len(domainMarkets'[e]) :
                     LET n == domainMarkets'[e][k]
                     IN  marketState'[n].tracked /\ marketState'[n].domain = e /\ marketSlot'[n] = k
    <3>1. ASSUME NEW k \in 1 .. Len(domainMarkets[e])
          PROVE  LET n == domainMarkets[e][k]
                 IN  marketState'[n].tracked /\ marketState'[n].domain = e /\ marketSlot'[n] = k
      <4> DEFINE n == domainMarkets[e][k]
      <4>1. marketState[n].tracked /\ marketState[n].domain = e /\ marketSlot[n] = k
        BY DEF DomainListsMatchTracking
      <4>2. domainMarkets[e] \in Seq(Markets)
        OBVIOUS
      <4>3. n \in Markets \ {m}
        BY <1>5, <4>1, <4>2
      <4>4. QED
        BY <1>2, <1>3, <2>1, <4>1, <4>3
    <3>2. CASE e # d
      <4>1. domainMarkets'[e] = domainMarkets[e]
        BY <2>1, <3>2
      <4>2. Len(domainMarkets[e]) <= MaxMarkets
        BY DEF DomainListsMatchTracking
      <4>3. QED
        BY <3>1, <4>1, <4>2
    <3>3. CASE e = d
      <4>1. marketSlot'[m] = Len(domainMarkets[d]) + 1
        BY <1>2, <2>1
      <4>2. Len(domainMarkets[d]) \in Nat
        BY <2>3
      <4>3. QED
        <5>1. Len(domainMarkets'[e]) <= MaxMarkets
          <6>1. MaxMarkets \in Nat
            BY PortfolioAssumption
          <6>2. Len(domainMarkets[d]) + 1 <= MaxMarkets
            BY <2>2, <4>2, <6>1
          <6>3. QED
            BY <2>3, <3>3, <6>2
        <5>2. ASSUME NEW k \in 1 .. Len(domainMarkets'[e])
              PROVE  LET n == domainMarkets'[e][k]
                     IN  marketState'[n].tracked /\ marketState'[n].domain = e /\ marketSlot'[n] = k
          <6>1. CASE k = Len(domainMarkets[d]) + 1
            BY <1>3, <2>3, <3>3, <4>1, <6>1
          <6>2. CASE k # Len(domainMarkets[d]) + 1
            <7>1. k \in 1 .. Len(domainMarkets[d])
              <8>1. Len(domainMarkets'[e]) = Len(domainMarkets[d]) + 1
                BY <2>3, <3>3
              <8>2. k \in 1 .. Len(domainMarkets[d]) + 1
                BY ONLY <8>1, k \in 1 .. Len(domainMarkets'[e])
              <8>3. QED
                BY ONLY <4>2, <6>2, <8>2
            <7>2. domainMarkets'[e][k] = domainMarkets[e][k]
              BY <2>3, <3>3, <7>1
            <7>3. LET n == domainMarkets[e][k]
                  IN  marketState'[n].tracked /\ marketState'[n].domain = e /\ marketSlot'[n] = k
              BY <3>1, <3>3, <7>1
            <7>4. QED
              BY <7>2, <7>3
          <6>3. QED
            BY <6>1, <6>2
        <5>3. QED
          BY <5>1, <5>2
    <3>4. QED
      BY <3>2, <3>3
  <2>5. ASSUME NEW n \in Markets, marketState'[n].tracked
        PROVE  /\ marketState'[n].domain \in Domains
               /\ marketSlot'[n] \in 1 .. Len(domainMarkets'[marketState'[n].domain])
               /\ domainMarkets'[marketState'[n].domain][marketSlot'[n]] = n
    <3>1. CASE n = m
      <4>1. marketSlot'[m] = Len(domainMarkets[d]) + 1
        BY <1>2, <2>1
      <4>2. QED
        <5>1. Len(domainMarkets[d]) + 1 \in 1 .. Len(domainMarkets'[d])
          BY <2>3
        <5>2. QED
          BY <1>2, <1>3, <2>3, <3>1, <4>1, <5>1
    <3>2. CASE n # m
      <4>1. /\ marketState'[n] = marketState[n]
            /\ marketSlot'[n] = marketSlot[n]
        BY <1>3, <2>1, <3>2
      <4>2. /\ marketState[n].domain \in Domains
            /\ marketSlot[n] \in 1 .. Len(domainMarkets[marketState[n].domain])
            /\ domainMarkets[marketState[n].domain][marketSlot[n]] = n
        BY <2>5, <4>1 DEF DomainListsMatchTracking
      <4>3. CASE marketState[n].domain = d
        <5>1. marketSlot[n] \in 1 .. Len(domainMarkets'[d])
          BY <2>3, <4>2, <4>3
        <5>2. domainMarkets'[d][marketSlot[n]] = n
          BY <2>3, <4>2, <4>3
        <5>3. QED
          BY <1>2, <4>1, <4>3, <5>1, <5>2
      <4>4. CASE marketState[n].domain # d
        BY <2>1, <4>1, <4>2, <4>4
      <4>5. QED
        BY <4>3, <4>4
    <3>3. QED
      BY <3>1, <3>2
  <2>6. QED
    BY <2>4, <2>5 DEF DomainListsMatchTracking
<1>6. QED
  BY <1>4, <1>5

-----------------------------------------------------------------------------
(* The lifecycle calls.                                                    *)

\* What a record that is not empty holds, and how a release splits it.
LEMMA RecordFields ==
    ASSUME TypeOK, NEW key \in OrderKeys, orderRec[key].qtyOpen # 0
    PROVE  /\ orderRec[key].agent \in Agents
           /\ orderRec[key].market \in Markets
           /\ orderRec[key].kind \in Kinds
           /\ orderRec[key].qtyOpen \in Nat \ {0}
           /\ orderRec[key].collReserved \in Nat
           /\ orderRec[key] \in [agent : Agents, market : Markets, kind : Kinds,
                                  qtyOpen : Nat \ {0}, collReserved : Nat]
<1>1. orderRec[key] \in OrderRecs
  BY DEF TypeOK
<1>2. orderRec[key] # NoRecord
  BY DEF NoRecord
<1>3. QED
  BY <1>1, <1>2 DEF OrderRecs

LEMMA StillOpenType ==
    ASSUME VenueTypeOK, NEW key \in OrderKeys
    PROVE  StillOpen(key) \in Nat
<1>1. key[1] \in Pools /\ key[3] \in OrderIds
  BY DEF OrderKeys
<1>2. book[<<key[1], key[3]>>].quantityRemaining \in Nat
  BY <1>1 DEF VenueTypeOK, BookOrders
<1>3. QED
  BY <1>2 DEF StillOpen, LiveRemaining

LEMMA WhatIsGone ==
    ASSUME NEW q \in Nat \ {0}, NEW s \in Nat, s < q
    PROVE  q - s \in 1 .. q /\ q - s \in Nat /\ q - (q - s) \in Nat /\ q - (q - s) = s
OBVIOUS

LEMMA ReleaseOrderTypes ==
    ASSUME TypeInv, NEW key \in OrderKeys, ReleaseOrder(key)
    PROVE  TypeInv'
<1> DEFINE o == orderRec[key]
           released == o.qtyOpen - StillOpen(key)
           coll == CollateralReleased(o, released)
           left == [o EXCEPT !.qtyOpen = o.qtyOpen - released,
                             !.collReserved = o.collReserved - coll]
           s == marketState[o.market]
           opened == [s.open EXCEPT ![o.kind] = s.open[o.kind] - released]
<1>1. /\ o.qtyOpen # 0
      /\ StillOpen(key) < o.qtyOpen
      /\ s.open[o.kind] >= released
      /\ marketState' = [marketState EXCEPT ![o.market] = [s EXCEPT !.open = opened]]
      /\ reservedCollateral' = ClampedSub(reservedCollateral, coll)
      /\ orderRec' = [orderRec EXCEPT ![key] = IF left.qtyOpen = 0 THEN NoRecord ELSE left]
      /\ UNCHANGED <<venueVars, policyVars, agentVars, domainMarkets, marketSlot,
                     capitalBase>>
  <2>1. /\ o.qtyOpen # 0
        /\ StillOpen(key) < o.qtyOpen
        /\ s.open[o.kind] >= released
    BY DEF ReleaseOrder
  <2>2. marketState' = [marketState EXCEPT ![o.market] = [s EXCEPT !.open = opened]]
    BY DEF ReleaseOrder
  <2>3. reservedCollateral' = ClampedSub(reservedCollateral, coll)
    BY DEF ReleaseOrder
  <2>4. orderRec' = [orderRec EXCEPT ![key] = IF left.qtyOpen = 0 THEN NoRecord ELSE left]
    BY DEF ReleaseOrder
  <2>5. UNCHANGED <<venueVars, policyVars, agentVars, domainMarkets, marketSlot,
                    capitalBase>>
    BY DEF ReleaseOrder
  <2>6. QED
    BY <2>1, <2>2, <2>3, <2>4, <2>5
<1>2. /\ o.market \in Markets /\ o.kind \in Kinds /\ o.agent \in Agents
      /\ o.qtyOpen \in Nat \ {0} /\ o.collReserved \in Nat
  <2>1. TypeOK /\ o.qtyOpen # 0
    BY <1>1 DEF TypeInv
  <2>2. QED
    BY <2>1, RecordFields
<1> USE DEF TypeInv, TypeOK
<1>3. StillOpen(key) \in Nat
  BY StillOpenType
<1>4. released \in 1 .. o.qtyOpen /\ released \in Nat /\ o.qtyOpen - released \in Nat
  BY <1>1, <1>2, <1>3, WhatIsGone
<1>5. coll \in 0 .. o.collReserved
  BY <1>2, <1>4, ShareType DEF CollateralReleased
<1>6. orderRec' \in [OrderKeys -> OrderRecs]
  <2>1. CASE left.qtyOpen = 0
    BY <1>1, <2>1 DEF OrderRecs
  <2>2. CASE left.qtyOpen # 0
    <3>1. /\ left.qtyOpen = o.qtyOpen - released
          /\ left.collReserved = o.collReserved - coll
          /\ left.agent = o.agent /\ left.market = o.market /\ left.kind = o.kind
      BY <1>1, RecordFields
    <3>2. o.qtyOpen - released \in Nat \ {0} /\ o.collReserved - coll \in Nat
      BY <1>2, <1>4, <1>5, <2>2, <3>1
    <3>3. left \in OrderRecs
      <4>1. o \in [agent : Agents, market : Markets, kind : Kinds,
                  qtyOpen : Nat \ {0}, collReserved : Nat]
        BY <1>1, RecordFields
      <4>2. left \in [agent : Agents, market : Markets, kind : Kinds,
                     qtyOpen : Nat \ {0}, collReserved : Nat]
        BY <3>1, <3>2, <4>1
      <4>3. QED
        BY <4>2 DEF OrderRecs
    <3>4. QED
      BY <1>1, <2>2, <3>3
  <2>3. QED
    BY <2>1, <2>2
<1>7. s \in MarketStates /\ s.open \in [Kinds -> Nat]
  BY <1>2 DEF MarketStates
<1>8. marketState' \in [Markets -> MarketStates]
  <2>1. s.open[o.kind] - released \in Nat
    <3>1. s.open[o.kind] \in Nat
      BY <1>2, <1>7
    <3>2. QED
      BY <1>1, <1>4, <3>1
  <2>2. opened \in [Kinds -> Nat]
    BY <1>2, <1>7, <2>1
  <2>3. [s EXCEPT !.open = opened] \in MarketStates
    BY <1>7, <2>2 DEF MarketStates
  <2>4. QED
    BY <1>1, <2>3
<1>9. reservedCollateral' \in Nat
  <2>1. coll \in Nat
    BY <1>2, <1>5
  <2>2. QED
    BY <1>1, <2>1 DEF ClampedSub
<1>10. TypeOK'
  BY <1>1, <1>6, <1>8, <1>9
  DEF venueVars, policyVars, agentVars, VenueTypeOK
<1>11. ASSUME NEW m \in Markets
       PROVE  /\ (marketState'[m].tracked <=> marketState[m].tracked)
              /\ marketState'[m].domain = marketState[m].domain
  BY <1>1, <1>7 DEF MarketStates
<1>12. DomainListsMatchTracking'
  BY <1>1, <1>11, TrackingUnchanged
<1>13. QED
  BY <1>10, <1>12

LEMMA ReleaseSettledTypes ==
    ASSUME TypeInv, NEW m \in Markets, ReleaseSettled(m)
    PROVE  TypeInv'
<1> USE DEF TypeInv, TypeOK
<1>1. /\ marketState' = [marketState EXCEPT ![m] =
            [marketState[m] EXCEPT !.open = NoReservation, !.settled = TRUE]]
      /\ UNCHANGED <<venueVars, policyVars, agentVars, domainMarkets, marketSlot,
                     bookVars, capitalBase>>
  BY DEF ReleaseSettled
<1>2. [marketState[m] EXCEPT !.open = NoReservation, !.settled = TRUE] \in MarketStates
  BY DEF MarketStates, NoReservation
<1>3. TypeOK'
  BY <1>1, <1>2 DEF venueVars, policyVars, agentVars, bookVars, VenueTypeOK
<1>4. ASSUME NEW n \in Markets
      PROVE  /\ (marketState'[n].tracked <=> marketState[n].tracked)
             /\ marketState'[n].domain = marketState[n].domain
  BY <1>1 DEF MarketStates
<1>5. DomainListsMatchTracking'
  BY <1>1, <1>4, TrackingUnchanged
<1>6. QED
  BY <1>3, <1>5

\* The last market of the list takes the freed slot, whichever slot that is.
LEMMA PruneMarketTypes ==
    ASSUME TypeInv, NEW m \in Markets, PruneMarket(m)
    PROVE  TypeInv'
<1> DEFINE s == marketState[m]
           d == s.domain
           list == domainMarkets[d]
           slot == marketSlot[m]
           n == Len(list)
           moved == list[n]
           short == SubSeq([list EXCEPT ![slot] = moved], 1, n - 1)
<1> USE DEF TypeInv, TypeOK
<1>1. /\ s.tracked
      /\ domainMarkets' = [domainMarkets EXCEPT ![d] = short]
      /\ marketSlot' = [marketSlot EXCEPT ![moved] = slot, ![m] = 0]
      /\ marketState' = [marketState EXCEPT ![m] = [s EXCEPT !.tracked = FALSE]]
      /\ UNCHANGED <<venueVars, policyVars, agentVars, bookVars, capitalBase>>
  BY DEF PruneMarket, ListWithout
<1>2. d \in Domains /\ slot \in 1 .. n /\ list[slot] = m
  BY <1>1 DEF DomainListsMatchTracking
<1>3. list \in Seq(Markets) /\ n \in Nat /\ n >= 1 /\ moved \in Markets
  <2>1. list \in Seq(Markets)
    BY <1>2
  <2>2. n \in Nat /\ n >= 1
    BY <1>2, <2>1
  <2>3. QED
    BY <2>1, <2>2
<1>4. /\ short \in Seq(Markets)
      /\ Len(short) = n - 1
      /\ \A k \in 1 .. n - 1 : short[k] = IF k = slot THEN moved ELSE list[k]
  <2>1. [list EXCEPT ![slot] = moved] \in Seq(Markets)
    BY <1>2, <1>3
  <2>2. Len([list EXCEPT ![slot] = moved]) = n
    BY <1>2, <1>3
  <2>3. \A k \in 1 .. n : [list EXCEPT ![slot] = moved][k] = IF k = slot THEN moved ELSE list[k]
    BY <1>2, <1>3
  <2> HIDE DEF n, moved
  <2>4. short \in Seq(Markets) /\ Len(short) = n - 1
    BY <1>3, <2>1, <2>2
  <2>5. \A k \in 1 .. n - 1 : short[k] = [list EXCEPT ![slot] = moved][k]
    BY <1>3, <2>1, <2>2
  <2>6. 1 .. n - 1 \subseteq 1 .. n
    BY <1>3
  <2> HIDE DEF short
  <2>7. QED
    BY <2>3, <2>4, <2>5, <2>6
<1>5. /\ s \in MarketStates
      /\ [s EXCEPT !.tracked = FALSE] \in MarketStates
  BY DEF MarketStates
<1>6. TypeOK'
  <2>1. marketState' \in [Markets -> MarketStates]
    BY <1>1, <1>5
  <2>2. domainMarkets' \in [Domains -> Seq(Markets)]
    BY <1>1, <1>4
  <2>3. marketSlot' \in [Markets -> Nat]
    BY <1>1
  <2>4. QED
    BY <1>1, <2>1, <2>2, <2>3
    DEF venueVars, policyVars, agentVars, bookVars, VenueTypeOK
<1>7. /\ marketState[moved].tracked /\ marketState[moved].domain = d
      /\ marketSlot[moved] = n
      /\ \A k \in 1 .. n : marketSlot[list[k]] = k
  BY <1>2, <1>3 DEF DomainListsMatchTracking
<1>8. /\ ~marketState'[m].tracked
      /\ \A x \in Markets \ {m} : marketState'[x] = marketState[x]
  BY <1>1 DEF MarketStates
<1>9. \A x \in Markets \ {m, moved} : marketSlot'[x] = marketSlot[x]
  BY <1>1
<1>10. moved # m => marketSlot'[moved] = slot
  BY <1>1, <1>3
<1>11. ASSUME NEW e \in Domains
       PROVE  /\ Len(domainMarkets'[e]) <= MaxMarkets
              /\ \A k \in 1 .. Len(domainMarkets'[e]) :
                    LET x == domainMarkets'[e][k]
                    IN  marketState'[x].tracked /\ marketState'[x].domain = e /\ marketSlot'[x] = k
  <2>1. /\ Len(domainMarkets[e]) <= MaxMarkets
        /\ \A k \in 1 .. Len(domainMarkets[e]) :
              LET x == domainMarkets[e][k]
              IN  marketState[x].tracked /\ marketState[x].domain = e /\ marketSlot[x] = k
    BY DEF DomainListsMatchTracking
  <2>2. CASE e # d
    <3>1. domainMarkets'[e] = domainMarkets[e]
      BY <1>1, <2>2
    <3>2. ASSUME NEW k \in 1 .. Len(domainMarkets[e])
          PROVE  domainMarkets[e][k] \in Markets \ {m, moved}
      <4>1. domainMarkets[e] \in Seq(Markets)
        OBVIOUS
      <4>2. domainMarkets[e][k] \in Markets
        BY <4>1
      <4>3. marketState[domainMarkets[e][k]].domain = e
        BY <2>1
      <4>4. QED
        BY <1>7, <2>2, <4>2, <4>3
    <3>3. QED
      BY <1>8, <1>9, <2>1, <3>1, <3>2
  <2>3. CASE e = d
    <3>1. domainMarkets'[e] = short
      BY <1>1, <1>2, <2>3
    <3>2. MaxMarkets \in Nat
      BY PortfolioAssumption
    <3>3. Len(short) <= MaxMarkets
      BY <1>3, <1>4, <2>1, <2>3, <3>2
    <3>4. ASSUME NEW k \in 1 .. n - 1
          PROVE  marketState'[short[k]].tracked /\ marketState'[short[k]].domain = d /\ marketSlot'[short[k]] = k
      <4>1. CASE k = slot
        <5>1. short[k] = moved
          BY <1>4, <4>1
        <5>2. moved # m
          BY <1>2, <1>3, <1>7, <4>1
        <5>3. marketState'[moved] = marketState[moved] /\ marketSlot'[moved] = slot
          BY <1>3, <1>8, <1>10, <5>2
        <5>4. QED
          BY <1>7, <4>1, <5>1, <5>3
      <4>2. CASE k # slot
        <5>1. short[k] = list[k] /\ k \in 1 .. n
          BY <1>3, <1>4, <4>2
        <5>2. marketSlot[list[k]] = k /\ list[k] \in Markets
          BY <1>3, <1>7, <5>1
        <5>3. list[k] # m /\ list[k] # moved
          BY <1>3, <1>7, <4>2, <5>2
        <5>4. marketState[list[k]].tracked /\ marketState[list[k]].domain = d
          BY <1>2, <5>1 DEF DomainListsMatchTracking
        <5>5. QED
          <6>1. list[k] \in Markets \ {m, moved}
            BY <5>2, <5>3
          <6>2. marketState'[list[k]] = marketState[list[k]] /\ marketSlot'[list[k]] = k
            BY <1>8, <1>9, <5>2, <6>1
          <6>3. QED
            BY <5>1, <5>4, <6>2
      <4>3. QED
        BY <4>1, <4>2
    <3>5. QED
      <4>1. Len(domainMarkets'[e]) = n - 1 /\ domainMarkets'[e] = short
        BY <1>4, <3>1
      <4> HIDE DEF short, n
      <4>2. QED
        BY <2>3, <3>3, <3>4, <4>1
  <2>4. QED
    BY <2>2, <2>3
<1>12. ASSUME NEW x \in Markets, marketState'[x].tracked
       PROVE  /\ marketState'[x].domain \in Domains
              /\ marketSlot'[x] \in 1 .. Len(domainMarkets'[marketState'[x].domain])
              /\ domainMarkets'[marketState'[x].domain][marketSlot'[x]] = x
  <2>1. x # m /\ marketState'[x] = marketState[x]
    BY <1>8, <1>12
  <2>2. /\ marketState[x].domain \in Domains
        /\ marketSlot[x] \in 1 .. Len(domainMarkets[marketState[x].domain])
        /\ domainMarkets[marketState[x].domain][marketSlot[x]] = x
    BY <1>12, <2>1 DEF DomainListsMatchTracking
  <2>3. CASE x = moved
    <3>1. slot # n
      BY <1>2, <2>1, <2>3
    <3>2. slot \in 1 .. n - 1 /\ short[slot] = moved
      BY <1>2, <1>3, <1>4, <3>1
    <3>3. marketSlot'[x] = slot /\ marketState'[x].domain = d
      BY <1>7, <1>10, <2>1, <2>3
    <3>4. domainMarkets'[d] = short
      BY <1>1, <1>2
    <3>5. QED
      BY <1>2, <1>4, <2>3, <3>2, <3>3, <3>4
  <2>4. CASE x # moved /\ marketState[x].domain = d
    <3>1. marketSlot'[x] = marketSlot[x]
      BY <1>9, <2>1, <2>4
    <3>2. marketSlot[x] # slot /\ marketSlot[x] # n
      BY <1>2, <2>1, <2>2, <2>4
    <3>3. marketSlot[x] \in 1 .. n - 1 /\ short[marketSlot[x]] = x
      BY <1>3, <1>4, <2>2, <2>4, <3>2
    <3>4. domainMarkets'[d] = short
      BY <1>1, <1>2
    <3>5. QED
      BY <1>2, <1>4, <2>1, <2>4, <3>1, <3>3, <3>4
  <2>5. CASE x # moved /\ marketState[x].domain # d
    <3>1. marketSlot'[x] = marketSlot[x]
      BY <1>9, <2>1, <2>5
    <3>2. domainMarkets'[marketState[x].domain] = domainMarkets[marketState[x].domain]
      BY <1>1, <2>2, <2>5
    <3>3. QED
      BY <2>1, <2>2, <3>1, <3>2
  <2>6. QED
    BY <2>3, <2>4, <2>5
<1>13. DomainListsMatchTracking'
  BY <1>11, <1>12 DEF DomainListsMatchTracking
<1>14. QED
  BY <1>6, <1>13

-----------------------------------------------------------------------------
(* The owner's calls.                                                      *)

LEMMA PayoutType ==
    ASSUME NEW m \in Markets, NEW side \in Sides, NEW n \in Nat
    PROVE  Payout(m, side, n) \in Nat
<1>1. n \div 2 \in Nat
  BY DivBounds
<1>2. QED
  BY <1>1 DEF Payout

LEMMA AgentPolicyKept ==
    ASSUME NEW ap \in AgentPolicyType
    PROVE  /\ [ap EXCEPT !.registered = TRUE] \in AgentPolicyType
           /\ [ap EXCEPT !.enabled = FALSE] \in AgentPolicyType
BY DEF AgentPolicyType

LEMMA OwnerTypes ==
    ASSUME TypeInv, OwnerNext
    PROVE  TypeInv'
<1> USE PortfolioAssumption, VenueAssumption
<1> USE DEF TypeInv, TypeOK, venueVars, policyVars, agentVars, marketVars, bookVars,
            portfolioVars, VenueTypeOK
<1>1. ASSUME UNCHANGED marketVars PROVE DomainListsMatchTracking'
  BY <1>1, TrackingUnchanged
<1>2. ASSUME NEW gp \in GlobalPolicies, SetGlobalPolicy(gp) PROVE TypeInv'
  BY <1>1, <1>2 DEF SetGlobalPolicy
<1>3. ASSUME NEW d \in Domains, NEW dp \in DomainPolicies, SetDomainPolicy(d, dp)
      PROVE  TypeInv'
  BY <1>1, <1>3 DEF SetDomainPolicy
<1>4. ASSUME NEW a \in Agents, NEW ap \in AgentPolicyType, SetAgent(a, ap) PROVE TypeInv'
  <2>1. [ap EXCEPT !.registered = TRUE] \in AgentPolicyType
    BY AgentPolicyKept
  <2>2. QED
    BY <1>1, <1>4, <2>1 DEF SetAgent
<1>5. ASSUME NEW a \in Agents, RevokeAgent(a) PROVE TypeInv'
  <2>1. [agentPolicy[a] EXCEPT !.enabled = FALSE] \in AgentPolicyType
    <3>1. agentPolicy[a] \in AgentPolicyType
      OBVIOUS
    <3>2. QED
      BY <3>1, AgentPolicyKept
  <2>2. QED
    BY <1>4, <1>5, <2>1 DEF RevokeAgent
<1>6. ASSUME NEW n \in Amounts, Fund(n) \/ SetCapitalBase(n) \/ Withdraw(n) PROVE TypeInv'
  <2>1. n \in Nat
    OBVIOUS
  <2>2. CASE Fund(n)
    BY <1>1, <2>1, <2>2 DEF Fund
  <2>3. CASE SetCapitalBase(n)
    BY <1>1, <2>1, <2>3 DEF SetCapitalBase
  <2>4. CASE Withdraw(n)
    <3>1. free' \in Nat /\ capitalBase' \in Nat
      BY <2>1, <2>4 DEF Withdraw, ClampedSub
    <3>2. QED
      BY <1>1, <2>4, <3>1 DEF Withdraw
  <2>5. QED
    BY <1>6, <2>2, <2>3, <2>4
<1>7. ASSUME NEW t \in TokenIds, NEW n \in Amounts, WithdrawOutcome(t, n) PROVE TypeInv'
  <2>1. bal' \in [TokenIds -> Nat]
    BY <1>7 DEF WithdrawOutcome
  <2>2. QED
    BY <1>1, <1>7, <2>1 DEF WithdrawOutcome
<1>8. ASSUME NEW p \in Pools, NEW id \in OrderIds, CancelOrder(p, id) PROVE TypeInv'
  <2>1. VenueTypeOK'
    BY <1>8, VenueStepTypes DEF CancelOrder, VenueNext
  <2>2. QED
    BY <1>1, <1>8, <2>1 DEF CancelOrder
<1>9. ASSUME NEW m \in Markets, NEW side \in Sides, NEW n \in Amounts, Redeem(m, side, n)
      PROVE  TypeInv'
  <2>1. TokenId(PoolOf[m], GenOf[m], side) \in TokenIds
    BY DEF TokenId, TokenIds
  <2>2. free' \in Nat
    <3>1. n \in Nat /\ Payout(m, side, n) \in Nat
      BY PayoutType
    <3>2. free' = free + Payout(m, side, n)
      BY <1>9 DEF Redeem
    <3>3. QED
      BY <3>1, <3>2
  <2>3. bal' \in [TokenIds -> Nat]
    BY <1>9, <2>1 DEF Redeem
  <2>4. QED
    BY <1>1, <1>9, <2>2, <2>3 DEF Redeem
<1>10. QED
  BY <1>2, <1>3, <1>4, <1>5, <1>6, <1>7, <1>8, <1>9 DEF OwnerNext

-----------------------------------------------------------------------------

LEMMA TypeInvStep ==
    ASSUME TypeInv, [Next]_vars
    PROVE  TypeInv'
<1>1. ASSUME AgentNext PROVE TypeInv'
  <2>1. PICK a \in Agents, i \in Intents, n \in 1 .. MaxNonce : Execute(a, WithNonce(i, n))
    BY <1>1 DEF AgentNext
  <2>2. WithNonce(i, n) \in NoncedIntents
    BY IntentsTyped
  <2>3. QED
    BY <2>1, <2>2, ExecuteTypes, ExecuteLists DEF TypeInv
<1>2. ASSUME LifecycleNext PROVE TypeInv'
  BY <1>2, ReleaseOrderTypes, ReleaseSettledTypes, PruneMarketTypes DEF LifecycleNext
<1>3. ASSUME OwnerNext PROVE TypeInv'
  BY <1>3, OwnerTypes
<1>4. ASSUME VenueNext, UNCHANGED portfolioVars PROVE TypeInv'
  <2>1. VenueTypeOK'
    BY <1>4, VenueStepTypes DEF TypeInv, TypeOK
  <2>2. DomainListsMatchTracking'
    BY <1>4, TrackingUnchanged DEF TypeInv, TypeOK, portfolioVars, marketVars
  <2>3. QED
    BY <1>4, <2>1, <2>2
    DEF TypeInv, TypeOK, portfolioVars, policyVars, agentVars, marketVars, bookVars
<1>5. ASSUME UNCHANGED vars PROVE TypeInv'
  <2>1. DomainListsMatchTracking'
    BY <1>5, TrackingUnchanged DEF TypeInv, TypeOK, vars, portfolioVars, marketVars
  <2>2. QED
    BY <1>5, <2>1
    DEF TypeInv, TypeOK, VenueTypeOK, vars, venueVars, portfolioVars, policyVars,
        agentVars, marketVars, bookVars
<1>6. QED
  BY <1>1, <1>2, <1>3, <1>4, <1>5 DEF Next

\* Whatever agents, keepers, the owner and the venue do, every variable keeps its
\* type: no subtraction of execute, releaseOrder or withdraw leaves the naturals
\* and no list read of pruneMarket leaves the list.
THEOREM TypeCorrect == Spec => []TypeOK
<1>1. Init => TypeInv
  BY InitTypeInv
<1>2. TypeInv /\ [Next]_vars => TypeInv'
  BY TypeInvStep
<1>3. TypeInv => TypeOK
  BY DEF TypeInv
<1>4. QED
  BY <1>1, <1>2, <1>3, PTL DEF Spec

\* A domain's list is exactly its tracked markets, each once, at its slot and
\* within the cap, for any number of markets and domains.
THEOREM ListsCorrect == Spec => []DomainListsMatchTracking
<1>1. Init => TypeInv
  BY InitTypeInv
<1>2. TypeInv /\ [Next]_vars => TypeInv'
  BY TypeInvStep
<1>3. TypeInv => DomainListsMatchTracking
  BY DEF TypeInv
<1>4. QED
  BY <1>1, <1>2, <1>3, PTL DEF Spec

-----------------------------------------------------------------------------
(* The inductive invariant of the books.                                   *)

\* A pool only moves on from a market that has settled or stopped trading.
PastMarketsOver ==
    \A m \in Markets :
        poolNonce[PoolOf[m]] > GenOf[m] => IsSettled(m) \/ now >= Expiry[m]

\* No record has the key the next order will get.
IdsInOrder ==
    \A key \in Records :
        /\ key[2] <= poolNonce[key[1]]
        /\ key[2] = poolNonce[key[1]] => key[3] < nextId[key[1]]

\* What RecordsCoverOrders says, with the collateral compared to the whole
\* quantity of the record: it is this that a partial release preserves.
RecordsPay ==
    \A o \in Resting :
        LET r == orderRec[KeyOf(o)]
            b == book[o]
        IN  /\ r.qtyOpen >= b.quantityRemaining
            /\ r.kind = b.kind
            /\ Hosts(o[1], r.market)
            /\ IsBuy(b.kind) =>
                 UnitPrice(b.kind, b.price) * r.qtyOpen <= r.collReserved * One

BooksInv ==
    /\ TypeInv
    /\ PastMarketsOver
    /\ PinnedToItsGeneration
    /\ IdsInOrder
    /\ RecordsPay
    /\ ReservedMatchesRecords
    /\ ReservationsMatchRecords
    /\ AttributionCoversReservations

-----------------------------------------------------------------------------
(* The three kinds of step.                                                *)

\* What every step but a placement and releaseOrder leaves alone: the records,
\* and the reservations of every market that is not settled.
QuietPortfolio ==
    /\ UNCHANGED <<orderRec, reservedCollateral, agentCommitted>>
    /\ \A m \in Markets :
          /\ marketState'[m].pool = marketState[m].pool
          /\ marketState'[m].marketNonce = marketState[m].marketNonce
          /\ marketState'[m].domain = marketState[m].domain
          /\ marketState'[m].tracked => marketState[m].tracked
          /\ ~marketState'[m].settled =>
                /\ ~marketState[m].settled
                /\ marketState'[m].open = marketState[m].open

\* How a step that places no order can move the venue.
QuietVenue ==
    \/ UNCHANGED <<now, phase, poolNonce, nextId, book>>
    \/ /\ UNCHANGED <<poolNonce, nextId, book>>
       /\ now' \in Nat /\ now' >= now
       /\ \A m \in Markets : phase[m] \in Terminal => phase'[m] \in Terminal
    \/ /\ UNCHANGED <<now, phase, poolNonce, nextId>>
       /\ \E o \in Pools \X OrderIds : \E n \in 1 .. book[o].quantityRemaining :
             book' = [book EXCEPT ![o] = Reduced(book[o], n)]
    \/ /\ UNCHANGED <<now, phase, book>>
       /\ \E p \in Pools : Roll(p)

LEMMA VenueIsQuiet ==
    ASSUME VenueTypeOK, VenueNext
    PROVE  QuietVenue
<1> USE VenueAssumption DEF VenueTypeOK, QuietVenue
<1>1. ASSUME NEW p \in Pools, NEW id \in OrderIds,
             NEW n \in 1 .. LiveRemaining(p, id), ExternalFill(p, id, n)
      PROVE  QuietVenue
  <2>1. <<p, id>> \in Pools \X OrderIds /\ n \in 1 .. book[<<p, id>>].quantityRemaining
    BY DEF LiveRemaining
  <2>2. book' = [book EXCEPT ![<<p, id>>] = Reduced(book[<<p, id>>], n)]
    BY <1>1 DEF ExternalFill
  <2>3. UNCHANGED <<now, phase, poolNonce, nextId>>
    BY <1>1 DEF ExternalFill
  <2>4. QED
    BY <2>1, <2>2, <2>3
<1>2. ASSUME NEW p \in Pools, NEW id \in OrderIds, RemoveOrder(p, id)
      PROVE  QuietVenue
  <2> DEFINE o == book[<<p, id>>]
  <2>1. <<p, id>> \in Pools \X OrderIds /\ o \in BookOrders
    OBVIOUS
  <2>2. o.quantityRemaining \in 1 .. o.quantityRemaining
    BY <1>2, <2>1 DEF RemoveOrder, BookOrders
  <2>3. book' = [book EXCEPT ![<<p, id>>] = Reduced(o, o.quantityRemaining)]
    BY <1>2 DEF RemoveOrder, Reduced
  <2>4. UNCHANGED <<now, phase, poolNonce, nextId>>
    BY <1>2 DEF RemoveOrder
  <2>5. QED
    BY <2>1, <2>2, <2>3, <2>4
<1>3. ASSUME NEW m \in Markets, Finalize(m)
      PROVE  QuietVenue
  <2>1. UNCHANGED <<now, poolNonce, nextId, book>>
    BY <1>3 DEF Finalize
  <2>2. \A n \in Markets : phase[n] \in Terminal => phase'[n] \in Terminal
    BY <1>3 DEF Finalize, Terminal
  <2>3. QED
    BY <2>1, <2>2
<1>4. ASSUME NEW m \in Markets, NEW outcome \in Outcomes, Settle(m, outcome)
      PROVE  QuietVenue
  <2>1. UNCHANGED <<now, poolNonce, nextId, book>>
    BY <1>4 DEF Settle
  <2>2. \A n \in Markets : phase[n] \in Terminal => phase'[n] \in Terminal
    BY <1>4 DEF Settle
  <2>3. QED
    BY <2>1, <2>2
<1>5. ASSUME NEW p \in Pools, Roll(p)
      PROVE  QuietVenue
  BY <1>5 DEF Roll
<1>6. ASSUME NEW t \in TokenIds, NEW n \in DepositSizes, DepositOutcome(t, n)
      PROVE  QuietVenue
  BY <1>6 DEF DepositOutcome
<1>7. ASSUME Tick
      PROVE  QuietVenue
  BY <1>7 DEF Tick
<1>8. QED
  BY <1>1, <1>2, <1>3, <1>4, <1>5, <1>6, <1>7 DEF VenueNext

\* A portfolio whose markets and books do not move is quiet.
LEMMA PortfolioIsQuiet ==
    ASSUME UNCHANGED <<marketState, orderRec, reservedCollateral, agentCommitted>>
    PROVE  QuietPortfolio
BY DEF QuietPortfolio

\* The owner's calls are quiet.
LEMMA OwnerIsQuiet ==
    ASSUME TypeOK, OwnerNext
    PROVE  QuietPortfolio /\ QuietVenue
<1> USE PortfolioIsQuiet
    DEF venueVars, portfolioVars, policyVars, agentVars, marketVars, bookVars
<1>1. ASSUME NEW p \in Pools, NEW id \in OrderIds, CancelOrder(p, id)
      PROVE  QuietPortfolio /\ QuietVenue
  <2>1. VenueNext
    BY <1>1 DEF CancelOrder, VenueNext
  <2>2. VenueTypeOK /\ UNCHANGED portfolioVars
    BY <1>1 DEF TypeOK, CancelOrder
  <2>3. QED
    BY <2>1, <2>2, VenueIsQuiet
<1>2. ASSUME \E gp \in GlobalPolicies : SetGlobalPolicy(gp)
      PROVE  QuietPortfolio /\ QuietVenue
  BY <1>2 DEF SetGlobalPolicy, QuietVenue
<1>3. ASSUME \E d \in Domains, dp \in DomainPolicies : SetDomainPolicy(d, dp)
      PROVE  QuietPortfolio /\ QuietVenue
  BY <1>3 DEF SetDomainPolicy, QuietVenue
<1>4. ASSUME \/ \E a \in Agents, ap \in AgentPolicies : SetAgent(a, ap)
             \/ \E a \in Agents : RevokeAgent(a)
      PROVE  QuietPortfolio /\ QuietVenue
  BY <1>4 DEF SetAgent, RevokeAgent, QuietVenue
<1>5. ASSUME \E n \in Amounts : Fund(n) \/ SetCapitalBase(n) \/ Withdraw(n)
      PROVE  QuietPortfolio /\ QuietVenue
  BY <1>5 DEF Fund, SetCapitalBase, Withdraw, QuietVenue
<1>6. ASSUME \E t \in TokenIds, n \in Amounts : WithdrawOutcome(t, n)
      PROVE  QuietPortfolio /\ QuietVenue
  BY <1>6 DEF WithdrawOutcome, QuietVenue
<1>7. ASSUME \E m \in Markets, side \in Sides, n \in Amounts : Redeem(m, side, n)
      PROVE  QuietPortfolio /\ QuietVenue
  BY <1>7 DEF Redeem, QuietVenue
<1>8. QED
  BY <1>1, <1>2, <1>3, <1>4, <1>5, <1>6, <1>7 DEF OwnerNext

\* Every step places an order, releases one, or is quiet.
LEMMA StepKinds ==
    ASSUME TypeInv, [Next]_vars
    PROVE  \/ \E a \in Agents, i \in NoncedIntents : Execute(a, i)
           \/ \E key \in OrderKeys : ReleaseOrder(key)
           \/ QuietPortfolio /\ QuietVenue
<1> USE DEF TypeInv, TypeOK
<1>1. ASSUME AgentNext
      PROVE  \E a \in Agents, i \in NoncedIntents : Execute(a, i)
  <2>1. PICK a \in Agents, i \in Intents, n \in 1 .. MaxNonce : Execute(a, WithNonce(i, n))
    BY <1>1 DEF AgentNext
  <2>2. WithNonce(i, n) \in NoncedIntents
    BY IntentsTyped
  <2>3. QED
    BY <2>1, <2>2
<1>2. ASSUME NEW m \in Markets, ReleaseSettled(m)
      PROVE  QuietPortfolio /\ QuietVenue
  <2>1. /\ marketState' = [marketState EXCEPT ![m] =
              [marketState[m] EXCEPT !.open = NoReservation, !.settled = TRUE]]
        /\ UNCHANGED <<venueVars, agentVars, bookVars>>
    BY <1>2 DEF ReleaseSettled
  <2>2. marketState[m] \in MarketStates
    OBVIOUS
  <2>3. QED
    BY <2>1, <2>2
    DEF MarketStates, QuietPortfolio, QuietVenue, venueVars, agentVars, bookVars
<1>3. ASSUME NEW m \in Markets, PruneMarket(m)
      PROVE  QuietPortfolio /\ QuietVenue
  <2>1. /\ marketState[m].tracked
        /\ marketState' = [marketState EXCEPT ![m] = [marketState[m] EXCEPT !.tracked = FALSE]]
        /\ UNCHANGED <<venueVars, agentVars, bookVars>>
    BY <1>3 DEF PruneMarket
  <2>2. marketState[m] \in MarketStates
    OBVIOUS
  <2>3. QED
    BY <2>1, <2>2
    DEF MarketStates, QuietPortfolio, QuietVenue, venueVars, agentVars, bookVars
<1>4. ASSUME OwnerNext
      PROVE  QuietPortfolio /\ QuietVenue
  BY <1>4, OwnerIsQuiet
<1>5. ASSUME VenueNext, UNCHANGED portfolioVars
      PROVE  QuietPortfolio /\ QuietVenue
  BY <1>5, VenueIsQuiet, PortfolioIsQuiet DEF portfolioVars, agentVars, marketVars, bookVars
<1>6. ASSUME UNCHANGED vars
      PROVE  QuietPortfolio /\ QuietVenue
  BY <1>6, PortfolioIsQuiet
  DEF QuietVenue, vars, venueVars, portfolioVars, agentVars, marketVars, bookVars
<1>7. QED
  BY <1>1, <1>2, <1>3, <1>4, <1>5, <1>6 DEF Next, LifecycleNext

-----------------------------------------------------------------------------
(* The step that places an order.                                          *)

NewKey(i) == OrderKey(i.pool, i.marketNonce, nextId[i.pool])

NewRecord(a, i, resting) ==
    [agent |-> a, market |-> i.market, kind |-> i.kind, qtyOpen |-> resting,
     collReserved |-> RestingEscrow(i, resting)]

NewOrder(i, resting) ==
    [kind |-> i.kind, price |-> i.price, quantityRemaining |-> resting]

\* An admitted order is for the market its pool hosts now, and pins it to that
\* generation.  Neither gate says so alone: had the pool moved on, the market
\* would be over.
LEMMA AdmittedIsCurrent ==
    ASSUME TypeOK, PastMarketsOver, PinnedToItsGeneration,
           NEW a \in Agents, NEW i \in NoncedIntents, Admissible(a, i)
    PROVE  /\ i.pool = PoolOf[i.market]
           /\ i.marketNonce = poolNonce[i.pool]
           /\ i.marketNonce = GenOf[i.market]
<1>1. i.market \in Markets /\ i.pool \in Pools /\ i.marketNonce \in Gens
  BY IntentFields
<1>2. /\ i.pool = PoolOf[i.market]
      /\ i.marketNonce = poolNonce[i.pool]
      /\ poolNonce[PoolOf[i.market]] >= GenOf[i.market]
      /\ ~IsSettled(i.market)
      /\ now < Expiry[i.market]
  BY DEF Admissible, MarketGates, GenerationGates, TradingGates, Registered
<1>3. /\ poolNonce[i.pool] \in Nat /\ GenOf[i.market] \in Nat
      /\ now \in Nat /\ Expiry[i.market] \in Nat
  <2>1. now \in Nat /\ poolNonce \in [Pools -> Gens]
    BY DEF TypeOK, VenueTypeOK
  <2>2. GenOf \in [Markets -> Gens] /\ Expiry \in [Markets -> Nat] /\ Gens \subseteq Nat
    BY VenueAssumption DEF Gens
  <2>3. QED
    BY <1>1, <2>1, <2>2
<1>4. ~(poolNonce[PoolOf[i.market]] > GenOf[i.market])
  BY <1>1, <1>2, <1>3 DEF PastMarketsOver
<1>5. QED
  BY <1>2, <1>3, <1>4

\* What it does to the venue.
LEMMA PlacedVenue ==
    ASSUME TypeOK, PastMarketsOver, PinnedToItsGeneration,
           NEW a \in Agents, NEW i \in NoncedIntents,
           NEW filled \in 0 .. i.quantity, NEW resting \in 0 .. i.quantity,
           NEW collOut \in 0 .. ReserveRequired(i),
           Admissible(a, i), PlaceAndReconcile(a, i, filled, resting, collOut)
    PROVE  /\ nextId[i.pool] \in OrderIds
           /\ nextId' = [nextId EXCEPT ![i.pool] = nextId[i.pool] + 1]
           /\ UNCHANGED <<now, phase, poolNonce>>
           /\ resting = 0 => UNCHANGED book
           /\ resting # 0 => book'[<<i.pool, nextId[i.pool]>>] = NewOrder(i, resting)
           /\ \A o \in (Pools \X OrderIds) \ {<<i.pool, nextId[i.pool]>>} : book'[o] = book[o]
<1>1. i.pool \in Pools
  BY IntentFields
<1>2. i.marketNonce = poolNonce[i.pool]
  BY AdmittedIsCurrent
<1>3. collOut \in Nat
  BY OrderTyped
<1>4. nextId[i.pool] \in OrderIds
  BY <1>2, <1>3, PlacementTypes DEF PlaceAndReconcile, TypeOK
<1>5. /\ nextId' = [nextId EXCEPT ![i.pool] = nextId[i.pool] + 1]
      /\ UNCHANGED <<now, phase, poolNonce>>
  BY DEF PlaceAndReconcile, PlaceBinaryOrder
<1>6. /\ resting = 0 => UNCHANGED book
      /\ resting # 0 => book'[<<i.pool, nextId[i.pool]>>] = NewOrder(i, resting)
      /\ \A o \in (Pools \X OrderIds) \ {<<i.pool, nextId[i.pool]>>} : book'[o] = book[o]
  <2>1. /\ resting = 0 => UNCHANGED book
        /\ resting # 0 =>
             book' = [book EXCEPT ![<<i.pool, nextId[i.pool]>>] = NewOrder(i, resting)]
    BY DEF PlaceAndReconcile, PlaceBinaryOrder, NewOrder
  <2>2. book \in [Pools \X OrderIds -> BookOrders]
    BY DEF TypeOK, VenueTypeOK
  <2>3. QED
    BY <1>1, <1>4, <2>1, <2>2
<1>7. QED
  BY <1>4, <1>5, <1>6

\* Its key is new, and its record holds what rests.
LEMMA PlacedRecord ==
    ASSUME TypeOK, IdsInOrder, PastMarketsOver, PinnedToItsGeneration,
           NEW a \in Agents, NEW i \in NoncedIntents,
           NEW filled \in 0 .. i.quantity, NEW resting \in 0 .. i.quantity,
           NEW collOut \in 0 .. ReserveRequired(i),
           Admissible(a, i), PlaceAndReconcile(a, i, filled, resting, collOut)
    PROVE  /\ NewKey(i) \in OrderKeys \ Records
           /\ resting = 0 => UNCHANGED orderRec
           /\ resting # 0 => orderRec'[NewKey(i)] = NewRecord(a, i, resting)
           /\ \A k \in OrderKeys \ {NewKey(i)} : orderRec'[k] = orderRec[k]
<1>1. i.pool \in Pools /\ i.marketNonce \in Gens
  BY IntentFields
<1>2. i.marketNonce = poolNonce[i.pool]
  BY AdmittedIsCurrent
<1>3. nextId[i.pool] \in OrderIds
  BY PlacedVenue
<1>4. NewKey(i) \in OrderKeys
  BY <1>1, <1>3 DEF NewKey, OrderKey, OrderKeys
<1>5. NewKey(i) \notin Records
  <2>1. nextId[i.pool] \in Int
    BY <1>3 DEF OrderIds
  <2>2. NewKey(i)[1] = i.pool /\ NewKey(i)[2] = poolNonce[i.pool] /\ NewKey(i)[3] = nextId[i.pool]
    BY <1>2 DEF NewKey, OrderKey
  <2>3. QED
    BY <2>1, <2>2 DEF IdsInOrder
<1>6. /\ resting = 0 => UNCHANGED orderRec
      /\ resting # 0 => orderRec' = [orderRec EXCEPT ![NewKey(i)] = NewRecord(a, i, resting)]
  BY DEF PlaceAndReconcile, RecordResting, NewKey, NewRecord
<1>7. orderRec \in [OrderKeys -> OrderRecs]
  BY DEF TypeOK
<1>8. QED
  BY <1>4, <1>5, <1>6, <1>7

\* The escrow behind it is added to the reserved collateral.
LEMMA PlacedEscrow ==
    ASSUME TypeOK, NEW a \in Agents, NEW i \in NoncedIntents,
           NEW filled \in 0 .. i.quantity, NEW resting \in 0 .. i.quantity,
           NEW collOut \in 0 .. ReserveRequired(i),
           PlaceAndReconcile(a, i, filled, resting, collOut)
    PROVE  reservedCollateral' = reservedCollateral + RestingEscrow(i, resting)
<1>1. ReservedCollateralReconciled(i, RestingEscrow(i, resting)) =
          reservedCollateral + RestingEscrow(i, resting)
  BY OrderTyped
<1>2. QED
  BY <1>1 DEF PlaceAndReconcile

\* The market's entry afterwards.
LEMMA PlacedMarket ==
    ASSUME TypeOK, NEW a \in Agents, NEW i \in NoncedIntents,
           NEW filled \in 0 .. i.quantity, NEW resting \in 0 .. i.quantity,
           NEW collOut \in 0 .. ReserveRequired(i),
           PlaceAndReconcile(a, i, filled, resting, collOut)
    PROVE  /\ \A n \in Markets \ {i.market} : marketState'[n] = marketState[n]
           /\ marketState'[i.market].pool = i.pool
           /\ marketState'[i.market].marketNonce = i.marketNonce
           /\ marketState'[i.market].domain = DomainOf[i.market]
           /\ marketState'[i.market].settled = marketState[i.market].settled
           /\ \A kind \in Kinds :
                 marketState'[i.market].open[kind] =
                     marketState[i.market].open[kind] + IF kind = i.kind THEN resting ELSE 0
<1> DEFINE s == marketState[i.market]
<1>1. /\ i.market \in Markets /\ i.kind \in Kinds /\ i.quantity \in Nat
      /\ resting \in Nat /\ resting <= i.quantity
  BY IntentFields
<1>2. s \in MarketStates /\ s.open \in [Kinds -> Nat]
  BY <1>1 DEF TypeOK, MarketStates
<1>3. marketState' = [marketState EXCEPT ![i.market] =
                         [Pinned(i) EXCEPT !.open = ReservedOpen(i, resting)]]
  BY DEF PlaceAndReconcile
<1>4. marketState \in [Markets -> MarketStates]
  BY DEF TypeOK
<1>5. /\ \A n \in Markets \ {i.market} : marketState'[n] = marketState[n]
      /\ marketState'[i.market] = [Pinned(i) EXCEPT !.open = ReservedOpen(i, resting)]
  BY <1>1, <1>3, <1>4
<1>6. /\ marketState'[i.market].pool = i.pool
      /\ marketState'[i.market].marketNonce = i.marketNonce
      /\ marketState'[i.market].domain = DomainOf[i.market]
      /\ marketState'[i.market].settled = s.settled
      /\ marketState'[i.market].open = ReservedOpen(i, resting)
  BY <1>2, <1>5 DEF Pinned, MarketStates
<1>7. ASSUME NEW kind \in Kinds
      PROVE  ReservedOpen(i, resting)[kind] =
                 s.open[kind] + IF kind = i.kind THEN resting ELSE 0
  <2>1. s.open[kind] \in Nat
    BY <1>2
  <2>2. s.open[kind] + i.quantity - (i.quantity - resting) = s.open[kind] + resting
    BY <1>1, <2>1, DropGone
  <2>3. ReservedOpen(i, resting) =
            [s.open EXCEPT ![i.kind] = s.open[i.kind] + i.quantity - (i.quantity - resting)]
    BY DEF ReservedOpen
  <2>4. CASE kind = i.kind
    BY <1>1, <1>2, <2>2, <2>3, <2>4
  <2>5. CASE kind # i.kind
    BY <1>1, <1>2, <2>1, <2>3, <2>5
  <2>6. QED
    BY <2>4, <2>5
<1>8. QED
  BY <1>5, <1>6, <1>7

\* The agent is charged at least the escrow of what rests.
LEMMA PlacedAttribution ==
    ASSUME TypeOK, NEW a \in Agents, NEW i \in NoncedIntents,
           NEW filled \in 0 .. i.quantity, NEW resting \in 0 .. i.quantity,
           NEW collOut \in 0 .. ReserveRequired(i),
           PlaceAndReconcile(a, i, filled, resting, collOut)
    PROVE  /\ agentCommitted'[a] >= agentCommitted[a] + RestingEscrow(i, resting)
           /\ \A b \in Agents \ {a} : agentCommitted'[b] = agentCommitted[b]
<1>1. /\ agentCommitted \in [Agents -> Nat]
      /\ agentCommitted' = [agentCommitted EXCEPT ![a] = AgentCommittedReconciled(a, i, collOut)]
  BY DEF TypeOK, PlaceAndReconcile
<1>2. ReserveRequired(i) \in Nat /\ RestingEscrow(i, resting) \in 0 .. ReserveRequired(i)
  BY OrderTyped
<1>3. CASE IsBuy(i.kind)
  <2>1. RestingEscrow(i, resting) <= collOut
    BY <1>3 DEF PlaceAndReconcile, PlaceBinaryOrder, Charge, RestingEscrow
  <2>2. /\ AgentCommittedAfter(a, i) = agentCommitted[a] + ReserveRequired(i)
        /\ AgentCommittedReconciled(a, i, collOut) =
              AgentCommittedAfter(a, i) - ClampedSub(ReserveRequired(i), collOut)
    BY <1>3 DEF AgentCommittedAfter, AgentCommittedReconciled
  <2>3. collOut \in Nat /\ collOut <= ReserveRequired(i) /\ agentCommitted[a] \in Nat
    BY <1>1, <1>2
  <2>4. AgentCommittedReconciled(a, i, collOut) = agentCommitted[a] + collOut
    BY <1>2, <2>2, <2>3 DEF ClampedSub
  <2>5. QED
    BY <1>1, <1>2, <2>1, <2>3, <2>4
<1>4. CASE ~IsBuy(i.kind)
  <2>1. RestingEscrow(i, resting) = 0 /\ AgentCommittedReconciled(a, i, collOut) = agentCommitted[a]
    BY <1>4 DEF RestingEscrow, AgentCommittedReconciled
  <2>2. QED
    BY <1>1, <2>1
<1>5. QED
  BY <1>3, <1>4

-----------------------------------------------------------------------------
(* releaseOrder.                                                           *)

\* A release takes from the record, from the market's counter and from the
\* escrow what the same order put there, and an emptied record takes all of it.
LEMMA ReleaseEffects ==
    ASSUME TypeInv, NEW key \in OrderKeys, ReleaseOrder(key)
    PROVE  \E released \in 1 .. orderRec[key].qtyOpen, coll \in 0 .. orderRec[key].collReserved :
             LET o == orderRec[key]
             IN  /\ key \in Records
                 /\ released = o.qtyOpen - StillOpen(key)
                 /\ coll = CollateralReleased(o, released)
                 /\ released = o.qtyOpen => coll = o.collReserved
                 /\ o.market \in Markets /\ o.kind \in Kinds /\ o.agent \in Agents
                 /\ \A k \in OrderKeys \ {key} : orderRec'[k] = orderRec[k]
                 /\ orderRec'[key].qtyOpen = o.qtyOpen - released
                 /\ orderRec'[key].collReserved = o.collReserved - coll
                 /\ released # o.qtyOpen =>
                      /\ orderRec'[key].agent = o.agent
                      /\ orderRec'[key].market = o.market
                      /\ orderRec'[key].kind = o.kind
                 /\ reservedCollateral' = ClampedSub(reservedCollateral, coll)
                 /\ \A n \in Markets :
                       /\ marketState'[n].pool = marketState[n].pool
                       /\ marketState'[n].marketNonce = marketState[n].marketNonce
                       /\ marketState'[n].domain = marketState[n].domain
                       /\ marketState'[n].tracked = marketState[n].tracked
                       /\ marketState'[n].settled = marketState[n].settled
                       /\ \A kind \in Kinds :
                             marketState'[n].open[kind] = marketState[n].open[kind]
                               - IF n = o.market /\ kind = o.kind THEN released ELSE 0
                 /\ UNCHANGED <<now, phase, poolNonce, nextId, book, agentCommitted>>
<1> DEFINE o == orderRec[key]
           released == o.qtyOpen - StillOpen(key)
           coll == CollateralReleased(o, released)
           s == marketState[o.market]
           opened == [s.open EXCEPT ![o.kind] = s.open[o.kind] - released]
<1> USE DEF TypeInv
<1>1. /\ o.qtyOpen # 0
      /\ StillOpen(key) < o.qtyOpen
      /\ s.open[o.kind] >= released
      /\ reservedCollateral' = ClampedSub(reservedCollateral, coll)
  BY DEF ReleaseOrder
<1>2. marketState' = [marketState EXCEPT ![o.market] = [s EXCEPT !.open = opened]]
  BY DEF ReleaseOrder
<1>3. /\ o.market \in Markets /\ o.kind \in Kinds /\ o.agent \in Agents
      /\ o.qtyOpen \in Nat \ {0} /\ o.collReserved \in Nat
      /\ o \in [agent : Agents, market : Markets, kind : Kinds,
                 qtyOpen : Nat \ {0}, collReserved : Nat]
  BY <1>1, RecordFields
<1>4. StillOpen(key) \in Nat
  BY StillOpenType DEF TypeOK
<1>5. released \in 1 .. o.qtyOpen /\ released \in 0 .. o.qtyOpen /\ released \in Nat
  BY <1>1, <1>3, <1>4
<1>6. coll \in 0 .. o.collReserved
  BY <1>3, <1>5, ShareType DEF CollateralReleased
<1>7. released = o.qtyOpen => coll = o.collReserved
  BY <1>3, WholeShare DEF CollateralReleased
<1>8. /\ \A k \in OrderKeys \ {key} : orderRec'[k] = orderRec[k]
      /\ orderRec'[key].qtyOpen = o.qtyOpen - released
      /\ orderRec'[key].collReserved = o.collReserved - coll
      /\ released # o.qtyOpen =>
           /\ orderRec'[key].agent = o.agent
           /\ orderRec'[key].market = o.market
           /\ orderRec'[key].kind = o.kind
  <2> DEFINE left == [o EXCEPT !.qtyOpen = o.qtyOpen - released,
                               !.collReserved = o.collReserved - coll]
  <2>1. orderRec' = [orderRec EXCEPT ![key] = IF left.qtyOpen = 0 THEN NoRecord ELSE left]
    BY DEF ReleaseOrder
  <2>2. /\ left.qtyOpen = o.qtyOpen - released /\ left.collReserved = o.collReserved - coll
        /\ left.agent = o.agent /\ left.market = o.market /\ left.kind = o.kind
    BY <1>3
  <2>3. /\ \A k \in OrderKeys \ {key} : orderRec'[k] = orderRec[k]
        /\ orderRec'[key] = IF left.qtyOpen = 0 THEN NoRecord ELSE left
    BY <2>1 DEF TypeOK
  <2>4. left.qtyOpen = 0 <=> released = o.qtyOpen
    BY <1>3, <1>5, <2>2
  <2> HIDE DEF left, released, coll
  <2>5. CASE released = o.qtyOpen
    BY <1>3, <1>7, <2>2, <2>3, <2>4, <2>5 DEF NoRecord
  <2>6. CASE released # o.qtyOpen
    BY <2>2, <2>3, <2>4, <2>6
  <2>7. QED
    BY <2>3, <2>5, <2>6
<1>9. ASSUME NEW n \in Markets
      PROVE  /\ marketState'[n].pool = marketState[n].pool
             /\ marketState'[n].marketNonce = marketState[n].marketNonce
             /\ marketState'[n].domain = marketState[n].domain
             /\ marketState'[n].tracked = marketState[n].tracked
             /\ marketState'[n].settled = marketState[n].settled
             /\ \A kind \in Kinds :
                   marketState'[n].open[kind] = marketState[n].open[kind]
                     - IF n = o.market /\ kind = o.kind THEN released ELSE 0
  <2>1. /\ marketState[n] \in MarketStates /\ marketState[n].open \in [Kinds -> Nat]
        /\ s \in MarketStates /\ s.open \in [Kinds -> Nat]
    BY <1>3 DEF TypeOK, MarketStates
  <2>2. ASSUME n # o.market
        PROVE  marketState'[n] = marketState[n]
    BY <1>2, <2>2 DEF TypeOK
  <2>3. ASSUME n = o.market
        PROVE  /\ marketState'[n].pool = s.pool
               /\ marketState'[n].marketNonce = s.marketNonce
               /\ marketState'[n].domain = s.domain
               /\ marketState'[n].tracked = s.tracked
               /\ marketState'[n].settled = s.settled
               /\ marketState'[n].open = opened
    BY <1>2, <1>3, <2>1, <2>3 DEF TypeOK, MarketStates
  <2>4. ASSUME NEW kind \in Kinds
        PROVE  opened[kind] = s.open[kind] - IF kind = o.kind THEN released ELSE 0
    BY <1>3, <1>5, <2>1
  <2>5. \A kind \in Kinds : marketState[n].open[kind] \in Nat
    BY <2>1
  <2> HIDE DEF opened, s, released, o
  <2>6. CASE n = o.market
    BY <2>3, <2>4, <2>6 DEF s
  <2>7. CASE n # o.market
    BY <2>2, <2>5, <2>7
  <2>8. QED
    BY <2>6, <2>7
<1>10. UNCHANGED <<now, phase, poolNonce, nextId, book, agentCommitted>>
  BY DEF ReleaseOrder, venueVars, agentVars
<1>11. key \in Records
  BY <1>1 DEF Records
<1> HIDE DEF coll, released
<1>12. /\ released = o.qtyOpen - StillOpen(key)
       /\ coll = CollateralReleased(o, released)
  BY DEF coll, released
<1>13. QED
  BY <1>1, <1>3, <1>5, <1>6, <1>7, <1>8, <1>9, <1>10, <1>11, <1>12

-----------------------------------------------------------------------------
(* The sums over the records.                                              *)

OfAgent(a) == {key \in Records : orderRec[key].agent = a}

LEMMA KeysFinite == IsFiniteSet(OrderKeys)
<1> DEFINE h == [x \in (Pools \X Gens) \X OrderIds |-> <<x[1][1], x[1][2], x[2]>>]
<1>1. IsFiniteSet(Pools) /\ IsFiniteSet(Gens) /\ IsFiniteSet(OrderIds)
  <2>1. 1 \in Int /\ MaxGen \in Int /\ MaxOrders \in Int
    BY VenueAssumption
  <2>2. QED
    BY <2>1, VenueAssumption, FS_Interval DEF Gens, OrderIds
<1>2. IsFiniteSet((Pools \X Gens) \X OrderIds)
  BY <1>1, FS_Product
<1>3. h \in Surjection((Pools \X Gens) \X OrderIds, OrderKeys)
  <2>1. h \in [(Pools \X Gens) \X OrderIds -> OrderKeys]
    BY DEF OrderKeys
  <2>2. ASSUME NEW key \in OrderKeys
        PROVE  \E x \in (Pools \X Gens) \X OrderIds : h[x] = key
    <3>1. <<<<key[1], key[2]>>, key[3]>> \in (Pools \X Gens) \X OrderIds
      BY DEF OrderKeys
    <3>2. h[<<<<key[1], key[2]>>, key[3]>>] = key
      BY <3>1 DEF OrderKeys
    <3>3. QED
      BY <3>1, <3>2
  <2>3. QED
    BY <2>1, <2>2 DEF Surjection
<1>4. QED
  BY <1>2, <1>3, FS_Surjection

LEMMA RecordValues ==
    ASSUME TypeOK
    PROVE  \A key \in OrderKeys :
             /\ QtyOpen[key] = orderRec[key].qtyOpen /\ QtyOpen[key] \in Nat
             /\ CollReserved[key] = orderRec[key].collReserved /\ CollReserved[key] \in Nat
             /\ key \notin Records => orderRec[key] = NoRecord
<1> SUFFICES ASSUME NEW key \in OrderKeys
             PROVE  /\ orderRec[key].qtyOpen \in Nat
                    /\ orderRec[key].collReserved \in Nat
                    /\ key \notin Records => orderRec[key] = NoRecord
  BY DEF QtyOpen, CollReserved
<1>1. orderRec[key] \in OrderRecs
  BY DEF TypeOK
<1>2. QED
  BY <1>1 DEF OrderRecs, NoRecord, Records

\* A step that changes one record moves each sum by that record's part in it.
LEMMA SumsMove ==
    ASSUME TypeOK, TypeOK', NEW key \in OrderKeys,
           \A k \in OrderKeys \ {key} : orderRec'[k] = orderRec[k]
    PROVE  /\ Sum(CollReserved, Records)' = Sum(CollReserved, Records)
                   - (IF key \in Records THEN orderRec[key].collReserved ELSE 0)
                   + (IF key \in Records' THEN orderRec'[key].collReserved ELSE 0)
           /\ \A m \in Markets, kind \in Kinds :
                 Sum(QtyOpen, RecordsOf(m, kind))' = Sum(QtyOpen, RecordsOf(m, kind))
                   - (IF key \in RecordsOf(m, kind) THEN orderRec[key].qtyOpen ELSE 0)
                   + (IF key \in RecordsOf(m, kind)' THEN orderRec'[key].qtyOpen ELSE 0)
           /\ \A a \in Agents :
                 Sum(CollReserved, OfAgent(a))' = Sum(CollReserved, OfAgent(a))
                   - (IF key \in OfAgent(a) THEN orderRec[key].collReserved ELSE 0)
                   + (IF key \in OfAgent(a)' THEN orderRec'[key].collReserved ELSE 0)
<1>1. IsFiniteSet(OrderKeys)
  BY KeysFinite
<1>2. \A k \in OrderKeys :
          /\ QtyOpen[k] = orderRec[k].qtyOpen /\ QtyOpen[k] \in Nat
          /\ CollReserved[k] = orderRec[k].collReserved /\ CollReserved[k] \in Nat
  BY RecordValues
<1>3. \A k \in OrderKeys :
          /\ QtyOpen'[k] = orderRec'[k].qtyOpen /\ QtyOpen'[k] \in Nat
          /\ CollReserved'[k] = orderRec'[k].collReserved /\ CollReserved'[k] \in Nat
  <2>1. \A k \in OrderKeys : orderRec'[k] \in OrderRecs
    BY DEF TypeOK
  <2>2. QED
    BY <2>1 DEF QtyOpen, CollReserved, OrderRecs, NoRecord
<1>4. \A k \in OrderKeys \ {key} : /\ QtyOpen'[k] = QtyOpen[k]
                                   /\ CollReserved'[k] = CollReserved[k]
  BY <1>2, <1>3
<1>5. Sum(CollReserved', Records') = Sum(CollReserved, Records)
          - (IF key \in Records THEN CollReserved[key] ELSE 0)
          + (IF key \in Records' THEN CollReserved'[key] ELSE 0)
  <2>1. /\ Records \in SUBSET OrderKeys /\ Records' \in SUBSET OrderKeys
        /\ Records \ {key} = Records' \ {key}
    BY DEF Records
  <2>2. \A k \in Records \ {key} : CollReserved'[k] = CollReserved[k]
    BY <1>4, <2>1
  <2>3. /\ \A k \in OrderKeys : CollReserved[k] \in Nat
        /\ \A k \in OrderKeys : CollReserved'[k] \in Nat
    BY <1>2, <1>3
  <2>4. QED
    BY <1>1, <2>1, <2>2, <2>3, SumMoves
<1>6. ASSUME NEW m \in Markets, NEW kind \in Kinds
      PROVE  Sum(QtyOpen', RecordsOf(m, kind)') = Sum(QtyOpen, RecordsOf(m, kind))
               - (IF key \in RecordsOf(m, kind) THEN QtyOpen[key] ELSE 0)
               + (IF key \in RecordsOf(m, kind)' THEN QtyOpen'[key] ELSE 0)
  <2>1. /\ RecordsOf(m, kind) \in SUBSET OrderKeys
        /\ RecordsOf(m, kind)' \in SUBSET OrderKeys
        /\ RecordsOf(m, kind) \ {key} = RecordsOf(m, kind)' \ {key}
    BY DEF Records, RecordsOf
  <2>2. \A k \in RecordsOf(m, kind) \ {key} : QtyOpen'[k] = QtyOpen[k]
    BY <1>4, <2>1
  <2>3. /\ \A k \in OrderKeys : QtyOpen[k] \in Nat
        /\ \A k \in OrderKeys : QtyOpen'[k] \in Nat
    BY <1>2, <1>3
  <2>4. QED
    BY <1>1, <2>1, <2>2, <2>3, SumMoves
<1>7. ASSUME NEW a \in Agents
      PROVE  Sum(CollReserved', OfAgent(a)') = Sum(CollReserved, OfAgent(a))
               - (IF key \in OfAgent(a) THEN CollReserved[key] ELSE 0)
               + (IF key \in OfAgent(a)' THEN CollReserved'[key] ELSE 0)
  <2>1. /\ OfAgent(a) \in SUBSET OrderKeys /\ OfAgent(a)' \in SUBSET OrderKeys
        /\ OfAgent(a) \ {key} = OfAgent(a)' \ {key}
    BY DEF Records, OfAgent
  <2>2. \A k \in OfAgent(a) \ {key} : CollReserved'[k] = CollReserved[k]
    BY <1>4, <2>1
  <2>3. /\ \A k \in OrderKeys : CollReserved[k] \in Nat
        /\ \A k \in OrderKeys : CollReserved'[k] \in Nat
    BY <1>2, <1>3
  <2>4. QED
    BY <1>1, <2>1, <2>2, <2>3, SumMoves
<1>8. /\ Sum(CollReserved, Records)' = Sum(CollReserved', Records')
      /\ \A m \in Markets, kind \in Kinds :
            Sum(QtyOpen, RecordsOf(m, kind))' = Sum(QtyOpen', RecordsOf(m, kind)')
      /\ \A a \in Agents : Sum(CollReserved, OfAgent(a))' = Sum(CollReserved', OfAgent(a)')
  OBVIOUS
<1>9. QED
  BY <1>2, <1>3, <1>5, <1>6, <1>7, <1>8

\* One record is worth at most the sum it is part of.
LEMMA RecordInSum ==
    ASSUME TypeOK, NEW key \in Records
    PROVE  /\ orderRec[key].collReserved <= Sum(CollReserved, Records)
           /\ Sum(CollReserved, Records) \in Nat
<1>1. IsFiniteSet(Records) /\ key \in OrderKeys
  BY KeysFinite, FS_Subset DEF Records
<1>2. \A k \in Records : CollReserved[k] = orderRec[k].collReserved /\ CollReserved[k] \in Nat
  BY RecordValues DEF Records
<1>3. IsFiniteSet(Records \ {key})
  BY <1>1, FS_Subset
<1>4. Sum(CollReserved, Records \ {key}) \in Nat
  BY <1>2, <1>3, SumType
<1>5. Sum(CollReserved, Records) = Sum(CollReserved, Records \ {key}) + CollReserved[key]
  BY <1>1, <1>2, SumRemove
<1>6. QED
  BY <1>2, <1>4, <1>5

LEMMA SumsTyped ==
    ASSUME TypeOK
    PROVE  /\ Sum(CollReserved, Records) \in Nat
           /\ \A m \in Markets, kind \in Kinds : Sum(QtyOpen, RecordsOf(m, kind)) \in Nat
           /\ \A a \in Agents : Sum(CollReserved, OfAgent(a)) \in Nat
<1>1. \A T \in SUBSET OrderKeys : /\ Sum(CollReserved, T) \in Nat
                                  /\ Sum(QtyOpen, T) \in Nat
  <2> SUFFICES ASSUME NEW T \in SUBSET OrderKeys
               PROVE  Sum(CollReserved, T) \in Nat /\ Sum(QtyOpen, T) \in Nat
    OBVIOUS
  <2>1. IsFiniteSet(T)
    BY KeysFinite, FS_Subset
  <2>2. \A k \in T : CollReserved[k] \in Nat /\ QtyOpen[k] \in Nat
    BY RecordValues
  <2>3. QED
    BY <2>1, <2>2, SumType
<1>2. /\ Records \in SUBSET OrderKeys
      /\ \A m \in Markets, kind \in Kinds : RecordsOf(m, kind) \in SUBSET OrderKeys
      /\ \A a \in Agents : OfAgent(a) \in SUBSET OrderKeys
  BY DEF Records, RecordsOf, OfAgent
<1>3. QED
  BY <1>1, <1>2

-----------------------------------------------------------------------------
(* Each kind of step keeps the sums.                                       *)

SumsMatch ==
    /\ ReservedMatchesRecords
    /\ ReservationsMatchRecords
    /\ AttributionCoversReservations

\* An order that does not rest reserves nothing.
LEMMA NothingRests ==
    ASSUME NEW i \in NoncedIntents
    PROVE  RestingEscrow(i, 0) = 0
<1>1. i.kind \in Kinds /\ i.price \in 0 .. One
  BY IntentFields
<1>2. UnitPrice(i.kind, i.price) \in Nat
  BY <1>1, UnitType
<1>3. UnitPrice(i.kind, i.price) * 0 <= 0 * One
  BY <1>2, OneAssumption
<1>4. ReserveFor(i.kind, i.price, 0) <= 0 /\ ReserveFor(i.kind, i.price, 0) \in Nat
  BY <1>1, <1>3, ReserveLeast, ReserveType
<1>5. QED
  BY <1>4 DEF RestingEscrow

LEMMA PlacedSums ==
    ASSUME BooksInv, NEW a \in Agents, NEW i \in NoncedIntents, Execute(a, i)
    PROVE  SumsMatch'
<1> DEFINE key == NewKey(i)
           m == i.market
<1> USE DEF BooksInv, TypeInv
<1>1. PICK filled \in 0 .. i.quantity, resting \in 0 .. i.quantity,
           collOut \in 0 .. ReserveRequired(i) :
              PlaceAndReconcile(a, i, filled, resting, collOut)
  BY DEF Execute
<1>2. Admissible(a, i)
  BY DEF Execute
<1>3. /\ key \in OrderKeys \ Records
      /\ resting = 0 => UNCHANGED orderRec
      /\ resting # 0 => orderRec'[key] = NewRecord(a, i, resting)
      /\ \A k \in OrderKeys \ {key} : orderRec'[k] = orderRec[k]
  <2>1. TypeOK /\ IdsInOrder /\ PastMarketsOver /\ PinnedToItsGeneration
    OBVIOUS
  <2> HIDE DEF BooksInv, TypeInv
  <2>2. QED
    BY <1>1, <1>2, <2>1, PlacedRecord
<1>4. /\ i.kind \in Kinds /\ m \in Markets /\ resting \in Nat
      /\ RestingEscrow(i, resting) \in Nat
  <2>1. i.kind \in Kinds /\ m \in Markets /\ resting \in Nat
    BY IntentFields
  <2>2. RestingEscrow(i, resting) \in 0 .. ReserveRequired(i) /\ ReserveRequired(i) \in Nat
    BY OrderTyped
  <2>3. QED
    BY <2>1, <2>2
<1>5. TypeOK' /\ orderRec \in [OrderKeys -> OrderRecs]
  BY ExecuteTypes DEF TypeOK
<1>6. key \in Records' <=> resting # 0
  <2>1. orderRec[key].qtyOpen = 0
    BY <1>3 DEF Records
  <2>2. CASE resting = 0
    BY <1>3, <2>1, <2>2 DEF Records
  <2>3. CASE resting # 0
    <3>1. orderRec'[key].qtyOpen = resting
      BY <1>3, <2>3 DEF NewRecord
    <3>2. QED
      BY <1>3, <2>3, <3>1 DEF Records
  <2>4. QED
    BY <2>2, <2>3
<1>7. /\ Sum(CollReserved, Records) \in Nat
      /\ \A n \in Markets, kind \in Kinds : Sum(QtyOpen, RecordsOf(n, kind)) \in Nat
      /\ \A b \in Agents : Sum(CollReserved, OfAgent(b)) \in Nat
  BY SumsTyped
<1>8. ReservedMatchesRecords'
  <2>1. Sum(CollReserved, Records)' = Sum(CollReserved, Records)
            + (IF key \in Records' THEN orderRec'[key].collReserved ELSE 0)
    <3>1. Sum(CollReserved, Records)' = Sum(CollReserved, Records)
              - (IF key \in Records THEN orderRec[key].collReserved ELSE 0)
              + (IF key \in Records' THEN orderRec'[key].collReserved ELSE 0)
      BY <1>3, <1>5, <1>6, SumsMove
    <3>2. QED
      BY <1>3, <1>7, <3>1
  <2>2. (IF key \in Records' THEN orderRec'[key].collReserved ELSE 0) = RestingEscrow(i, resting)
    BY <1>3, <1>6, NothingRests DEF NewRecord
  <2>3. reservedCollateral' = reservedCollateral + RestingEscrow(i, resting)
    BY <1>1, PlacedEscrow
  <2>4. QED
    BY <2>1, <2>2, <2>3 DEF ReservedMatchesRecords
<1>9. ReservationsMatchRecords'
  <2> SUFFICES ASSUME NEW n \in Markets, NEW kind \in Kinds, ~marketState'[n].settled
               PROVE  marketState'[n].open[kind] = Sum(QtyOpen, RecordsOf(n, kind))'
    BY DEF ReservationsMatchRecords
  <2>1. /\ \A x \in Markets \ {m} : marketState'[x] = marketState[x]
        /\ marketState'[m].settled = marketState[m].settled
        /\ \A k \in Kinds : marketState'[m].open[k] =
                marketState[m].open[k] + IF k = i.kind THEN resting ELSE 0
    BY <1>1, PlacedMarket
  <2>2. ~marketState[n].settled
    BY <2>1
  <2>3. marketState[n].open[kind] = Sum(QtyOpen, RecordsOf(n, kind))
    BY <2>2 DEF ReservationsMatchRecords
  <2>4. Sum(QtyOpen, RecordsOf(n, kind))' = Sum(QtyOpen, RecordsOf(n, kind))
            + (IF n = m /\ kind = i.kind THEN resting ELSE 0)
    <3>1. Sum(QtyOpen, RecordsOf(n, kind))' = Sum(QtyOpen, RecordsOf(n, kind))
              - (IF key \in RecordsOf(n, kind) THEN orderRec[key].qtyOpen ELSE 0)
              + (IF key \in RecordsOf(n, kind)' THEN orderRec'[key].qtyOpen ELSE 0)
      BY <1>3, <1>5, <1>6, SumsMove
    <3>2. key \notin RecordsOf(n, kind)
      BY <1>3 DEF RecordsOf
    <3>3. (IF key \in RecordsOf(n, kind)' THEN orderRec'[key].qtyOpen ELSE 0) =
              (IF n = m /\ kind = i.kind THEN resting ELSE 0)
      <4>1. CASE resting = 0
        <5>1. key \notin RecordsOf(n, kind)'
          BY <1>6, <4>1 DEF RecordsOf
        <5>2. QED
          BY <4>1, <5>1
      <4>2. CASE resting # 0
        <5>1. /\ orderRec'[key].qtyOpen = resting
              /\ orderRec'[key].market = m /\ orderRec'[key].kind = i.kind
          BY <1>3, <4>2 DEF NewRecord
        <5>2. key \in RecordsOf(n, kind)' <=> n = m /\ kind = i.kind
          BY <1>3, <1>6, <4>2, <5>1 DEF RecordsOf
        <5>3. QED
          BY <5>1, <5>2
      <4>3. QED
        BY <4>1, <4>2
    <3>4. Sum(QtyOpen, RecordsOf(n, kind)) \in Nat
      BY <1>7
    <3>5. QED
      BY <3>1, <3>2, <3>3, <3>4
  <2>5. CASE n = m
    BY <2>1, <2>3, <2>4, <2>5
  <2>6. CASE n # m
    <3>1. Sum(QtyOpen, RecordsOf(n, kind)) \in Nat
      BY <1>7
    <3>2. QED
      BY <2>1, <2>3, <2>4, <2>6, <3>1
  <2>7. QED
    BY <2>5, <2>6
<1>10. AttributionCoversReservations'
  <2> SUFFICES ASSUME NEW b \in Agents
               PROVE  Sum(CollReserved, OfAgent(b))' <= agentCommitted'[b]
    BY DEF AttributionCoversReservations, OfAgent
  <2>1. /\ agentCommitted'[a] >= agentCommitted[a] + RestingEscrow(i, resting)
        /\ \A c \in Agents \ {a} : agentCommitted'[c] = agentCommitted[c]
    BY <1>1, PlacedAttribution
  <2>2. Sum(CollReserved, OfAgent(b)) <= agentCommitted[b]
    BY DEF AttributionCoversReservations, OfAgent
  <2>3. Sum(CollReserved, OfAgent(b))' = Sum(CollReserved, OfAgent(b))
            + (IF b = a THEN RestingEscrow(i, resting) ELSE 0)
    <3>1. Sum(CollReserved, OfAgent(b))' = Sum(CollReserved, OfAgent(b))
              - (IF key \in OfAgent(b) THEN orderRec[key].collReserved ELSE 0)
              + (IF key \in OfAgent(b)' THEN orderRec'[key].collReserved ELSE 0)
      BY <1>3, <1>5, <1>6, SumsMove
    <3>2. key \notin OfAgent(b)
      BY <1>3 DEF OfAgent
    <3>3. (IF key \in OfAgent(b)' THEN orderRec'[key].collReserved ELSE 0) =
              (IF b = a THEN RestingEscrow(i, resting) ELSE 0)
      <4>1. CASE resting = 0
        <5>1. key \notin OfAgent(b)'
          BY <1>6, <4>1 DEF OfAgent
        <5>2. QED
          BY <4>1, <5>1, NothingRests
      <4>2. CASE resting # 0
        <5>1. /\ orderRec'[key].collReserved = RestingEscrow(i, resting)
              /\ orderRec'[key].agent = a
          BY <1>3, <4>2 DEF NewRecord
        <5>2. key \in OfAgent(b)' <=> b = a
          BY <1>6, <4>2, <5>1 DEF OfAgent
        <5>3. QED
          BY <5>1, <5>2
      <4>3. QED
        BY <4>1, <4>2
    <3>4. Sum(CollReserved, OfAgent(b)) \in Nat
      BY <1>7
    <3>5. QED
      BY <3>1, <3>2, <3>3, <3>4
  <2>4. /\ Sum(CollReserved, OfAgent(b)) \in Nat
        /\ agentCommitted[b] \in Nat /\ agentCommitted'[b] \in Nat
    BY <1>5, <1>7 DEF TypeOK
  <2>5. CASE b = a
    BY <1>4, <2>1, <2>2, <2>3, <2>4, <2>5
  <2>6. CASE b # a
    BY <2>1, <2>2, <2>3, <2>4, <2>6
  <2>7. QED
    BY <2>5, <2>6
<1>11. QED
  BY <1>8, <1>9, <1>10 DEF SumsMatch

LEMMA ReleasedSums ==
    ASSUME BooksInv, NEW key \in OrderKeys, ReleaseOrder(key)
    PROVE  SumsMatch'
<1> DEFINE o == orderRec[key]
<1> USE DEF BooksInv
<1>1. PICK released \in 1 .. o.qtyOpen, coll \in 0 .. o.collReserved :
          /\ key \in Records
          /\ released = o.qtyOpen => coll = o.collReserved
          /\ o.market \in Markets /\ o.kind \in Kinds /\ o.agent \in Agents
          /\ \A k \in OrderKeys \ {key} : orderRec'[k] = orderRec[k]
          /\ orderRec'[key].qtyOpen = o.qtyOpen - released
          /\ orderRec'[key].collReserved = o.collReserved - coll
          /\ released # o.qtyOpen =>
               /\ orderRec'[key].agent = o.agent
               /\ orderRec'[key].market = o.market
               /\ orderRec'[key].kind = o.kind
          /\ reservedCollateral' = ClampedSub(reservedCollateral, coll)
          /\ \A n \in Markets :
                /\ marketState'[n].settled = marketState[n].settled
                /\ \A kind \in Kinds :
                      marketState'[n].open[kind] = marketState[n].open[kind]
                        - IF n = o.market /\ kind = o.kind THEN released ELSE 0
          /\ UNCHANGED agentCommitted
  <2>1. TypeInv
    OBVIOUS
  <2> HIDE DEF BooksInv
  <2>2. QED
    BY <2>1, ReleaseEffects
<1>2. TypeOK /\ TypeOK'
  BY ReleaseOrderTypes DEF TypeInv
<1>3. o.qtyOpen \in Nat \ {0} /\ o.collReserved \in Nat
  BY <1>1, <1>2, RecordFields DEF Records
<1>4. released \in Nat /\ coll \in Nat /\ released <= o.qtyOpen /\ coll <= o.collReserved
  BY <1>3
<1>5. key \in Records' <=> released # o.qtyOpen
  BY <1>1, <1>3, <1>4 DEF Records
<1>6. /\ Sum(CollReserved, Records) \in Nat
      /\ \A n \in Markets, kind \in Kinds : Sum(QtyOpen, RecordsOf(n, kind)) \in Nat
      /\ \A b \in Agents : Sum(CollReserved, OfAgent(b)) \in Nat
  BY <1>2, SumsTyped
<1>7. ReservedMatchesRecords'
  <2>1. Sum(CollReserved, Records)' = Sum(CollReserved, Records)
            - (IF key \in Records THEN o.collReserved ELSE 0)
            + (IF key \in Records' THEN orderRec'[key].collReserved ELSE 0)
    BY <1>1, <1>2, SumsMove
  <2>2. (IF key \in Records' THEN orderRec'[key].collReserved ELSE 0) = o.collReserved - coll
    BY <1>1, <1>3, <1>5
  <2>3. Sum(CollReserved, Records)' = Sum(CollReserved, Records) - coll
    BY <1>1, <1>3, <1>4, <1>6, <2>1, <2>2
  <2>4. coll <= Sum(CollReserved, Records)
    <3>1. o.collReserved <= Sum(CollReserved, Records)
      BY <1>1, <1>2, RecordInSum
    <3>2. QED
      BY <1>3, <1>4, <1>6, <3>1
  <2>5. reservedCollateral = Sum(CollReserved, Records)
    BY DEF ReservedMatchesRecords
  <2>6. reservedCollateral' = Sum(CollReserved, Records) - coll
    BY <1>1, <1>4, <1>6, <2>4, <2>5 DEF ClampedSub
  <2>7. QED
    BY <2>3, <2>6 DEF ReservedMatchesRecords
<1>8. ReservationsMatchRecords'
  <2> SUFFICES ASSUME NEW n \in Markets, NEW kind \in Kinds, ~marketState'[n].settled
               PROVE  marketState'[n].open[kind] = Sum(QtyOpen, RecordsOf(n, kind))'
    BY DEF ReservationsMatchRecords
  <2> DEFINE mine == n = o.market /\ kind = o.kind
  <2>1. ~marketState[n].settled
    BY <1>1
  <2>2. marketState[n].open[kind] = Sum(QtyOpen, RecordsOf(n, kind))
    BY <2>1 DEF ReservationsMatchRecords
  <2>3. marketState'[n].open[kind] = marketState[n].open[kind] - IF mine THEN released ELSE 0
    BY <1>1
  <2>4. Sum(QtyOpen, RecordsOf(n, kind))' = Sum(QtyOpen, RecordsOf(n, kind))
            - (IF key \in RecordsOf(n, kind) THEN o.qtyOpen ELSE 0)
            + (IF key \in RecordsOf(n, kind)' THEN orderRec'[key].qtyOpen ELSE 0)
    BY <1>1, <1>2, SumsMove
  <2>5. key \in RecordsOf(n, kind) <=> mine
    BY <1>1 DEF RecordsOf
  <2>6. key \in RecordsOf(n, kind)' <=> mine /\ released # o.qtyOpen
    BY <1>1, <1>5 DEF RecordsOf
  <2>7. (IF key \in RecordsOf(n, kind)' THEN orderRec'[key].qtyOpen ELSE 0) =
            (IF mine THEN o.qtyOpen - released ELSE 0)
    BY <1>1, <1>3, <2>6
  <2>8. Sum(QtyOpen, RecordsOf(n, kind)) \in Nat
    BY <1>6
  <2> HIDE DEF mine
  <2>9. Sum(QtyOpen, RecordsOf(n, kind))' =
            Sum(QtyOpen, RecordsOf(n, kind)) - (IF mine THEN released ELSE 0)
    BY <1>3, <1>4, <2>4, <2>5, <2>7, <2>8
  <2>10. QED
    BY <2>2, <2>3, <2>9
<1>9. AttributionCoversReservations'
  <2> SUFFICES ASSUME NEW b \in Agents
               PROVE  Sum(CollReserved, OfAgent(b))' <= agentCommitted'[b]
    BY DEF AttributionCoversReservations, OfAgent
  <2> DEFINE mine == b = o.agent
  <2>1. Sum(CollReserved, OfAgent(b)) <= agentCommitted[b]
    BY DEF AttributionCoversReservations, OfAgent
  <2>2. Sum(CollReserved, OfAgent(b))' = Sum(CollReserved, OfAgent(b))
            - (IF key \in OfAgent(b) THEN o.collReserved ELSE 0)
            + (IF key \in OfAgent(b)' THEN orderRec'[key].collReserved ELSE 0)
    BY <1>1, <1>2, SumsMove
  <2>3. key \in OfAgent(b) <=> mine
    BY <1>1 DEF OfAgent
  <2>4. key \in OfAgent(b)' <=> mine /\ released # o.qtyOpen
    BY <1>1, <1>5 DEF OfAgent
  <2>5. (IF key \in OfAgent(b)' THEN orderRec'[key].collReserved ELSE 0) =
            (IF mine THEN o.collReserved - coll ELSE 0)
    BY <1>1, <1>3, <2>4
  <2>6. Sum(CollReserved, OfAgent(b)) \in Nat /\ agentCommitted[b] \in Nat
    BY <1>2, <1>6 DEF TypeOK
  <2> HIDE DEF mine
  <2>7. Sum(CollReserved, OfAgent(b))' =
            Sum(CollReserved, OfAgent(b)) - (IF mine THEN coll ELSE 0)
    BY <1>3, <1>4, <2>2, <2>3, <2>5, <2>6
  <2>8. QED
    BY <1>1, <1>4, <2>1, <2>6, <2>7
<1>10. QED
  BY <1>7, <1>8, <1>9 DEF SumsMatch

LEMMA QuietSums ==
    ASSUME BooksInv, QuietPortfolio
    PROVE  SumsMatch'
<1>1. /\ QtyOpen' = QtyOpen /\ CollReserved' = CollReserved /\ Records' = Records
      /\ \A m \in Markets, kind \in Kinds : RecordsOf(m, kind)' = RecordsOf(m, kind)
      /\ \A a \in Agents : OfAgent(a)' = OfAgent(a)
  BY DEF QuietPortfolio, QtyOpen, CollReserved, Records, RecordsOf, OfAgent
<1>2. ReservedMatchesRecords'
  BY <1>1 DEF BooksInv, ReservedMatchesRecords, QuietPortfolio
<1>3. ReservationsMatchRecords'
  BY <1>1 DEF BooksInv, ReservationsMatchRecords, QuietPortfolio
<1>4. AttributionCoversReservations'
  BY <1>1 DEF BooksInv, AttributionCoversReservations, OfAgent, QuietPortfolio
<1>5. QED
  BY <1>2, <1>3, <1>4 DEF SumsMatch

-----------------------------------------------------------------------------
(* Each kind of step keeps records and orders apart and together.          *)

GenerationsMatch ==
    /\ PastMarketsOver
    /\ PinnedToItsGeneration
    /\ IdsInOrder
    /\ RecordsPay

LEMMA PlacedGenerations ==
    ASSUME BooksInv, NEW a \in Agents, NEW i \in NoncedIntents, Execute(a, i)
    PROVE  GenerationsMatch'
<1> DEFINE key == NewKey(i)
           m == i.market
           at == <<i.pool, nextId[i.pool]>>
<1> USE DEF BooksInv, TypeInv
<1>1. PICK filled \in 0 .. i.quantity, resting \in 0 .. i.quantity,
           collOut \in 0 .. ReserveRequired(i) :
              PlaceAndReconcile(a, i, filled, resting, collOut)
  BY DEF Execute
<1>2. Admissible(a, i) /\ TypeOK
  BY DEF Execute
<1>3. /\ i.pool = PoolOf[m] /\ i.marketNonce = poolNonce[i.pool] /\ i.marketNonce = GenOf[m]
      /\ i.pool \in Pools /\ m \in Markets /\ i.kind \in Kinds /\ i.price \in 0 .. One
      /\ resting \in Nat
  BY <1>2, AdmittedIsCurrent, IntentFields
<1>4. /\ nextId[i.pool] \in OrderIds
      /\ nextId' = [nextId EXCEPT ![i.pool] = nextId[i.pool] + 1]
      /\ UNCHANGED <<now, phase, poolNonce>>
      /\ resting = 0 => UNCHANGED book
      /\ resting # 0 => book'[at] = NewOrder(i, resting)
      /\ \A o \in (Pools \X OrderIds) \ {at} : book'[o] = book[o]
  <2>1. TypeOK /\ PastMarketsOver /\ PinnedToItsGeneration
    OBVIOUS
  <2> HIDE DEF BooksInv, TypeInv
  <2>2. QED
    BY <1>1, <1>2, <2>1, PlacedVenue
<1>5. /\ key \in OrderKeys \ Records
      /\ resting = 0 => UNCHANGED orderRec
      /\ resting # 0 => orderRec'[key] = NewRecord(a, i, resting)
      /\ \A k \in OrderKeys \ {key} : orderRec'[k] = orderRec[k]
  <2>1. TypeOK /\ IdsInOrder /\ PastMarketsOver /\ PinnedToItsGeneration
    OBVIOUS
  <2> HIDE DEF BooksInv, TypeInv
  <2>2. QED
    BY <1>1, <1>2, <2>1, PlacedRecord
<1>6. key[1] = i.pool /\ key[2] = poolNonce[i.pool] /\ key[3] = nextId[i.pool]
  BY <1>3 DEF NewKey, OrderKey
<1>7. PastMarketsOver'
  BY <1>4 DEF PastMarketsOver, IsSettled
<1>8. PinnedToItsGeneration'
  <2>1. /\ \A n \in Markets \ {m} : marketState'[n] = marketState[n]
        /\ marketState'[m].pool = i.pool
        /\ marketState'[m].marketNonce = i.marketNonce
        /\ marketState'[m].domain = DomainOf[m]
    BY <1>1, PlacedMarket
  <2>2. QED
    BY <1>3, <2>1 DEF PinnedToItsGeneration
<1>9. IdsInOrder'
  <2> SUFFICES ASSUME NEW k \in Records'
               PROVE  /\ k[2] <= poolNonce[k[1]]
                      /\ k[2] = poolNonce[k[1]] => k[3] < nextId'[k[1]]
    BY <1>4 DEF IdsInOrder
  <2>1. /\ k \in OrderKeys /\ k[1] \in Pools /\ k[3] \in Nat
        /\ nextId[k[1]] \in Nat /\ poolNonce[k[1]] \in Nat
    <3>1. k \in OrderKeys
      BY DEF Records
    <3>2. nextId \in [Pools -> 1 .. MaxOrders + 1] /\ poolNonce \in [Pools -> Gens]
      BY DEF TypeOK, VenueTypeOK
    <3>3. QED
      BY <3>1, <3>2 DEF OrderKeys, OrderIds, Gens
  <2>2. nextId'[k[1]] = IF k[1] = i.pool THEN nextId[k[1]] + 1 ELSE nextId[k[1]]
    <3>1. nextId \in [Pools -> 1 .. MaxOrders + 1]
      BY DEF TypeOK, VenueTypeOK
    <3>2. QED
      BY <1>4, <2>1, <3>1
  <2>3. CASE k = key
    BY <1>6, <2>1, <2>2, <2>3
  <2>4. CASE k # key
    <3>1. k \in Records
      BY <1>5, <2>1, <2>4 DEF Records
    <3>2. QED
      BY <2>1, <2>2, <3>1 DEF IdsInOrder
  <2>5. QED
    BY <2>3, <2>4
<1>10. RecordsPay'
  <2> SUFFICES ASSUME NEW o \in Pools \X OrderIds, book'[o].quantityRemaining # 0
               PROVE  LET r == orderRec'[KeyOf(o)]
                          b == book'[o]
                      IN  /\ r.qtyOpen >= b.quantityRemaining
                          /\ r.kind = b.kind
                          /\ Hosts(o[1], r.market)
                          /\ IsBuy(b.kind) =>
                               UnitPrice(b.kind, b.price) * r.qtyOpen <= r.collReserved * One
    BY <1>4 DEF RecordsPay, Resting, KeyOf, Hosts
  <2>1. KeyOf(o) = <<o[1], poolNonce[o[1]], o[2]>> /\ KeyOf(o) \in OrderKeys /\ o = <<o[1], o[2]>>
    <3>1. poolNonce \in [Pools -> Gens]
      BY DEF TypeOK, VenueTypeOK
    <3>2. QED
      BY <3>1 DEF KeyOf, OrderKey, OrderKeys
  <2>2. CASE o = at /\ resting # 0
    <3>1. KeyOf(o) = key
      BY <1>3, <2>1, <2>2 DEF NewKey, OrderKey
    <3>2. /\ orderRec'[key].qtyOpen = resting /\ orderRec'[key].kind = i.kind
          /\ orderRec'[key].market = m
          /\ orderRec'[key].collReserved = RestingEscrow(i, resting)
      BY <1>5, <2>2 DEF NewRecord
    <3>3. /\ book'[o].quantityRemaining = resting /\ book'[o].kind = i.kind
          /\ book'[o].price = i.price
      BY <1>4, <2>2 DEF NewOrder
    <3>4. Hosts(o[1], m)
      BY <1>3, <2>2 DEF Hosts
    <3>5. IsBuy(i.kind) =>
             UnitPrice(i.kind, i.price) * resting <= RestingEscrow(i, resting) * One
      BY <1>3, ReserveType DEF RestingEscrow
    <3>6. QED
      BY <1>3, <3>1, <3>2, <3>3, <3>4, <3>5
  <2>3. CASE ~(o = at /\ resting # 0)
    <3>1. book'[o] = book[o] /\ o \in Resting
      BY <1>4, <2>3 DEF Resting
    <3>2. orderRec'[KeyOf(o)] = orderRec[KeyOf(o)]
      <4>1. CASE resting = 0
        BY <1>5, <4>1
      <4>2. CASE resting # 0
        <5>1. KeyOf(o) # key
          BY <1>6, <2>1, <2>3, <4>2
        <5>2. QED
          BY <1>5, <2>1, <5>1
      <4>3. QED
        BY <4>1, <4>2
    <3>3. QED
      BY <3>1, <3>2 DEF RecordsPay
  <2>4. QED
    BY <2>2, <2>3
<1>11. QED
  BY <1>7, <1>8, <1>9, <1>10 DEF GenerationsMatch

LEMMA ReleasedGenerations ==
    ASSUME BooksInv, NEW key \in OrderKeys, ReleaseOrder(key)
    PROVE  GenerationsMatch'
<1> DEFINE q == orderRec[key].qtyOpen
           c == orderRec[key].collReserved
<1> USE DEF BooksInv
<1>1. PICK released \in 1 .. q, coll \in 0 .. c :
          /\ key \in Records
          /\ released = q - StillOpen(key)
          /\ coll = CollateralReleased(orderRec[key], released)
          /\ \A k \in OrderKeys \ {key} : orderRec'[k] = orderRec[k]
          /\ orderRec'[key].qtyOpen = q - released
          /\ orderRec'[key].collReserved = c - coll
          /\ released # q =>
               /\ orderRec'[key].market = orderRec[key].market
               /\ orderRec'[key].kind = orderRec[key].kind
          /\ \A n \in Markets :
                /\ marketState'[n].pool = marketState[n].pool
                /\ marketState'[n].marketNonce = marketState[n].marketNonce
                /\ marketState'[n].domain = marketState[n].domain
                /\ marketState'[n].tracked = marketState[n].tracked
          /\ UNCHANGED <<now, phase, poolNonce, nextId, book>>
  <2>1. TypeInv
    OBVIOUS
  <2> HIDE DEF BooksInv
  <2>2. QED
    BY <2>1, ReleaseEffects
<1>2. TypeOK
  BY DEF TypeInv
<1>3. q \in Nat \ {0} /\ c \in Nat /\ StillOpen(key) \in Nat
  <2>1. VenueTypeOK
    BY <1>2 DEF TypeOK
  <2>2. QED
    BY <1>1, <1>2, <2>1, RecordFields, StillOpenType DEF Records
<1>4. PastMarketsOver' /\ PinnedToItsGeneration'
  BY <1>1 DEF PastMarketsOver, IsSettled, PinnedToItsGeneration
<1>5. IdsInOrder'
  <2>1. Records' \subseteq Records
    BY <1>1 DEF Records
  <2>2. QED
    BY <1>1, <2>1 DEF IdsInOrder
<1>6. RecordsPay'
  <2> SUFFICES ASSUME NEW o \in Resting
               PROVE  LET r == orderRec'[KeyOf(o)]
                          b == book[o]
                      IN  /\ r.qtyOpen >= b.quantityRemaining
                          /\ r.kind = b.kind
                          /\ Hosts(o[1], r.market)
                          /\ IsBuy(b.kind) =>
                               UnitPrice(b.kind, b.price) * r.qtyOpen <= r.collReserved * One
    BY <1>1 DEF RecordsPay, Resting, KeyOf, Hosts
  <2> DEFINE u == UnitPrice(book[o].kind, book[o].price)
  <2>1. /\ KeyOf(o) = <<o[1], poolNonce[o[1]], o[2]>> /\ KeyOf(o) \in OrderKeys
        /\ o \in Pools \X OrderIds /\ o = <<o[1], o[2]>>
    <3>1. poolNonce \in [Pools -> Gens]
      BY <1>2 DEF TypeOK, VenueTypeOK
    <3>2. QED
      BY <3>1 DEF Resting, KeyOf, OrderKey, OrderKeys
  <2>2. /\ orderRec[KeyOf(o)].kind = book[o].kind
        /\ Hosts(o[1], orderRec[KeyOf(o)].market)
        /\ orderRec[KeyOf(o)].qtyOpen >= book[o].quantityRemaining
        /\ IsBuy(book[o].kind) =>
              u * orderRec[KeyOf(o)].qtyOpen <= orderRec[KeyOf(o)].collReserved * One
    BY DEF RecordsPay
  <2>3. CASE KeyOf(o) # key
    BY <1>1, <2>1, <2>2, <2>3
  <2>4. CASE KeyOf(o) = key
    <3>1. StillOpen(key) = book[o].quantityRemaining
      BY <2>1, <2>4 DEF StillOpen, LiveRemaining
    <3>2. book[o].quantityRemaining # 0
      BY DEF Resting
    <3>3. released # q /\ q - released = book[o].quantityRemaining /\ released \in 0 .. q
      BY <1>1, <1>3, <3>1, <3>2
    <3>4. u \in Nat
      <4>1. book[o] \in BookOrders
        BY <1>2, <2>1 DEF TypeOK, VenueTypeOK
      <4>2. book[o].kind \in Kinds /\ book[o].price \in 0 .. One
        <5>1. Prices \cup {0} \subseteq 0 .. One
          BY VenueAssumption, OneAssumption
        <5>2. QED
          BY <4>1, <5>1 DEF BookOrders
      <4>3. QED
        BY <4>2, UnitType
    <3>5. IsBuy(book[o].kind) => u * (q - released) <= (c - coll) * One
      <4>1. coll = (c * released) \div q
        BY <1>1 DEF CollateralReleased
      <4>2. IsBuy(book[o].kind) => u * q <= c * One
        BY <2>2, <2>4
      <4> HIDE DEF u, q, c
      <4>3. QED
        BY <1>3, <3>3, <3>4, <4>1, <4>2, ShareKeepsCover
    <3>6. book[o].quantityRemaining \in Nat
      BY <1>3, <3>1
    <3>7. QED
      BY <1>1, <2>2, <2>4, <3>3, <3>5, <3>6
  <2>5. QED
    BY <2>3, <2>4
<1>7. QED
  BY <1>4, <1>5, <1>6 DEF GenerationsMatch

LEMMA QuietGenerations ==
    ASSUME BooksInv, QuietPortfolio, QuietVenue
    PROVE  GenerationsMatch'
<1> USE DEF BooksInv
<1>1. /\ poolNonce \in [Pools -> Gens] /\ nextId \in [Pools -> 1 .. MaxOrders + 1]
      /\ book \in [Pools \X OrderIds -> BookOrders] /\ now \in Nat
      /\ GenOf \in [Markets -> Gens] /\ PoolOf \in [Markets -> Pools]
      /\ Expiry \in [Markets -> Nat] /\ Gens \subseteq Nat
  <2>1. /\ poolNonce \in [Pools -> Gens] /\ nextId \in [Pools -> 1 .. MaxOrders + 1]
        /\ book \in [Pools \X OrderIds -> BookOrders] /\ now \in Nat
    BY DEF TypeInv, TypeOK, VenueTypeOK
  <2>2. /\ GenOf \in [Markets -> Gens] /\ PoolOf \in [Markets -> Pools]
        /\ Expiry \in [Markets -> Nat] /\ Gens \subseteq Nat
    BY VenueAssumption DEF Gens
  <2>3. QED
    BY <2>1, <2>2
<1>2. Records' = Records /\ orderRec' = orderRec
  BY DEF QuietPortfolio, Records
<1>3. PinnedToItsGeneration'
  BY DEF QuietPortfolio, PinnedToItsGeneration
<1>4. \A k \in Records : k[1] \in Pools /\ k[2] \in Nat /\ k[3] \in Nat
  <2>1. \A k \in OrderKeys : k[1] \in Pools /\ k[2] \in Gens /\ k[3] \in OrderIds
    BY DEF OrderKeys
  <2>2. Records \subseteq OrderKeys /\ OrderIds \subseteq Nat
    BY DEF Records, OrderIds
  <2>3. QED
    BY <1>1, <2>1, <2>2
<1>5. ASSUME UNCHANGED <<poolNonce, nextId>>
      PROVE  IdsInOrder'
  BY <1>2, <1>5 DEF IdsInOrder
<1>6. ASSUME UNCHANGED <<poolNonce, book>>
      PROVE  RecordsPay'
  BY <1>2, <1>6 DEF RecordsPay, Resting, KeyOf, Hosts
<1>7. ASSUME UNCHANGED poolNonce, now' >= now, now' \in Nat,
             \A m \in Markets : phase[m] \in Terminal => phase'[m] \in Terminal
      PROVE  PastMarketsOver'
  <2> SUFFICES ASSUME NEW m \in Markets, poolNonce[PoolOf[m]] > GenOf[m]
               PROVE  phase'[m] \in Terminal \/ now' >= Expiry[m]
    BY <1>7 DEF PastMarketsOver, IsSettled
  <2>1. phase[m] \in Terminal \/ now >= Expiry[m]
    BY DEF PastMarketsOver, IsSettled
  <2>2. Expiry[m] \in Nat
    BY <1>1
  <2>3. QED
    BY <1>1, <1>7, <2>1, <2>2
<1>8. CASE UNCHANGED <<now, phase, poolNonce, nextId, book>>
  BY <1>1, <1>3, <1>5, <1>6, <1>7, <1>8 DEF GenerationsMatch
<1>9. CASE /\ UNCHANGED <<poolNonce, nextId, book>>
           /\ now' \in Nat /\ now' >= now
           /\ \A m \in Markets : phase[m] \in Terminal => phase'[m] \in Terminal
  BY <1>3, <1>5, <1>6, <1>7, <1>9 DEF GenerationsMatch
<1>10. ASSUME UNCHANGED <<now, phase, poolNonce, nextId>>,
              NEW at \in Pools \X OrderIds, NEW n \in 1 .. book[at].quantityRemaining,
              book' = [book EXCEPT ![at] = Reduced(book[at], n)]
       PROVE  GenerationsMatch'
  <2>1. RecordsPay'
    <3> SUFFICES ASSUME NEW o \in Pools \X OrderIds, book'[o].quantityRemaining # 0
                 PROVE  LET r == orderRec[KeyOf(o)]
                            b == book'[o]
                        IN  /\ r.qtyOpen >= b.quantityRemaining
                            /\ r.kind = b.kind
                            /\ Hosts(o[1], r.market)
                            /\ IsBuy(b.kind) =>
                                 UnitPrice(b.kind, b.price) * r.qtyOpen <= r.collReserved * One
      BY <1>2, <1>10 DEF RecordsPay, Resting, KeyOf, Hosts
    <3>1. book[o] \in BookOrders /\ book[o].quantityRemaining \in Nat
      BY <1>1 DEF BookOrders
    <3>2. /\ book'[o].kind = book[o].kind /\ book'[o].price = book[o].price
          /\ book'[o].quantityRemaining \in Nat
          /\ book'[o].quantityRemaining <= book[o].quantityRemaining
      <4>1. CASE o # at
        BY <1>1, <1>10, <3>1, <4>1
      <4>2. CASE o = at
        <5>1. book'[o] = Reduced(book[o], n)
          BY <1>1, <1>10, <4>2
        <5>2. n # book[o].quantityRemaining
          BY <5>1, <3>1 DEF Reduced, NoOrder
        <5>3. book'[o] = [book[o] EXCEPT !.quantityRemaining = book[o].quantityRemaining - n]
          BY <5>1, <5>2 DEF Reduced
        <5>4. n \in Nat /\ n <= book[o].quantityRemaining
          BY <3>1, <4>2
        <5>5. QED
          BY <3>1, <5>3, <5>4 DEF BookOrders
      <4>3. QED
        BY <4>1, <4>2
    <3>3. o \in Resting
      BY <3>1, <3>2 DEF Resting
    <3>4. LET r == orderRec[KeyOf(o)]
              b == book[o]
          IN  /\ r.qtyOpen >= b.quantityRemaining
              /\ r.kind = b.kind
              /\ Hosts(o[1], r.market)
              /\ IsBuy(b.kind) =>
                   UnitPrice(b.kind, b.price) * r.qtyOpen <= r.collReserved * One
      BY <3>3 DEF RecordsPay
    <3>5. orderRec[KeyOf(o)].qtyOpen \in Nat
      <4>1. KeyOf(o) \in OrderKeys
        BY <1>1 DEF KeyOf, OrderKey, OrderKeys
      <4>2. TypeOK
        BY DEF TypeInv
      <4>3. QED
        BY <4>1, <4>2, RecordValues
    <3>6. QED
      BY <3>1, <3>2, <3>4, <3>5
  <2>2. QED
    BY <1>1, <1>3, <1>5, <1>7, <1>10, <2>1 DEF GenerationsMatch
<1>11. ASSUME UNCHANGED <<now, phase, book>>, NEW p \in Pools, Roll(p)
       PROVE  GenerationsMatch'
  <2>1. /\ poolNonce' = [poolNonce EXCEPT ![p] = poolNonce[p] + 1]
        /\ nextId' = [nextId EXCEPT ![p] = 1]
        /\ \A m \in Markets : Hosts(p, m) => IsSettled(m) \/ now >= Expiry[m]
        /\ \A id \in OrderIds : book[<<p, id>>] = NoOrder
    BY <1>11 DEF Roll
  <2>2. /\ poolNonce'[p] = poolNonce[p] + 1
        /\ \A x \in Pools \ {p} : poolNonce'[x] = poolNonce[x] /\ nextId'[x] = nextId[x]
        /\ \A x \in Pools : poolNonce[x] \in Nat
    BY <1>1, <2>1
  <2>3. PastMarketsOver'
    <3> SUFFICES ASSUME NEW m \in Markets, poolNonce'[PoolOf[m]] > GenOf[m]
                 PROVE  IsSettled(m) \/ now >= Expiry[m]
      BY <1>11 DEF PastMarketsOver, IsSettled
    <3>1. PoolOf[m] \in Pools /\ GenOf[m] \in Nat
      BY <1>1
    <3>2. CASE poolNonce[PoolOf[m]] > GenOf[m]
      BY <3>2 DEF PastMarketsOver
    <3>3. CASE ~(poolNonce[PoolOf[m]] > GenOf[m])
      <4>1. PoolOf[m] = p /\ GenOf[m] = poolNonce[p]
        BY <2>2, <3>1, <3>3
      <4>2. QED
        BY <2>1, <4>1 DEF Hosts
    <3>4. QED
      BY <3>2, <3>3
  <2>4. IdsInOrder'
    <3> SUFFICES ASSUME NEW k \in Records
                 PROVE  /\ k[2] <= poolNonce'[k[1]]
                        /\ k[2] = poolNonce'[k[1]] => k[3] < nextId'[k[1]]
      BY <1>2 DEF IdsInOrder
    <3>1. /\ k[2] <= poolNonce[k[1]]
          /\ k[2] = poolNonce[k[1]] => k[3] < nextId[k[1]]
      BY DEF IdsInOrder
    <3>2. QED
      BY <1>4, <2>2, <3>1
  <2>5. RecordsPay'
    <3>1. Resting' = Resting /\ \A o \in Resting : o[1] \in Pools \ {p}
      <4>1. Resting' = Resting
        BY <1>11 DEF Resting
      <4>2. ASSUME NEW o \in Resting, o[1] = p
            PROVE  FALSE
        <5>1. o[2] \in OrderIds /\ o = <<p, o[2]>>
          BY <4>2 DEF Resting
        <5>2. book[o] = NoOrder
          BY <2>1, <5>1
        <5>3. QED
          BY <5>2 DEF Resting, NoOrder
      <4>3. QED
        BY <4>1, <4>2 DEF Resting
    <3>2. \A o \in Resting : poolNonce'[o[1]] = poolNonce[o[1]]
      BY <2>2, <3>1
    <3>3. QED
      BY <1>2, <1>11, <3>1, <3>2 DEF RecordsPay, KeyOf, Hosts
  <2>6. QED
    BY <1>3, <2>3, <2>4, <2>5 DEF GenerationsMatch
<1>12. QED
  BY <1>8, <1>9, <1>10, <1>11 DEF QuietVenue

-----------------------------------------------------------------------------

LEMMA BooksInit == Init => BooksInv
<1> SUFFICES ASSUME Init PROVE BooksInv
  OBVIOUS
<1>1. TypeInv
  BY InitTypeInv
<1>2. Records = {} /\ Resting = {}
  BY DEF Init, Fresh, VenueInit, Records, Resting, NoRecord, NoOrder
<1>3. PastMarketsOver
  <2>1. GenOf \in [Markets -> Gens] /\ PoolOf \in [Markets -> Pools] /\ Gens \subseteq Nat \ {0}
    BY VenueAssumption DEF Gens
  <2>2. \A m \in Markets : poolNonce[PoolOf[m]] = 1
    BY <2>1 DEF Init, Fresh, VenueInit
  <2>3. \A m \in Markets : GenOf[m] \in Nat \ {0}
    BY <2>1
  <2>4. ASSUME NEW m \in Markets
        PROVE  ~(poolNonce[PoolOf[m]] > GenOf[m])
    <3>1. GenOf[m] \in Nat \ {0} /\ poolNonce[PoolOf[m]] = 1
      BY <2>2, <2>3
    <3>2. QED
      BY <3>1
  <2>5. QED
    BY <2>4 DEF PastMarketsOver
<1>4. PinnedToItsGeneration
  BY DEF Init, Fresh, Untouched, PinnedToItsGeneration
<1>5. IdsInOrder /\ RecordsPay
  BY <1>2 DEF IdsInOrder, RecordsPay
<1>6. Sum(CollReserved, {}) = 0 /\ Sum(QtyOpen, {}) = 0
  BY SumEmpty
<1>7. ReservedMatchesRecords
  BY <1>2, <1>6 DEF Init, Fresh, ReservedMatchesRecords
<1>8. ReservationsMatchRecords
  <2>1. \A m \in Markets, kind \in Kinds : RecordsOf(m, kind) = {}
    BY <1>2 DEF RecordsOf
  <2>2. \A m \in Markets, kind \in Kinds : marketState[m].open[kind] = 0
    BY DEF Init, Fresh, Untouched, NoReservation
  <2>3. QED
    BY <1>6, <2>1, <2>2 DEF ReservationsMatchRecords
<1>9. AttributionCoversReservations
  <2>1. \A a \in Agents : OfAgent(a) = {}
    BY <1>2 DEF OfAgent
  <2>2. \A a \in Agents : agentCommitted[a] = 0
    BY DEF Init, Fresh
  <2>3. QED
    BY <1>6, <2>1, <2>2 DEF AttributionCoversReservations, OfAgent
<1>10. QED
  BY <1>1, <1>3, <1>4, <1>5, <1>7, <1>8, <1>9 DEF BooksInv

LEMMA BooksStep ==
    ASSUME BooksInv, [Next]_vars
    PROVE  BooksInv'
<1>1. TypeInv /\ TypeInv'
  <2>1. TypeInv
    BY DEF BooksInv
  <2>2. QED
    BY <2>1, TypeInvStep
<1>2. SumsMatch' /\ GenerationsMatch'
  <2>1. CASE \E a \in Agents, i \in NoncedIntents : Execute(a, i)
    BY <2>1, PlacedSums, PlacedGenerations
  <2>2. CASE \E key \in OrderKeys : ReleaseOrder(key)
    BY <2>2, ReleasedSums, ReleasedGenerations
  <2>3. CASE QuietPortfolio /\ QuietVenue
    BY <2>3, QuietSums, QuietGenerations
  <2>4. QED
    BY <1>1, <2>1, <2>2, <2>3, StepKinds
<1>3. QED
  BY <1>1, <1>2 DEF BooksInv, SumsMatch, GenerationsMatch

LEMMA RecordsCover ==
    ASSUME TypeOK, RecordsPay
    PROVE  RecordsCoverOrders
<1> SUFFICES ASSUME NEW o \in Resting
             PROVE  LET r == orderRec[KeyOf(o)]
                        b == book[o]
                    IN  /\ r.qtyOpen >= b.quantityRemaining
                        /\ r.kind = b.kind
                        /\ Hosts(o[1], r.market)
                        /\ IsBuy(b.kind) =>
                             r.collReserved >= ReserveFor(b.kind, b.price, b.quantityRemaining)
  BY DEF RecordsCoverOrders
<1> DEFINE r == orderRec[KeyOf(o)]
           b == book[o]
           u == UnitPrice(b.kind, b.price)
<1>1. /\ r.qtyOpen >= b.quantityRemaining
      /\ r.kind = b.kind
      /\ Hosts(o[1], r.market)
      /\ IsBuy(b.kind) => u * r.qtyOpen <= r.collReserved * One
  BY DEF RecordsPay
<1>2. b \in BookOrders /\ KeyOf(o) \in OrderKeys
  <2>1. book \in [Pools \X OrderIds -> BookOrders] /\ poolNonce \in [Pools -> Gens]
    BY DEF TypeOK, VenueTypeOK
  <2>2. QED
    BY <2>1 DEF Resting, KeyOf, OrderKey, OrderKeys
<1>3. b.kind \in Kinds /\ b.price \in 0 .. One /\ b.quantityRemaining \in Nat
  <2>1. Prices \cup {0} \subseteq 0 .. One
    BY VenueAssumption, OneAssumption
  <2>2. QED
    BY <1>2, <2>1 DEF BookOrders
<1>4. r.qtyOpen \in Nat /\ r.collReserved \in Nat
  BY <1>2, RecordValues
<1>5. u \in Nat
  BY <1>3, UnitType
<1>6. ASSUME IsBuy(b.kind)
      PROVE  ReserveFor(b.kind, b.price, b.quantityRemaining) <= r.collReserved
  <2> HIDE DEF r, b
  <2>1. u * b.quantityRemaining <= u * r.qtyOpen
    <3> HIDE DEF u
    <3>1. QED
      BY <1>1, <1>3, <1>4, <1>5, SMT
  <2>2. u * r.qtyOpen <= r.collReserved * One
    BY <1>1, <1>6
  <2>3. u * b.quantityRemaining <= r.collReserved * One
    <3> HIDE DEF u
    <3>1. u * b.quantityRemaining \in Nat /\ u * r.qtyOpen \in Nat /\ r.collReserved * One \in Nat
      BY <1>3, <1>4, <1>5, OneAssumption, SMT
    <3>2. QED
      BY <2>1, <2>2, <3>1
  <2>4. QED
    BY <1>3, <1>4, <2>3, ReserveLeast
<1>7. ReserveFor(b.kind, b.price, b.quantityRemaining) \in Nat
  BY <1>3, ReserveType
<1>8. QED
  BY <1>1, <1>4, <1>6, <1>7

THEOREM BooksInvariant == Spec => []BooksInv
<1>1. Init => BooksInv
  BY BooksInit
<1>2. BooksInv /\ [Next]_vars => BooksInv'
  BY BooksStep
<1>3. QED
  BY <1>1, <1>2, PTL DEF Spec

\* The escrow that gates admission is the sum of what the records hold, so the
\* clamp in releaseOrder never hides a difference.
THEOREM EscrowCorrect == Spec => []ReservedMatchesRecords
<1>1. BooksInv => ReservedMatchesRecords
  BY DEF BooksInv
<1>2. QED
  BY <1>1, BooksInvariant, PTL

\* The reservation counters of a market that is not settled are the sums of its
\* records, through partial fills, releases and recycled order ids.
THEOREM ReservationsCorrect == Spec => []ReservationsMatchRecords
<1>1. BooksInv => ReservationsMatchRecords
  BY DEF BooksInv
<1>2. QED
  BY <1>1, BooksInvariant, PTL

\* What the records reserve for an agent never exceeds what it is charged.
THEOREM AttributionCorrect == Spec => []AttributionCoversReservations
<1>1. BooksInv => AttributionCoversReservations
  BY DEF BooksInv
<1>2. QED
  BY <1>1, BooksInvariant, PTL

\* A tracked market is pinned to the generation that hosts it.
THEOREM PinningCorrect == Spec => []PinnedToItsGeneration
<1>1. BooksInv => PinnedToItsGeneration
  BY DEF BooksInv
<1>2. QED
  BY <1>1, BooksInvariant, PTL

\* Every resting order is covered by its record, in quantity and in collateral,
\* for every price and quantity: rounding never eats into the escrow.
THEOREM CoverCorrect == Spec => []RecordsCoverOrders
<1>1. BooksInv => RecordsCoverOrders
  BY RecordsCover DEF BooksInv, TypeInv
<1>2. QED
  BY <1>1, BooksInvariant, PTL

-----------------------------------------------------------------------------
(* Exposure, ceilings, the verifier and the preview.                       *)

\* S are orders of one kind that rest on m, and rests is what rests of each.
RestingPart(m, kind, S, rests) ==
    /\ S \subseteq RestingOn(m)
    /\ \A o \in S : book[o].kind = kind /\ rests[o] = book[o].quantityRemaining

\* Orders of one kind on one market rest for no more than its counter says:
\* each has a record of its own that holds at least as much.
LEMMA RestsWithinOpen ==
    ASSUME BooksInv, NEW m \in Markets, Charged(m), NEW kind \in Kinds,
           NEW S, NEW rests, RestingPart(m, kind, S, rests)
    PROVE  /\ IsFiniteSet(S)
           /\ \A o \in S : rests[o] \in Nat
           /\ Sum(rests, S) \in Nat
           /\ Sum(rests, S) <= marketState[m].open[kind]
           /\ marketState[m].open[kind] \in Nat
<1> DEFINE T == RecordsOf(m, kind)
           h == [o \in S |-> KeyOf(o)]
<1> USE DEF RestingPart
<1>1. TypeOK
  BY DEF BooksInv, TypeInv
<1>2. /\ poolNonce \in [Pools -> Gens]
      /\ book \in [Pools \X OrderIds -> BookOrders]
      /\ marketState[m] \in MarketStates
  BY <1>1 DEF TypeOK, VenueTypeOK
<1>3. marketState[m].pool = PoolOf[m] /\ marketState[m].marketNonce = GenOf[m]
  BY DEF BooksInv, PinnedToItsGeneration, Charged
<1>4. ASSUME NEW o \in S
      PROVE  /\ o \in Resting /\ o \in Pools \X OrderIds /\ o = <<o[1], o[2]>>
             /\ KeyOf(o) = <<o[1], poolNonce[o[1]], o[2]>>
             /\ KeyOf(o) \in T
             /\ rests[o] \in Nat /\ rests[o] <= QtyOpen[KeyOf(o)]
  <2>1. o \in Resting /\ o \in Pools \X OrderIds /\ o = <<o[1], o[2]>>
    BY DEF RestingOn, Resting
  <2>2. o[1] = PoolOf[m] /\ poolNonce[o[1]] = GenOf[m]
    BY <1>3 DEF RestingOn
  <2>3. KeyOf(o) = <<o[1], poolNonce[o[1]], o[2]>> /\ KeyOf(o) \in OrderKeys
    BY <1>2, <2>1 DEF KeyOf, OrderKey, OrderKeys
  <2>4. /\ orderRec[KeyOf(o)].qtyOpen >= book[o].quantityRemaining
        /\ orderRec[KeyOf(o)].kind = kind
        /\ Hosts(o[1], orderRec[KeyOf(o)].market)
    BY <2>1 DEF BooksInv, RecordsPay
  <2>5. book[o].quantityRemaining \in Nat \ {0}
    <3>1. book[o] \in BookOrders
      BY <1>2, <2>1
    <3>2. QED
      BY <2>1, <3>1 DEF Resting, BookOrders
  <2>6. QtyOpen[KeyOf(o)] = orderRec[KeyOf(o)].qtyOpen /\ QtyOpen[KeyOf(o)] \in Nat
    BY <1>1, <2>3, RecordValues
  <2>7. KeyOf(o) \in Records
    BY <2>3, <2>4, <2>5, <2>6 DEF Records
  <2>8. orderRec[KeyOf(o)].market = m
    <3>1. orderRec[KeyOf(o)].market \in Markets
      BY <1>1, <2>3, <2>7, RecordFields DEF Records
    <3>2. /\ PoolOf[orderRec[KeyOf(o)].market] = PoolOf[m]
          /\ GenOf[orderRec[KeyOf(o)].market] = GenOf[m]
      BY <2>2, <2>4 DEF Hosts
    <3>3. QED
      BY <3>1, <3>2, OneMarketPerGeneration
  <2>9. KeyOf(o) \in T
    BY <2>4, <2>7, <2>8 DEF RecordsOf
  <2>10. QED
    BY <2>1, <2>3, <2>4, <2>5, <2>6, <2>9
<1>5. IsFiniteSet(T) /\ \A k \in T : QtyOpen[k] \in Nat
  <2>1. T \subseteq OrderKeys
    BY DEF RecordsOf, Records
  <2>2. QED
    BY <1>1, <2>1, KeysFinite, FS_Subset, RecordValues
<1>6. h \in Injection(S, T)
  <2>1. h \in [S -> T]
    BY <1>4
  <2>2. \A a, b \in S : h[a] = h[b] => a = b
    BY <1>4
  <2>3. QED
    BY <2>1, <2>2 DEF Injection, IsInjective
<1>7. IsFiniteSet(S)
  BY <1>5, <1>6, FS_Injection
<1>8. Sum(rests, S) <= Sum(QtyOpen, T)
  <2>1. \A o \in S : rests[o] \in Nat /\ rests[o] <= QtyOpen[h[o]]
    BY <1>4
  <2> HIDE DEF T, h
  <2>2. QED
    BY <1>5, <1>6, <2>1, SumThrough
<1>9. marketState[m].open[kind] = Sum(QtyOpen, T)
  BY DEF Charged, BooksInv, ReservationsMatchRecords
<1>10. marketState[m].open[kind] \in Nat
  BY <1>2 DEF MarketStates
<1>11. Sum(rests, S) \in Nat
  BY <1>4, <1>7, SumType
<1>12. QED
  BY <1>4, <1>7, <1>8, <1>9, <1>10, <1>11

\* A point of an interval is no further from zero than its ends.
LEMMA WithinInterval ==
    ASSUME NEW b \in Int, NEW x \in Nat, NEW y \in Nat,
           NEW p \in Nat, NEW q \in Nat, NEW r \in Nat, NEW s \in Nat,
           x <= p + q, y <= r + s
    PROVE  Abs(b + x - y) <= WorstCase(b + p + q, b - r - s)
BY DEF Abs, WorstCase, Larger

LEMMA ExposureCovers ==
    ASSUME BooksInv
    PROVE  NeverUnderstates
<1> SUFFICES ASSUME NEW m \in Markets, Charged(m), NEW filled \in SUBSET RestingOn(m)
             PROVE  LET orders == RestingOn(m)
                        rests  == [o \in orders |-> book[o].quantityRemaining]
                        Of(kind, S) == {o \in S : book[o].kind = kind}
                    IN  Abs(Realized(m)
                              + Sum(rests, Of("BUY_YES", filled) \cup Of("SELL_YES", orders \ filled))
                              - Sum(rests, Of("BUY_NO", filled) \cup Of("SELL_NO", orders \ filled)))
                          <= MarketWorstCaseExposure(m)
  BY DEF NeverUnderstates
<1> DEFINE orders == RestingOn(m)
           rests  == [o \in orders |-> book[o].quantityRemaining]
           Of(kind, S) == {o \in S : book[o].kind = kind}
           open == marketState[m].open
<1>1. ASSUME NEW kind \in Kinds, NEW S \in SUBSET orders
      PROVE  /\ IsFiniteSet(Of(kind, S))
             /\ \A o \in Of(kind, S) : rests[o] \in Nat
             /\ Sum(rests, Of(kind, S)) \in Nat
             /\ Sum(rests, Of(kind, S)) <= open[kind]
             /\ open[kind] \in Nat
  <2>1. RestingPart(m, kind, Of(kind, S), rests)
    BY DEF RestingPart
  <2> HIDE DEF Of, rests
  <2>2. QED
    BY <2>1, RestsWithinOpen
<1>2. ASSUME NEW k1 \in Kinds, NEW k2 \in Kinds,
             NEW S1 \in SUBSET orders, NEW S2 \in SUBSET orders
      PROVE  /\ Sum(rests, Of(k1, S1) \cup Of(k2, S2)) \in Nat
             /\ Sum(rests, Of(k1, S1) \cup Of(k2, S2)) <= open[k1] + open[k2]
  <2> HIDE DEF Of, rests
  <2>1. /\ IsFiniteSet(Of(k1, S1)) /\ IsFiniteSet(Of(k2, S2))
        /\ \A o \in Of(k1, S1) \cup Of(k2, S2) : rests[o] \in Nat
    BY <1>1
  <2>2. IsFiniteSet(Of(k1, S1) \cup Of(k2, S2))
    BY <2>1, FS_Union
  <2>3. Sum(rests, Of(k1, S1) \cup Of(k2, S2)) \in Nat
    BY <2>1, <2>2, SumType
  <2>4. Sum(rests, Of(k1, S1) \cup Of(k2, S2)) <= Sum(rests, Of(k1, S1)) + Sum(rests, Of(k2, S2))
    BY <2>1, SumOfUnion
  <2>5. /\ Sum(rests, Of(k1, S1)) \in Nat /\ Sum(rests, Of(k1, S1)) <= open[k1]
        /\ Sum(rests, Of(k2, S2)) \in Nat /\ Sum(rests, Of(k2, S2)) <= open[k2]
        /\ open[k1] \in Nat /\ open[k2] \in Nat
    BY <1>1
  <2> HIDE DEF open
  <2>6. QED
    BY <2>3, <2>4, <2>5
<1> DEFINE gain == Sum(rests, Of("BUY_YES", filled) \cup Of("SELL_YES", orders \ filled))
           loss == Sum(rests, Of("BUY_NO", filled) \cup Of("SELL_NO", orders \ filled))
<1>3. /\ "BUY_YES" \in Kinds /\ "SELL_YES" \in Kinds
      /\ "BUY_NO" \in Kinds /\ "SELL_NO" \in Kinds
      /\ filled \in SUBSET orders /\ orders \ filled \in SUBSET orders
  BY DEF Kinds
<1>4. /\ gain \in Nat /\ gain <= open["BUY_YES"] + open["SELL_YES"]
      /\ loss \in Nat /\ loss <= open["BUY_NO"] + open["SELL_NO"]
  <2> HIDE DEF Of, rests, open, orders
  <2>1. QED
    BY <1>2, <1>3
<1>5. \A kind \in Kinds : open[kind] \in Nat
  <2>1. {} \in SUBSET orders
    OBVIOUS
  <2> HIDE DEF Of, rests, open, orders
  <2>2. QED
    BY <1>1, <2>1
<1>6. Realized(m) \in Int
  <2>1. marketState[m] \in MarketStates /\ bal \in [TokenIds -> Nat]
    BY DEF BooksInv, TypeInv, TypeOK, VenueTypeOK
  <2>2. \A side \in Sides :
            TokenId(marketState[m].pool, marketState[m].marketNonce, side) \in TokenIds
    BY <2>1 DEF MarketStates, TokenId, TokenIds
  <2>3. "YES" \in Sides /\ "NO" \in Sides
    BY DEF Sides
  <2>4. QED
    BY <2>1, <2>2, <2>3 DEF Realized
<1>7. MarketWorstCaseExposure(m) =
          WorstCase(Realized(m) + open["BUY_YES"] + open["SELL_YES"],
                    Realized(m) - open["BUY_NO"] - open["SELL_NO"])
  BY DEF MarketWorstCaseExposure, Charged, Up, Dn, UpperBound, LowerBound
<1> HIDE DEF gain, loss, open
<1>8. Abs(Realized(m) + gain - loss) <= MarketWorstCaseExposure(m)
  <2>1. /\ open["BUY_YES"] \in Nat /\ open["SELL_YES"] \in Nat
        /\ open["BUY_NO"] \in Nat /\ open["SELL_NO"] \in Nat
    BY <1>3, <1>5
  <2>2. Abs(Realized(m) + gain - loss) <=
            WorstCase(Realized(m) + open["BUY_YES"] + open["SELL_YES"],
                      Realized(m) - open["BUY_NO"] - open["SELL_NO"])
    BY <1>4, <1>6, <2>1, WithinInterval
  <2>3. QED
    BY <1>7, <2>2
<1>9. QED
  BY <1>8 DEF gain, loss

\* The contract's central claim, "uncertainty overstates, never understates": at
\* any time, however the resting orders of a tracked market resolve, the position
\* it ends in is within what the envelope charges for it.
THEOREM ExposureCorrect == Spec => []NeverUnderstates
<1>1. BooksInv => NeverUnderstates
  BY ExposureCovers
<1>2. QED
  BY <1>1, BooksInvariant, PTL

-----------------------------------------------------------------------------
(* Why an admitted order keeps its domain under the ceiling: the usage     *)
(* that admission projects is never below the usage measured afterwards.   *)

\* The portfolio marks a market settled only once it is.
SettledForGood == \A m \in Markets : marketState[m].settled => IsSettled(m)

\* A market leaves its domain's list with nothing reserved.
UntrackedEmpty ==
    \A m \in Markets :
        ~marketState[m].tracked /\ ~marketState[m].settled =>
            \A kind \in Kinds : marketState[m].open[kind] = 0

CeilingInv == BooksInv /\ SettledForGood /\ UntrackedEmpty

-----------------------------------------------------------------------------
(* The inductive invariant.                                                *)

LEMMA CeilingInit == Init => CeilingInv
<1> SUFFICES ASSUME Init PROVE CeilingInv
  OBVIOUS
<1>1. BooksInv
  BY BooksInit
<1>2. SettledForGood /\ UntrackedEmpty
  BY DEF Init, Fresh, Untouched, NoReservation, SettledForGood, UntrackedEmpty
<1>3. QED
  BY <1>1, <1>2 DEF CeilingInv

LEMMA CeilingStep ==
    ASSUME CeilingInv, [Next]_vars
    PROVE  CeilingInv'
<1>1. BooksInv /\ BooksInv' /\ TypeInv /\ TypeOK
  <2>1. BooksInv
    BY DEF CeilingInv
  <2>2. QED
    BY <2>1, BooksStep DEF BooksInv, TypeInv
<1>2. ASSUME NEW a \in Agents, NEW i \in NoncedIntents, Execute(a, i)
      PROVE  SettledForGood' /\ UntrackedEmpty'
  <2>1. PICK filled \in 0 .. i.quantity, resting \in 0 .. i.quantity,
             collOut \in 0 .. ReserveRequired(i) :
                PlaceAndReconcile(a, i, filled, resting, collOut)
    BY <1>2 DEF Execute
  <2>2. /\ \A n \in Markets \ {i.market} : marketState'[n] = marketState[n]
        /\ marketState'[i.market].settled = marketState[i.market].settled
    BY <1>1, <2>1, PlacedMarket
  <2>3. UNCHANGED phase
    BY <2>1 DEF PlaceAndReconcile, PlaceBinaryOrder
  <2>4. marketState'[i.market].tracked
    <3>1. i.market \in Markets /\ marketState[i.market] \in MarketStates
      BY <1>1, IntentFields DEF TypeOK
    <3>2. marketState' = [marketState EXCEPT ![i.market] =
                             [Pinned(i) EXCEPT !.open = ReservedOpen(i, resting)]]
      BY <2>1 DEF PlaceAndReconcile
    <3>3. QED
      BY <1>1, <3>1, <3>2 DEF TypeOK, Pinned, MarketStates
  <2>5. QED
    BY <2>2, <2>3, <2>4 DEF CeilingInv, SettledForGood, UntrackedEmpty, IsSettled
<1>3. ASSUME NEW key \in OrderKeys, ReleaseOrder(key)
      PROVE  SettledForGood' /\ UntrackedEmpty'
  <2> DEFINE o == orderRec[key]
             released == o.qtyOpen - StillOpen(key)
  <2>1. /\ o.qtyOpen # 0 /\ StillOpen(key) < o.qtyOpen
        /\ marketState[o.market].open[o.kind] >= released
        /\ marketState' = [marketState EXCEPT ![o.market].open[o.kind] = @ - released]
        /\ UNCHANGED phase
    BY <1>3 DEF ReleaseOrder, venueVars
  <2>2. o.market \in Markets /\ o.kind \in Kinds /\ o.qtyOpen \in Nat
    BY <1>1, <2>1, RecordFields
  <2>3. released \in Nat \ {0}
    BY <1>1, <2>1, <2>2, StillOpenType DEF TypeOK
  <2>4. marketState[o.market] \in MarketStates
    BY <1>1, <2>2 DEF TypeOK
  <2>5. marketState[o.market].open[o.kind] # 0
    BY <2>1, <2>2, <2>3, <2>4 DEF MarketStates
  <2> HIDE DEF released
  <2>6. /\ \A n \in Markets \ {o.market} : marketState'[n] = marketState[n]
        /\ marketState'[o.market].tracked = marketState[o.market].tracked
        /\ marketState'[o.market].settled = marketState[o.market].settled
    BY <1>1, <2>1, <2>2, <2>4 DEF TypeOK, MarketStates
  <2>7. marketState[o.market].tracked \/ marketState[o.market].settled
    BY <2>2, <2>5 DEF CeilingInv, UntrackedEmpty
  <2>8. ASSUME NEW n \in Markets
        PROVE  /\ marketState'[n].settled => IsSettled(n)'
               /\ ~marketState'[n].tracked /\ ~marketState'[n].settled =>
                    \A kind \in Kinds : marketState'[n].open[kind] = 0
    <3>1. CASE n = o.market
      BY <2>1, <2>6, <2>7, <3>1 DEF CeilingInv, SettledForGood, IsSettled
    <3>2. CASE n # o.market
      <4>1. marketState'[n] = marketState[n]
        BY <2>6, <3>2
      <4>2. QED
        BY <2>1, <4>1 DEF CeilingInv, SettledForGood, UntrackedEmpty, IsSettled
    <3>3. QED
      BY <3>1, <3>2
  <2> HIDE DEF o
  <2>9. QED
    BY <2>8 DEF SettledForGood, UntrackedEmpty
<1>4. ASSUME NEW m \in Markets, ReleaseSettled(m)
      PROVE  SettledForGood' /\ UntrackedEmpty'
  <2>1. /\ IsSettled(m) /\ UNCHANGED phase
        /\ marketState' = [marketState EXCEPT ![m] =
              [marketState[m] EXCEPT !.open = NoReservation, !.settled = TRUE]]
    BY <1>4 DEF ReleaseSettled, venueVars
  <2>2. marketState[m] \in MarketStates
    BY <1>1 DEF TypeOK
  <2>3. /\ marketState'[m].settled
        /\ \A n \in Markets \ {m} : marketState'[n] = marketState[n]
    BY <1>1, <2>1, <2>2 DEF TypeOK, MarketStates
  <2>4. QED
    BY <2>1, <2>3 DEF CeilingInv, SettledForGood, UntrackedEmpty, IsSettled
<1>5. ASSUME NEW m \in Markets, PruneMarket(m)
      PROVE  SettledForGood' /\ UntrackedEmpty'
  <2>1. /\ marketState[m].open = NoReservation /\ UNCHANGED phase
        /\ marketState' = [marketState EXCEPT ![m] = [marketState[m] EXCEPT !.tracked = FALSE]]
    BY <1>5 DEF PruneMarket, venueVars
  <2>2. marketState[m] \in MarketStates
    BY <1>1 DEF TypeOK
  <2>3. /\ marketState'[m].settled = marketState[m].settled
        /\ marketState'[m].open = NoReservation
        /\ \A n \in Markets \ {m} : marketState'[n] = marketState[n]
    BY <1>1, <2>1, <2>2 DEF TypeOK, MarketStates
  <2>4. QED
    BY <2>1, <2>3 DEF CeilingInv, SettledForGood, UntrackedEmpty, IsSettled, NoReservation
<1>6. ASSUME UNCHANGED marketState, QuietVenue
      PROVE  SettledForGood' /\ UntrackedEmpty'
  <2>1. \A m \in Markets : phase[m] \in Terminal => phase'[m] \in Terminal
    BY <1>6 DEF QuietVenue
  <2>2. QED
    BY <1>6, <2>1 DEF CeilingInv, SettledForGood, UntrackedEmpty, IsSettled
<1>7. SettledForGood' /\ UntrackedEmpty'
  <2>1. CASE AgentNext
    <3>1. PICK a \in Agents, i \in Intents, n \in 1 .. MaxNonce : Execute(a, WithNonce(i, n))
      BY <2>1 DEF AgentNext
    <3>2. WithNonce(i, n) \in NoncedIntents
      BY IntentsTyped
    <3>3. QED
      BY <1>2, <3>1, <3>2
  <2>2. CASE LifecycleNext
    BY <1>3, <1>4, <1>5, <2>2 DEF LifecycleNext
  <2>3. CASE ~AgentNext /\ ~LifecycleNext
    <3>1. UNCHANGED marketState
      BY <2>3 DEF Next, OwnerNext, SetGlobalPolicy, SetDomainPolicy, SetAgent, RevokeAgent,
         Fund, SetCapitalBase, Withdraw, WithdrawOutcome, CancelOrder, Redeem,
         vars, portfolioVars, marketVars
    <3>2. QuietVenue
      <4>1. CASE VenueNext \/ UNCHANGED venueVars
        BY <1>1, <4>1, VenueIsQuiet DEF TypeOK, QuietVenue, venueVars
      <4>2. CASE OwnerNext
        BY <1>1, <4>2, OwnerIsQuiet
      <4>3. QED
        BY <2>3, <4>1, <4>2 DEF Next, vars
    <3>3. QED
      BY <1>6, <3>1, <3>2
  <2>4. QED
    BY <2>1, <2>2, <2>3
<1>8. QED
  BY <1>1, <1>7 DEF CeilingInv

-----------------------------------------------------------------------------
(* Arithmetic: a narrower interval has a smaller worst case.               *)

LEMMA NarrowerInterval ==
    ASSUME NEW u \in Int, NEW d \in Int, NEW v \in Int, NEW e \in Int,
           d <= e, e <= v, v <= u
    PROVE  WorstCase(v, e) <= WorstCase(u, d)
BY DEF WorstCase, Abs, Larger

LEMMA WorstCaseType ==
    ASSUME NEW u \in Int, NEW d \in Int
    PROVE  WorstCase(u, d) \in Nat
BY DEF WorstCase, Abs, Larger

\* A market's exposure is a natural number, before a step and after it.
LEMMA RiskType ==
    ASSUME TypeOK, NEW m \in Markets
    PROVE  /\ Realized(m) \in Int /\ Up(m) \in Int /\ Dn(m) \in Int
           /\ MarketWorstCaseExposure(m) \in Nat
<1>1. marketState[m] \in MarketStates /\ bal \in [TokenIds -> Nat]
  BY DEF TypeOK, VenueTypeOK
<1>2. Realized(m) \in Int
  BY <1>1 DEF Realized, TokenId, TokenIds, MarketStates, Sides
<1>3. Up(m) \in Int /\ Dn(m) \in Int
  BY <1>1, <1>2 DEF Up, Dn, UpperBound, LowerBound, MarketStates, Kinds
<1>4. QED
  BY <1>2, <1>3, WorstCaseType DEF MarketWorstCaseExposure

LEMMA RiskTypeAfter ==
    ASSUME TypeOK', NEW m \in Markets
    PROVE  /\ Realized(m)' \in Int /\ Up(m)' \in Int /\ Dn(m)' \in Int
           /\ MarketWorstCaseExposure(m)' \in Nat
<1>1. marketState'[m] \in MarketStates /\ bal' \in [TokenIds -> Nat]
  BY DEF TypeOK, VenueTypeOK
<1>2. Realized(m)' \in Int
  BY <1>1 DEF Realized, TokenId, TokenIds, MarketStates, Sides
<1>3. Up(m)' \in Int /\ Dn(m)' \in Int
  BY <1>1, <1>2 DEF Up, Dn, UpperBound, LowerBound, MarketStates, Kinds
<1>4. QED
  BY <1>2, <1>3, WorstCaseType DEF MarketWorstCaseExposure

-----------------------------------------------------------------------------
(* What a placement does to the exposures.                                 *)

\* Placed(a, i, ..) is the step of an admitted order.
Placed(a, i, filled, resting, collOut) ==
    Admissible(a, i) /\ PlaceAndReconcile(a, i, filled, resting, collOut)

Token(i, side) == TokenId(PoolOf[i.market], GenOf[i.market], side)

LEMMA PlacedBalances ==
    ASSUME CeilingInv, NEW a \in Agents, NEW i \in NoncedIntents,
           NEW filled \in 0 .. i.quantity, NEW resting \in 0 .. i.quantity,
           NEW collOut \in 0 .. ReserveRequired(i),
           Placed(a, i, filled, resting, collOut)
    PROVE  /\ filled + resting <= i.quantity
           /\ \A side \in Sides : Token(i, side) \in TokenIds
           /\ \A t \in TokenIds : t # Token(i, SideOf(i.kind)) => bal'[t] = bal[t]
           /\ IsBuy(i.kind) =>
                bal'[Token(i, SideOf(i.kind))] = bal[Token(i, SideOf(i.kind))] + filled
           /\ ~IsBuy(i.kind) =>
                bal'[Token(i, SideOf(i.kind))]
                    = bal[Token(i, SideOf(i.kind))] - (filled + resting)
<1>1. TypeOK /\ PastMarketsOver /\ PinnedToItsGeneration
  BY DEF CeilingInv, BooksInv, TypeInv
<1>2. i.pool = PoolOf[i.market] /\ poolNonce[i.pool] = GenOf[i.market]
  BY <1>1, AdmittedIsCurrent DEF Placed
<1>3. i.quantity \in Nat /\ i.market \in Markets
  BY IntentFields
<1>4. PlaceBinaryOrder(i, filled, resting, collOut)
  BY DEF Placed, PlaceAndReconcile
<1>5. filled + resting <= i.quantity
  BY <1>3, <1>4 DEF PlaceBinaryOrder, Placement
<1>6. bal \in [TokenIds -> Nat]
  BY <1>1 DEF TypeOK, VenueTypeOK
<1>7. \A side \in Sides : Token(i, side) \in TokenIds
  BY <1>3, VenueAssumption DEF Token, TokenId, TokenIds
<1>8. SideOf(i.kind) \in Sides
  BY DEF SideOf, Sides
<1>9. TokenId(i.pool, poolNonce[i.pool], SideOf(i.kind)) = Token(i, SideOf(i.kind))
  BY <1>2 DEF Token
<1>10. IF IsBuy(i.kind)
       THEN bal' = [bal EXCEPT ![Token(i, SideOf(i.kind))] = @ + filled]
       ELSE bal' = [bal EXCEPT ![Token(i, SideOf(i.kind))] = @ - (filled + resting)]
  BY <1>4, <1>9 DEF PlaceBinaryOrder
<1>11. QED
  BY <1>5, <1>6, <1>7, <1>8, <1>10

\* The other tracked markets keep their exposure: they have tokens of their own.
LEMMA OthersKeepRisk ==
    ASSUME CeilingInv, NEW a \in Agents, NEW i \in NoncedIntents,
           NEW filled \in 0 .. i.quantity, NEW resting \in 0 .. i.quantity,
           NEW collOut \in 0 .. ReserveRequired(i),
           Placed(a, i, filled, resting, collOut),
           NEW n \in Markets, n # i.market, marketState[n].tracked
    PROVE  MarketWorstCaseExposure(n)' = MarketWorstCaseExposure(n)
<1>1. TypeOK /\ PinnedToItsGeneration
  BY DEF CeilingInv, BooksInv, TypeInv
<1>2. marketState'[n] = marketState[n]
  BY <1>1, PlacedMarket DEF Placed
<1>3. marketState[n].pool = PoolOf[n] /\ marketState[n].marketNonce = GenOf[n]
  BY <1>1 DEF PinnedToItsGeneration
<1>4. i.market \in Markets
  BY IntentFields
<1>5. \A side \in Sides : /\ TokenId(PoolOf[n], GenOf[n], side) \in TokenIds
                          /\ TokenId(PoolOf[n], GenOf[n], side) # Token(i, SideOf(i.kind))
  BY <1>4, OneMarketPerGeneration, VenueAssumption DEF TokenId, TokenIds, Token
<1>6. \A side \in Sides :
          bal'[TokenId(PoolOf[n], GenOf[n], side)] = bal[TokenId(PoolOf[n], GenOf[n], side)]
  BY <1>5, PlacedBalances
<1>7. Realized(n)' = Realized(n)
  BY <1>2, <1>3, <1>6 DEF Realized, Sides
<1>8. QED
  BY <1>2, <1>7 DEF MarketWorstCaseExposure, Up, Dn

\* What admission projects a known market's interval from.
LEMMA ProjectedFrom ==
    ASSUME CeilingInv, NEW a \in Agents, NEW i \in NoncedIntents, Admissible(a, i),
           Projectable(i.market)
    PROVE  LET m == i.market
               b == bal[Token(i, "YES")] - bal[Token(i, "NO")]
               open == marketState[m].open
           IN  /\ ~marketState[m].settled
               /\ (IF marketState[m].tracked THEN Up(m) ELSE 0)
                      = b + open["BUY_YES"] + open["SELL_YES"]
               /\ (IF marketState[m].tracked THEN Dn(m) ELSE 0)
                      = b - open["BUY_NO"] - open["SELL_NO"]
<1> DEFINE m == i.market
<1>1. TypeOK /\ PinnedToItsGeneration /\ SettledForGood /\ UntrackedEmpty
  BY DEF CeilingInv, BooksInv, TypeInv
<1>2. m \in Markets
  BY IntentFields
<1>3. ~marketState[m].settled
  BY <1>1, <1>2 DEF SettledForGood, Admissible, MarketGates, TradingGates
<1>4. CASE marketState[m].tracked
  <2>1. marketState[m].pool = PoolOf[m] /\ marketState[m].marketNonce = GenOf[m]
    BY <1>1, <1>2, <1>4 DEF PinnedToItsGeneration
  <2>2. QED
    BY <1>3, <1>4, <2>1 DEF Up, Dn, UpperBound, LowerBound, Realized, Token
<1>5. CASE ~marketState[m].tracked
  <2>1. \A kind \in Kinds : marketState[m].open[kind] = 0
    BY <1>1, <1>2, <1>3, <1>5 DEF UntrackedEmpty
  <2>2. bal[Token(i, "YES")] = 0 /\ bal[Token(i, "NO")] = 0
    BY <1>5 DEF Projectable, Sides, Token
  <2>3. QED
    BY <1>3, <1>5, <2>1, <2>2 DEF Kinds
<1>6. QED
  BY <1>4, <1>5

\* And what it is measured as afterwards.
LEMMA MeasuredAs ==
    ASSUME CeilingInv, CeilingInv', NEW a \in Agents, NEW i \in NoncedIntents,
           NEW filled \in 0 .. i.quantity, NEW resting \in 0 .. i.quantity,
           NEW collOut \in 0 .. ReserveRequired(i),
           Placed(a, i, filled, resting, collOut), ~marketState[i.market].settled
    PROVE  LET m == i.market
               b == bal'[Token(i, "YES")] - bal'[Token(i, "NO")]
               open == marketState'[m].open
           IN  /\ marketState'[m].tracked
               /\ MarketWorstCaseExposure(m)' = WorstCase(Up(m)', Dn(m)')
               /\ Up(m)' = b + open["BUY_YES"] + open["SELL_YES"]
               /\ Dn(m)' = b - open["BUY_NO"] - open["SELL_NO"]
<1> DEFINE m == i.market
<1>1. TypeOK /\ PastMarketsOver /\ PinnedToItsGeneration
  BY DEF CeilingInv, BooksInv, TypeInv
<1>2. m \in Markets /\ marketState[m] \in MarketStates
  BY <1>1, IntentFields DEF TypeOK
<1>3. i.pool = PoolOf[m] /\ i.marketNonce = GenOf[m]
  BY <1>1, AdmittedIsCurrent DEF Placed
<1>4. /\ ~marketState'[m].settled
      /\ marketState'[m].pool = PoolOf[m] /\ marketState'[m].marketNonce = GenOf[m]
  BY <1>1, <1>3, PlacedMarket DEF Placed
<1>5. marketState'[m].tracked
  <2>1. marketState' = [marketState EXCEPT ![m] =
                           [Pinned(i) EXCEPT !.open = ReservedOpen(i, resting)]]
    BY DEF Placed, PlaceAndReconcile
  <2>2. QED
    BY <1>1, <1>2, <2>1 DEF TypeOK, Pinned, MarketStates
<1>6. QED
  BY <1>4, <1>5
  DEF MarketWorstCaseExposure, Up, Dn, UpperBound, LowerBound, Realized, Token

\* The heart of admission: whatever part of the order fills, rests or falls
\* away, the market is measured at no more than was projected.
LEMMA ProjectionHolds ==
    ASSUME CeilingInv, CeilingInv', NEW a \in Agents, NEW i \in NoncedIntents,
           NEW filled \in 0 .. i.quantity, NEW resting \in 0 .. i.quantity,
           NEW collOut \in 0 .. ReserveRequired(i),
           Placed(a, i, filled, resting, collOut), Projectable(i.market)
    PROVE  MarketWorstCaseExposure(i.market)' <= WorstAfter(i)
<1> DEFINE m == i.market
           open == marketState[m].open
           Open == marketState'[m].open
           yes == bal[Token(i, "YES")]
           no == bal[Token(i, "NO")]
           Yes == bal'[Token(i, "YES")]
           No == bal'[Token(i, "NO")]
           up == IF marketState[m].tracked THEN Up(m) ELSE 0
           dn == IF marketState[m].tracked THEN Dn(m) ELSE 0
           q == i.quantity
<1>1. TypeOK /\ TypeOK' /\ m \in Markets /\ i.kind \in Kinds /\ q \in Nat
  BY IntentFields DEF CeilingInv, BooksInv, TypeInv
<1>2. /\ ~marketState[m].settled
      /\ up = yes - no + open["BUY_YES"] + open["SELL_YES"]
      /\ dn = yes - no - open["BUY_NO"] - open["SELL_NO"]
  BY ProjectedFrom DEF Placed
<1>3. /\ MarketWorstCaseExposure(m)' = WorstCase(Up(m)', Dn(m)')
      /\ Up(m)' = Yes - No + Open["BUY_YES"] + Open["SELL_YES"]
      /\ Dn(m)' = Yes - No - Open["BUY_NO"] - Open["SELL_NO"]
  BY <1>2, MeasuredAs
<1>4. /\ \A kind \in Kinds : Open[kind] = open[kind] + IF kind = i.kind THEN resting ELSE 0
      /\ \A kind \in Kinds : open[kind] \in Nat
  <2>1. marketState[m] \in MarketStates
    BY <1>1 DEF TypeOK
  <2>2. QED
    BY <1>1, <2>1, PlacedMarket DEF Placed, MarketStates
<1>5. /\ yes \in Nat /\ no \in Nat /\ Token(i, "YES") # Token(i, "NO")
      /\ Token(i, "YES") \in TokenIds /\ Token(i, "NO") \in TokenIds
  <2>1. Token(i, "YES") \in TokenIds /\ Token(i, "NO") \in TokenIds
    BY PlacedBalances DEF Sides
  <2>2. QED
    BY <1>1, <2>1 DEF TypeOK, VenueTypeOK, Token, TokenId
<1>6. /\ filled + resting <= q
      /\ \A t \in TokenIds : t # Token(i, SideOf(i.kind)) => bal'[t] = bal[t]
      /\ IsBuy(i.kind) =>
           bal'[Token(i, SideOf(i.kind))] = bal[Token(i, SideOf(i.kind))] + filled
      /\ ~IsBuy(i.kind) =>
           bal'[Token(i, SideOf(i.kind))]
               = bal[Token(i, SideOf(i.kind))] - (filled + resting)
  BY PlacedBalances
<1>7. /\ filled \in Nat /\ resting \in Nat
      /\ "BUY_YES" \in Kinds /\ "SELL_YES" \in Kinds /\ "BUY_NO" \in Kinds /\ "SELL_NO" \in Kinds
  BY <1>1 DEF Kinds
<1>8. Up(m)' \in Int /\ Dn(m)' \in Int
  BY <1>1, RiskTypeAfter
<1>9. up \in Int /\ dn \in Int
  BY <1>2, <1>4, <1>5, <1>7
<1>10. Dn(m)' <= Up(m)'
  <2>1. \A kind \in Kinds : Open[kind] \in Nat
    BY <1>1 DEF TypeOK, MarketStates
  <2>2. Yes \in Nat /\ No \in Nat
    BY <1>1, <1>5 DEF TypeOK, VenueTypeOK
  <2> HIDE DEF Yes, No, Open
  <2>3. QED
    BY <1>3, <1>7, <2>1, <2>2
<1> HIDE DEF open, Open, yes, no, Yes, No, up, dn, q
<1>11. CASE i.kind = "BUY_YES"
  <2>1. Yes = yes + filled /\ No = no
    BY <1>5, <1>6, <1>11 DEF SideOf, IsBuy, IsYes, yes, no, Yes, No
  <2>2. /\ Open["BUY_YES"] = open["BUY_YES"] + resting
        /\ Open["SELL_YES"] = open["SELL_YES"]
        /\ Open["BUY_NO"] = open["BUY_NO"] /\ Open["SELL_NO"] = open["SELL_NO"]
    BY <1>4, <1>7, <1>11
  <2>3. dn <= Dn(m)' /\ Up(m)' <= up + q
    BY <1>1, <1>2, <1>3, <1>4, <1>5, <1>6, <1>7, <2>1, <2>2
  <2>4. WorstAfter(i) = WorstCase(up + q, dn)
    BY <1>11 DEF WorstAfter, up, dn, q
  <2>5. QED
    BY <1>1, <1>3, <1>8, <1>9, <1>10, <2>3, <2>4, NarrowerInterval
<1>12. CASE i.kind = "SELL_NO"
  <2>1. Yes = yes /\ No = no - (filled + resting)
    BY <1>5, <1>6, <1>12 DEF SideOf, IsBuy, IsYes, yes, no, Yes, No
  <2>2. /\ Open["SELL_NO"] = open["SELL_NO"] + resting
        /\ Open["SELL_YES"] = open["SELL_YES"]
        /\ Open["BUY_NO"] = open["BUY_NO"] /\ Open["BUY_YES"] = open["BUY_YES"]
    BY <1>4, <1>7, <1>12
  <2>3. dn <= Dn(m)' /\ Up(m)' <= up + q
    BY <1>1, <1>2, <1>3, <1>4, <1>5, <1>6, <1>7, <2>1, <2>2
  <2>4. WorstAfter(i) = WorstCase(up + q, dn)
    BY <1>12 DEF WorstAfter, up, dn, q
  <2>5. QED
    BY <1>1, <1>3, <1>8, <1>9, <1>10, <2>3, <2>4, NarrowerInterval
<1>13. CASE i.kind = "BUY_NO"
  <2>1. Yes = yes /\ No = no + filled
    BY <1>5, <1>6, <1>13 DEF SideOf, IsBuy, IsYes, yes, no, Yes, No
  <2>2. /\ Open["BUY_NO"] = open["BUY_NO"] + resting
        /\ Open["SELL_YES"] = open["SELL_YES"]
        /\ Open["BUY_YES"] = open["BUY_YES"] /\ Open["SELL_NO"] = open["SELL_NO"]
    BY <1>4, <1>7, <1>13
  <2>3. dn - q <= Dn(m)' /\ Up(m)' <= up
    BY <1>1, <1>2, <1>3, <1>4, <1>5, <1>6, <1>7, <2>1, <2>2
  <2>4. WorstAfter(i) = WorstCase(up, dn - q)
    BY <1>13 DEF WorstAfter, up, dn, q
  <2>5. QED
    BY <1>1, <1>3, <1>8, <1>9, <1>10, <2>3, <2>4, NarrowerInterval
<1>14. CASE i.kind = "SELL_YES"
  <2>1. Yes = yes - (filled + resting) /\ No = no
    BY <1>5, <1>6, <1>14 DEF SideOf, IsBuy, IsYes, yes, no, Yes, No
  <2>2. /\ Open["SELL_YES"] = open["SELL_YES"] + resting
        /\ Open["BUY_YES"] = open["BUY_YES"]
        /\ Open["BUY_NO"] = open["BUY_NO"] /\ Open["SELL_NO"] = open["SELL_NO"]
    BY <1>4, <1>7, <1>14
  <2>3. dn - q <= Dn(m)' /\ Up(m)' <= up
    BY <1>1, <1>2, <1>3, <1>4, <1>5, <1>6, <1>7, <2>1, <2>2
  <2>4. WorstAfter(i) = WorstCase(up, dn - q)
    BY <1>14 DEF WorstAfter, up, dn, q
  <2>5. QED
    BY <1>1, <1>3, <1>8, <1>9, <1>10, <2>3, <2>4, NarrowerInterval
<1>15. QED
  BY <1>1, <1>11, <1>12, <1>13, <1>14 DEF Kinds

-----------------------------------------------------------------------------
(* The domain's usage.                                                     *)

Slots(d) == 1 .. Len(domainMarkets[d])

\* The exposure charged at each slot of a domain's list.
RiskOf(d) == [k \in Slots(d) |-> MarketWorstCaseExposure(domainMarkets[d][k])]

\* The exposure at a slot is that of the market at the slot.
LEMMA RiskAt ==
    ASSUME NEW d, NEW k \in Slots(d), NEW o, domainMarkets[d][k] = o
    PROVE  RiskOf(d)[k] = MarketWorstCaseExposure(o)
BY DEF RiskOf

LEMMA RiskAtAfter ==
    ASSUME NEW d, NEW k, k \in Slots(d)', NEW o, domainMarkets'[d][k] = o
    PROVE  RiskOf(d)'[k] = MarketWorstCaseExposure(o)'
BY DEF RiskOf, MarketWorstCaseExposure, Up, Dn, Realized

\* The domain's usage after a placement is below the usage that was projected:
\* one slot of its list changes, or one is added at the end.
LEMMA UsageHolds ==
    ASSUME CeilingInv, CeilingInv', NEW a \in Agents, NEW i \in NoncedIntents,
           NEW filled \in 0 .. i.quantity, NEW resting \in 0 .. i.quantity,
           NEW collOut \in 0 .. ReserveRequired(i),
           Placed(a, i, filled, resting, collOut), Projectable(i.market)
    PROVE  /\ DomainRiskUsage(DomainOf[i.market])' \in Int /\ DomainUsageAfter(i) \in Int
           /\ DomainRiskUsage(DomainOf[i.market])' <= DomainUsageAfter(i)
<1> DEFINE m == i.market
           d == DomainOf[m]
           f == RiskOf(d)
           g == RiskOf(d)'
           n == Len(domainMarkets[d])
           R == MarketWorstCaseExposure(m)
           S == MarketWorstCaseExposure(m)'
<1>1. TypeOK /\ TypeOK' /\ DomainListsMatchTracking /\ PinnedToItsGeneration
  BY DEF CeilingInv, BooksInv, TypeInv
<1>2. m \in Markets /\ d \in Domains /\ R \in Nat /\ S \in Nat
  <2>1. m \in Markets
    BY IntentFields
  <2>2. d \in Domains
    BY <2>1, PortfolioAssumption DEF Placed, Admissible, MarketGates
  <2>3. R \in Nat
    BY <1>1, <2>1, RiskType
  <2>4. S \in Nat
    BY <1>1, <2>1, RiskTypeAfter
  <2>5. QED
    BY <2>1, <2>2, <2>3, <2>4
<1>3. domainMarkets[d] \in Seq(Markets) /\ n \in Nat
  BY <1>1, <1>2 DEF TypeOK
<1>4. S <= WorstAfter(i)
  BY ProjectionHolds
<1>5. WorstAfter(i) \in Nat
  <2> DEFINE up == IF marketState[m].tracked THEN Up(m) ELSE 0
             dn == IF marketState[m].tracked THEN Dn(m) ELSE 0
  <2>1. i.quantity \in Nat /\ up \in Int /\ dn \in Int
    BY <1>1, <1>2, IntentFields, RiskType
  <2>2. \/ WorstAfter(i) = WorstCase(up + i.quantity, dn)
        \/ WorstAfter(i) = WorstCase(up, dn - i.quantity)
    BY DEF WorstAfter
  <2> HIDE DEF up, dn
  <2>3. up + i.quantity \in Int /\ dn - i.quantity \in Int
    BY <2>1
  <2>4. QED
    BY <2>1, <2>2, <2>3, WorstCaseType
<1>6. /\ DomainRiskUsage(d) = Sum(f, 1 .. n)
      /\ DomainRiskUsage(d)' = Sum(g, Slots(d)')
  BY DEF DomainRiskUsage, RiskOf, Slots
<1>7. IsFiniteSet(1 .. n) /\ Sum(f, 1 .. n) \in Nat /\ \A k \in 1 .. n : f[k] \in Nat
  <2>1. IsFiniteSet(1 .. n)
    BY <1>3, FS_Interval
  <2>2. ASSUME NEW k \in 1 .. n
        PROVE  f[k] \in Nat
    <3>1. domainMarkets[d][k] \in Markets
      BY <1>3
    <3>2. MarketWorstCaseExposure(domainMarkets[d][k]) \in Nat
      BY <1>1, <3>1, RiskType
    <3>3. QED
      BY <3>2 DEF RiskOf, Slots
  <2> HIDE DEF f, n
  <2>3. QED
    BY <2>1, <2>2, SumType
<1>8. ASSUME NEW k \in 1 .. n
      PROVE  /\ domainMarkets[d][k] \in Markets /\ marketState[domainMarkets[d][k]].tracked
             /\ marketSlot[domainMarkets[d][k]] = k
  BY <1>1, <1>2, <1>3 DEF DomainListsMatchTracking
\* A slot another market keeps, keeps its exposure.
<1>9. ASSUME NEW k \in 1 .. n, domainMarkets[d][k] # m,
             k \in Slots(d)', domainMarkets'[d][k] = domainMarkets[d][k]
      PROVE  g[k] = f[k]
  <2>1. PICK o \in Markets : o = domainMarkets[d][k] /\ o # m /\ marketState[o].tracked
    BY <1>8, <1>9
  <2>2. MarketWorstCaseExposure(o)' = MarketWorstCaseExposure(o)
    BY <2>1, OthersKeepRisk
  <2>3. g[k] = MarketWorstCaseExposure(o)'
    BY <1>9, <2>1, RiskAtAfter
  <2>4. f[k] = MarketWorstCaseExposure(o)
    BY <2>1, RiskAt DEF Slots
  <2>5. QED
    BY <2>2, <2>3, <2>4
<1>10. Track(i)
  BY DEF Placed, PlaceAndReconcile
<1>11. Sum(g, Slots(d)') = Sum(f, 1 .. n) - R + S
  <2>1. CASE marketState[m].tracked
    <3> DEFINE k == marketSlot[m]
    <3>1. domainMarkets' = domainMarkets /\ Slots(d)' = 1 .. n
      BY <1>10, <2>1 DEF Track, Slots
    <3>2. k \in 1 .. n /\ domainMarkets[d][k] = m
      BY <1>1, <1>2, <2>1 DEF DomainListsMatchTracking, PinnedToItsGeneration
    <3>3. f[k] = R
      BY <3>2, RiskAt DEF Slots
    <3>4. g[k] = S
      BY <1>2, <3>1, <3>2, RiskAtAfter
    <3>5. \A j \in (1 .. n) \ {k} : g[j] = f[j]
      BY <1>8, <1>9, <3>1, <3>2
    <3> HIDE DEF f, g, R, S, n, k
    <3>6. g[k] \in Nat
      BY <1>2, <3>4
    <3>7. Sum(g, 1 .. n) = Sum(f, 1 .. n) - f[k] + g[k]
      <4> DEFINE I == 1 .. n
      <4>1. k \in I /\ IsFiniteSet(I)
        BY <1>7, <3>2
      <4>2. \A j \in I : f[j] \in Nat
        BY <1>7
      <4>3. \A j \in I \ {k} : g[j] = f[j]
        BY <3>5
      <4> HIDE DEF I
      <4>4. Sum(g, I) = Sum(f, I) - f[k] + g[k]
        BY <3>6, <4>1, <4>2, <4>3, SumChange
      <4>5. QED
        BY <4>4 DEF I
    <3>8. QED
      BY <3>1, <3>3, <3>4, <3>7
  <2>2. CASE ~marketState[m].tracked
    <3>1. domainMarkets'[d] = Append(domainMarkets[d], m)
      BY <1>1, <1>2, <1>10, <2>2 DEF Track, TypeOK
    <3>2. /\ Slots(d)' = 1 .. n + 1 /\ domainMarkets'[d][n + 1] = m
          /\ \A j \in 1 .. n : domainMarkets'[d][j] = domainMarkets[d][j]
      BY <1>2, <1>3, <3>1 DEF Slots
    <3>3. Slots(d)' = (1 .. n) \cup {n + 1} /\ n + 1 \notin 1 .. n
      <4> HIDE DEF n
      <4>1. QED
        BY <1>3, <3>2
    <3>4. g[n + 1] = S
      <4>1. n + 1 \in Slots(d)'
        BY <3>3
      <4> HIDE DEF n
      <4>2. QED
        BY <3>2, <4>1, RiskAtAfter
    <3>5. \A j \in 1 .. n : g[j] = f[j]
      BY <1>8, <1>9, <2>2, <3>2, <3>3
    <3>6. R = 0
      BY <2>2 DEF MarketWorstCaseExposure
    <3> HIDE DEF f, g, R, S, n
    <3>7. Sum(g, (1 .. n) \cup {n + 1}) = Sum(g, 1 .. n) + g[n + 1]
      <4>1. g[n + 1] \in Nat /\ \A j \in 1 .. n : g[j] \in Nat
        BY <1>2, <1>7, <3>4, <3>5
      <4>2. QED
        BY <1>7, <3>3, <4>1, SumAdd
    <3>8. Sum(g, 1 .. n) = Sum(f, 1 .. n)
      BY <3>5, SumSame
    <3>9. QED
      BY <1>2, <1>7, <3>3, <3>4, <3>6, <3>7, <3>8
  <2>3. QED
    BY <2>1, <2>2
<1>12. DomainUsageAfter(i) = Sum(f, 1 .. n) - R + WorstAfter(i)
  BY <1>6 DEF DomainUsageAfter
<1> HIDE DEF f, R, S, n
<1>13. QED
  BY <1>2, <1>4, <1>5, <1>6, <1>7, <1>11, <1>12

\* A step that places an order on m executes an intent for m.
LEMMA PlacedByExecute ==
    ASSUME CeilingInv, Next, NEW m \in Markets, PlacedOn(m)
    PROVE  \E a \in Agents, i \in NoncedIntents : Execute(a, i) /\ i.market = m
<1>1. TypeInv /\ TypeOK /\ PastMarketsOver /\ PinnedToItsGeneration
  BY DEF CeilingInv, BooksInv, TypeInv
<1>2. /\ PoolOf[m] \in Pools /\ nextId \in [Pools -> 1 .. MaxOrders + 1]
      /\ nextId[PoolOf[m]] \in Nat \ {0} /\ nextId'[PoolOf[m]] = nextId[PoolOf[m]] + 1
  BY <1>1, VenueAssumption DEF TypeOK, VenueTypeOK, PlacedOn
<1>3. ASSUME NEW a \in Agents, NEW i \in NoncedIntents, Execute(a, i)
      PROVE  i.market = m
  <2>1. Admissible(a, i) /\ nextId' = [nextId EXCEPT ![i.pool] = @ + 1]
    BY <1>3 DEF Execute, PlaceAndReconcile, PlaceBinaryOrder
  <2>2. i.market \in Markets /\ i.pool = PoolOf[i.market] /\ poolNonce[i.pool] = GenOf[i.market]
    BY <1>1, <2>1, IntentFields, AdmittedIsCurrent
  <2>3. PoolOf[m] = i.pool
    BY <1>2, <2>1
  <2>4. GenOf[m] = GenOf[i.market]
    BY <2>2, <2>3 DEF PlacedOn
  <2>5. QED
    BY <2>2, <2>3, <2>4, OneMarketPerGeneration
<1>4. ASSUME NEW key \in OrderKeys, ReleaseOrder(key)
      PROVE  FALSE
  BY <1>2, <1>4 DEF ReleaseOrder, venueVars
<1>5. ASSUME QuietVenue
      PROVE  FALSE
  BY <1>2, <1>5 DEF QuietVenue, Roll
<1>6. QED
  BY <1>1, <1>3, <1>4, <1>5, StepKinds

\* "It never admits an intent leaving a domain over its ceiling", for the
\* markets execute can project: whatever the placement did, the usage the
\* domain reports afterwards is within its ceiling.
THEOREM CeilingCorrect == Spec => KnownMarketKeepsCeiling
<1> DEFINE Kept ==
      \A m \in Markets :
          PlacedOn(m) /\ Projectable(m) => UsageWithinCeilingAfter(m)
<1>1. CeilingInv /\ CeilingInv' /\ Next => Kept
  <2> SUFFICES ASSUME CeilingInv, CeilingInv', Next,
                      NEW m \in Markets, PlacedOn(m), Projectable(m)
               PROVE  UsageWithinCeilingAfter(m)
    OBVIOUS
  <2>1. PICK a \in Agents, i \in NoncedIntents : Execute(a, i) /\ i.market = m
    BY PlacedByExecute
  <2>2. PICK filled \in 0 .. i.quantity, resting \in 0 .. i.quantity,
             collOut \in 0 .. ReserveRequired(i) : Placed(a, i, filled, resting, collOut)
    BY <2>1 DEF Execute, Placed
  <2>3. /\ DomainRiskUsage(DomainOf[i.market])' \in Int /\ DomainUsageAfter(i) \in Int
        /\ DomainRiskUsage(DomainOf[i.market])' <= DomainUsageAfter(i)
    BY <2>1, <2>2, UsageHolds
  <2>4. /\ DomainUsageAfter(i) <= domainPolicy[DomainOf[i.market]].maxDomainRiskUsage
        /\ domainPolicy[DomainOf[i.market]].maxDomainRiskUsage \in Int
    <3>1. domainPolicy \in [Domains -> DomainPolicyType]
      BY DEF CeilingInv, BooksInv, TypeInv, TypeOK
    <3>2. i.market \in Markets /\ DomainOf[i.market] # NoDomain
      BY <2>2, IntentFields DEF Placed, Admissible, MarketGates
    <3>3. domainPolicy[DomainOf[i.market]] \in DomainPolicyType
      BY <3>1, <3>2, PortfolioAssumption
    <3>4. QED
      BY <2>2, <3>3 DEF Placed, Admissible, CapacityGates, DomainPolicyType
  <2>5. DomainRiskUsage(DomainOf[m])' = DomainRiskUsage(DomainOf[i.market])'
    BY <2>1 DEF DomainRiskUsage
  <2>6. QED
    BY <2>1, <2>3, <2>4, <2>5 DEF UsageWithinCeilingAfter
<1>2. Init => CeilingInv
  BY CeilingInit
<1>3. CeilingInv /\ [Next]_vars => CeilingInv'
  BY CeilingStep
<1>4. QED
  BY <1>1, <1>2, <1>3, PTL DEF Spec, KnownMarketKeepsCeiling

-----------------------------------------------------------------------------
(* Nonces and budgets.                                                     *)

\* Only an execution uses a nonce, and only its agent's.
LEMMA NonceSteps ==
    ASSUME TypeOK, [Next]_vars
    PROVE  \/ \E a \in Agents, i \in NoncedIntents :
                 /\ Execute(a, i)
                 /\ agentNonce'[a] = i.nonce /\ agentNonce[a] < i.nonce
                 /\ \A b \in Agents \ {a} : agentNonce'[b] = agentNonce[b]
           \/ UNCHANGED agentNonce
<1>1. ASSUME AgentNext
      PROVE  \E a \in Agents, i \in NoncedIntents :
                 /\ Execute(a, i)
                 /\ agentNonce'[a] = i.nonce /\ agentNonce[a] < i.nonce
                 /\ \A b \in Agents \ {a} : agentNonce'[b] = agentNonce[b]
  <2>1. PICK a \in Agents, i \in Intents, n \in 1 .. MaxNonce : Execute(a, WithNonce(i, n))
    BY <1>1 DEF AgentNext
  <2> DEFINE j == WithNonce(i, n)
  <2>2. j \in NoncedIntents
    BY IntentsTyped
  <2> HIDE DEF j
  <2>3. Execute(a, j)
    BY <2>1 DEF j
  <2>4. j.nonce > agentNonce[a] /\ agentNonce' = [agentNonce EXCEPT ![a] = j.nonce]
    BY <2>3 DEF Execute, Admissible, AgentGates, PlaceAndReconcile
  <2>5. j.nonce \in Nat /\ agentNonce \in [Agents -> Nat]
    BY <2>2, IntentFields DEF TypeOK
  <2>6. QED
    BY <2>2, <2>3, <2>4, <2>5
<1>2. ASSUME LifecycleNext
      PROVE  UNCHANGED agentNonce
  BY <1>2 DEF LifecycleNext, ReleaseOrder, ReleaseSettled, PruneMarket, agentVars
<1>3. ASSUME OwnerNext
      PROVE  UNCHANGED agentNonce
  BY <1>3 DEF OwnerNext, SetGlobalPolicy, SetDomainPolicy, SetAgent, RevokeAgent, Fund, SetCapitalBase,
              Withdraw, WithdrawOutcome, CancelOrder, Redeem, agentVars, portfolioVars
<1>4. QED
  BY <1>1, <1>2, <1>3 DEF Next, vars, portfolioVars, agentVars

\* Every placement uses up one nonce of one agent, and a used nonce is never
\* seen again: no intent is executed twice (the watermark of _evaluate).
THEOREM NonceCorrect == Spec => OneOrderPerNonce
<1> DEFINE Once == /\ \A a \in Agents : agentNonce[a]' >= agentNonce[a]
                   /\ (\E m \in Markets : PlacedOn(m)) =>
                        Cardinality({a \in Agents : agentNonce[a]' > agentNonce[a]}) = 1
<1>1. CeilingInv /\ Next => Once
  <2> SUFFICES ASSUME CeilingInv, Next
               PROVE  Once
    OBVIOUS
  <2>1. TypeOK /\ agentNonce \in [Agents -> Nat]
    BY DEF CeilingInv, BooksInv, TypeInv, TypeOK
  <2>2. ASSUME NEW a \in Agents, NEW i \in NoncedIntents,
               agentNonce'[a] = i.nonce, agentNonce[a] < i.nonce,
               \A b \in Agents \ {a} : agentNonce'[b] = agentNonce[b]
        PROVE  Once
    <3>1. i.nonce \in Nat
      BY IntentFields
    <3>2. {b \in Agents : agentNonce[b]' > agentNonce[b]} = {a}
      BY <2>1, <2>2, <3>1
    <3>3. Cardinality({a}) = 1
      BY FS_Singleton
    <3>4. QED
      BY <2>1, <2>2, <3>1, <3>2, <3>3
  <2>3. ASSUME UNCHANGED agentNonce
        PROVE  Once
    <3>1. \A m \in Markets : ~PlacedOn(m)
      <4>1. ASSUME NEW m \in Markets, PlacedOn(m)
            PROVE  FALSE
        <5>1. PICK a \in Agents, i \in NoncedIntents : Execute(a, i)
          BY <4>1, PlacedByExecute
        <5>2. i.nonce > agentNonce[a] /\ agentNonce' = [agentNonce EXCEPT ![a] = i.nonce]
          BY <5>1 DEF Execute, Admissible, AgentGates, PlaceAndReconcile
        <5>3. i.nonce \in Nat
          BY IntentFields
        <5>4. QED
          BY <2>1, <2>3, <5>2, <5>3
      <4>2. QED
        BY <4>1
    <3>2. QED
      BY <2>1, <2>3, <3>1
  <2>4. QED
    BY <2>1, <2>2, <2>3, NonceSteps
<1>2. Init => CeilingInv
  BY CeilingInit
<1>3. CeilingInv /\ [Next]_vars => CeilingInv'
  BY CeilingStep
<1>4. QED
  BY <1>1, <1>2, <1>3, PTL DEF Spec, OneOrderPerNonce

\* A placement brings at most its own market among those at risk, and not
\* beyond the number that was projected.
LEMMA LiveMarketsHold ==
    ASSUME CeilingInv, CeilingInv', NEW a \in Agents, NEW i \in NoncedIntents,
           NEW filled \in 0 .. i.quantity, NEW resting \in 0 .. i.quantity,
           NEW collOut \in 0 .. ReserveRequired(i),
           Placed(a, i, filled, resting, collOut), Projectable(i.market)
    PROVE  /\ LiveMarkets(DomainOf[i.market])' \in Nat /\ LiveMarketsAfter(i) \in Nat
           /\ LiveMarkets(DomainOf[i.market])' <= LiveMarketsAfter(i)
<1> DEFINE m == i.market
           d == DomainOf[m]
           n == Len(domainMarkets[d])
           R == MarketWorstCaseExposure(m)
           S == MarketWorstCaseExposure(m)'
           before == {k \in 1 .. n : RiskOf(d)[k] # 0}
           after == {k \in Slots(d)' : RiskOf(d)'[k] # 0}
           slot == IF marketState[m].tracked THEN marketSlot[m] ELSE n + 1
<1>1. TypeOK /\ TypeOK' /\ DomainListsMatchTracking /\ PinnedToItsGeneration
  BY DEF CeilingInv, BooksInv, TypeInv
<1>2. m \in Markets /\ d \in Domains /\ R \in Nat /\ S \in Nat
  <2>1. m \in Markets
    BY IntentFields
  <2>2. d \in Domains
    BY <2>1, PortfolioAssumption DEF Placed, Admissible, MarketGates
  <2>3. QED
    BY <1>1, <2>1, <2>2, RiskType, RiskTypeAfter
<1>3. domainMarkets[d] \in Seq(Markets) /\ n \in Nat
  BY <1>1, <1>2 DEF TypeOK
<1>4. LiveMarkets(d) = Cardinality(before) /\ LiveMarkets(d)' = Cardinality(after)
  <2>1. before = {k \in 1 .. n : MarketWorstCaseExposure(domainMarkets[d][k]) # 0}
    BY DEF RiskOf, Slots
  <2>2. after = {k \in 1 .. Len(domainMarkets[d]) : MarketWorstCaseExposure(domainMarkets[d][k]) # 0}'
    BY DEF RiskOf, Slots
  <2>3. QED
    BY <2>1, <2>2 DEF LiveMarkets
<1>5. ASSUME NEW k \in 1 .. n
      PROVE  /\ domainMarkets[d][k] \in Markets /\ marketState[domainMarkets[d][k]].tracked
             /\ marketSlot[domainMarkets[d][k]] = k
  BY <1>1, <1>2, <1>3 DEF DomainListsMatchTracking
<1>6. /\ slot \in Nat /\ domainMarkets'[d][slot] = m
      /\ marketState[m].tracked => slot \in 1 .. n /\ domainMarkets[d][slot] = m
      /\ \A k \in Slots(d)' \ {slot} : /\ k \in 1 .. n /\ domainMarkets'[d][k] = domainMarkets[d][k]
                                       /\ domainMarkets[d][k] # m
  <2>1. Track(i)
    BY DEF Placed, PlaceAndReconcile
  <2>2. CASE marketState[m].tracked
    <3>1. domainMarkets' = domainMarkets /\ Slots(d)' = 1 .. n
      BY <2>1, <2>2 DEF Track, Slots
    <3>2. marketSlot[m] \in 1 .. n /\ domainMarkets[d][marketSlot[m]] = m
      BY <1>1, <1>2, <2>2 DEF DomainListsMatchTracking, PinnedToItsGeneration
    <3>3. QED
      BY <1>5, <2>2, <3>1, <3>2
  <2>3. CASE ~marketState[m].tracked
    <3>1. domainMarkets'[d] = Append(domainMarkets[d], m)
      BY <1>1, <1>2, <2>1, <2>3 DEF Track, TypeOK
    <3>2. /\ Slots(d)' = 1 .. n + 1 /\ domainMarkets'[d][n + 1] = m
          /\ \A j \in 1 .. n : domainMarkets'[d][j] = domainMarkets[d][j]
      BY <1>2, <1>3, <3>1 DEF Slots
    <3>3. \A k \in (1 .. n + 1) \ {n + 1} : k \in 1 .. n
      <4> HIDE DEF n
      <4>1. QED
        BY <1>3
    <3>4. \A k \in 1 .. n : domainMarkets[d][k] # m
      BY <1>5, <2>3
    <3>5. QED
      BY <1>3, <2>3, <3>2, <3>3, <3>4
  <2>4. QED
    BY <2>2, <2>3
\* Every slot but the order's keeps its exposure.
<1>7. after \subseteq before \cup {slot}
  <2>1. ASSUME NEW k \in after, k # slot
        PROVE  k \in before
    <3>1. /\ k \in Slots(d)' /\ k \in 1 .. n /\ RiskOf(d)'[k] # 0
          /\ domainMarkets'[d][k] = domainMarkets[d][k] /\ domainMarkets[d][k] # m
      BY <1>6, <2>1
    <3>2. PICK o \in Markets : o = domainMarkets[d][k] /\ o # m /\ marketState[o].tracked
      BY <1>5, <3>1
    <3>3. MarketWorstCaseExposure(o)' = MarketWorstCaseExposure(o)
      BY <3>2, OthersKeepRisk
    <3>4. RiskOf(d)'[k] = MarketWorstCaseExposure(o)'
      BY <1>2, <3>1, <3>2, RiskAtAfter
    <3>5. RiskOf(d)[k] = MarketWorstCaseExposure(o)
      BY <1>2, <3>1, <3>2, RiskAt DEF Slots
    <3>6. QED
      BY <3>1, <3>3, <3>4, <3>5
  <2>2. QED
    BY <2>1
<1>8. slot \in after => S # 0
  <2>1. ASSUME slot \in after
        PROVE  S # 0
    <3>1. slot \in Slots(d)' /\ RiskOf(d)'[slot] # 0
      BY <2>1
    <3>2. RiskOf(d)'[slot] = MarketWorstCaseExposure(m)'
      BY <1>2, <1>6, <3>1, RiskAtAfter
    <3>3. QED
      BY <3>1, <3>2
  <2>2. QED
    BY <2>1
<1>9. R # 0 => slot \in before
  <2>1. ASSUME R # 0
        PROVE  slot \in before
    <3>1. marketState[m].tracked
      BY <2>1 DEF MarketWorstCaseExposure
    <3>2. slot \in 1 .. n /\ domainMarkets[d][slot] = m
      BY <1>6, <3>1
    <3>3. PICK k \in 1 .. n : k = slot /\ domainMarkets[d][k] = m
      BY <3>2
    <3> HIDE DEF slot
    <3>4. RiskOf(d)[k] = MarketWorstCaseExposure(m)
      BY <1>2, <3>3, RiskAt DEF Slots
    <3>5. QED
      BY <2>1, <3>3, <3>4
  <2>2. QED
    BY <2>1
<1>10. S # 0 => WorstAfter(i) # 0
  <2>1. S <= WorstAfter(i)
    BY ProjectionHolds
  <2> HIDE DEF S
  <2>2. QED
    BY <1>2, <2>1
<1>11. /\ IsFiniteSet(before) /\ Cardinality(before) \in Nat
       /\ IsFiniteSet(after) /\ Cardinality(after) \in Nat
       /\ after \subseteq before => Cardinality(after) <= Cardinality(before)
       /\ Cardinality(after) <= Cardinality(before) + 1
  <2>1. IsFiniteSet(before)
    <3>1. before \subseteq 1 .. n
      OBVIOUS
    <3> HIDE DEF before, n
    <3>2. IsFiniteSet(1 .. n)
      BY <1>3, FS_Interval
    <3>3. QED
      BY <3>1, <3>2, FS_Subset
  <2> HIDE DEF before, after, slot
  <2>2. /\ IsFiniteSet(before \cup {slot}) /\ Cardinality(before) \in Nat
        /\ Cardinality(before \cup {slot}) \in Nat
        /\ Cardinality(before \cup {slot}) <= Cardinality(before) + 1
    <3>1. Cardinality(before) \in Nat
      BY <2>1, FS_CardinalityType
    <3>2. /\ IsFiniteSet(before \cup {slot})
          /\ \/ Cardinality(before \cup {slot}) = Cardinality(before)
             \/ Cardinality(before \cup {slot}) = Cardinality(before) + 1
      BY <2>1, FS_AddElement
    <3>3. QED
      BY <3>1, <3>2
  <2>3. IsFiniteSet(after) /\ Cardinality(after) <= Cardinality(before \cup {slot})
    BY <1>7, <2>2, FS_Subset
  <2>4. Cardinality(after) \in Nat
    BY <2>3, FS_CardinalityType
  <2>5. after \subseteq before => Cardinality(after) <= Cardinality(before)
    BY <2>1, FS_Subset
  <2>6. QED
    BY <2>1, <2>2, <2>3, <2>4, <2>5
<1>12. LiveMarketsAfter(i) = Cardinality(before) + IF R = 0 /\ WorstAfter(i) # 0 THEN 1 ELSE 0
  BY <1>4 DEF LiveMarketsAfter
<1> HIDE DEF before, after, R, S, slot
<1>13. CASE R = 0 /\ WorstAfter(i) # 0
  BY <1>4, <1>11, <1>12, <1>13
<1>14. CASE ~(R = 0 /\ WorstAfter(i) # 0)
  <2>1. after \subseteq before
    BY <1>7, <1>8, <1>9, <1>10, <1>14
  <2>2. QED
    BY <1>4, <1>11, <1>12, <1>14, <2>1
<1>15. QED
  BY <1>13, <1>14

\* What an order may add to the committed capital was counted when it was
\* admitted: an order that buys against the reserve, one that sells adds none.
LEMMA CommitmentHolds ==
    ASSUME TypeOK, NEW a \in Agents, NEW i \in NoncedIntents,
           NEW filled \in 0 .. i.quantity, NEW resting \in 0 .. i.quantity,
           NEW collOut \in 0 .. ReserveRequired(i),
           Placed(a, i, filled, resting, collOut), CommittedCapital' > CommittedCapital
    PROVE  /\ IsBuy(i.kind) /\ CommittedCapital' \in Int
           /\ CommittedCapital' <= CommittedCapital + ReserveRequired(i)
           /\ CommittedCapital + ReserveRequired(i) \in Int
<1> DEFINE R == ReserveRequired(i)
<1>1. R \in Nat /\ UNCHANGED capitalBase
  BY OrderTyped DEF Placed, PlaceAndReconcile
<1>2. free \in Nat /\ capitalBase \in Nat /\ collOut \in Nat /\ collOut <= R
  BY <1>1 DEF TypeOK, VenueTypeOK
<1>3. CASE IsBuy(i.kind)
  <2>1. free' = free - collOut
    BY <1>3 DEF Placed, PlaceAndReconcile, PlaceBinaryOrder
  <2> HIDE DEF R
  <2>2. /\ CommittedCapital' <= CommittedCapital + R
        /\ CommittedCapital \in Nat /\ CommittedCapital' \in Int
    BY <1>1, <1>2, <2>1 DEF CommittedCapital, ClampedSub
  <2>3. CommittedCapital + R \in Int
    BY <1>1, <2>2
  <2>4. QED
    BY <1>3, <2>2, <2>3 DEF R
<1>4. CASE ~IsBuy(i.kind)
  <2>1. free' = free + Proceeds(i.kind, i.price, filled)
    BY <1>4 DEF Placed, PlaceAndReconcile, PlaceBinaryOrder
  <2>2. Proceeds(i.kind, i.price, filled) \in Nat
    <3>1. UnitPrice(i.kind, i.price) \in Nat /\ filled \in Nat /\ One \in Nat \ {0}
      BY IntentFields, UnitType, OneAssumption
    <3>2. UnitPrice(i.kind, i.price) * filled \in Nat
      BY <3>1
    <3>3. QED
      BY <3>1, <3>2, DivBounds DEF Proceeds
  <2>3. CommittedCapital' <= CommittedCapital /\ CommittedCapital \in Nat /\ CommittedCapital' \in Nat
    BY <1>1, <1>2, <2>1, <2>2 DEF CommittedCapital, ClampedSub
  <2>4. QED
    BY <2>3
<1>5. QED
  BY <1>3, <1>4

\* An agent that trades again stays within its own share; an order that raises
\* the escrow or the commitment leaves both within the limits, the global ones
\* and its domain's, whoever used the rest of them up; and the markets at risk
\* stay within the domain's number, if the order's own can be projected
\* (_projectCapacity).
THEOREM BudgetsCorrect == Spec => AdmissionKeepsBudgets
<1> DEFINE Shares ==
      \A a \in Agents : agentNonce[a]' # agentNonce[a] =>
          /\ agentCommitted[a]' > agentCommitted[a] =>
               agentCommitted[a]' <= agentPolicy[a].maxCommitted
          /\ reservedCollateral' > reservedCollateral =>
               reservedCollateral' <= globalPolicy.maxReservedCollateral
          /\ CommittedCapital' > CommittedCapital =>
               CommittedCapital' <= globalPolicy.maxCommittedCapital
           DomainLimits ==
      \A m \in Markets : PlacedOn(m) =>
          LET dp == domainPolicy[DomainOf[m]]
          IN  /\ dp.maxDomainCommitted # 0 /\ CommittedCapital' > CommittedCapital
                   => CommittedCapital' <= dp.maxDomainCommitted
              /\ dp.maxLiveMarkets # 0 /\ Projectable(m)
                   => LiveMarkets(DomainOf[m])' <= dp.maxLiveMarkets
<1>1. CeilingInv /\ Next => Shares
  <2> SUFFICES ASSUME CeilingInv, Next, NEW a \in Agents, agentNonce[a]' # agentNonce[a]
               PROVE  /\ agentCommitted[a]' > agentCommitted[a] =>
                           agentCommitted[a]' <= agentPolicy[a].maxCommitted
                      /\ reservedCollateral' > reservedCollateral =>
                           reservedCollateral' <= globalPolicy.maxReservedCollateral
                      /\ CommittedCapital' > CommittedCapital =>
                           CommittedCapital' <= globalPolicy.maxCommittedCapital
    OBVIOUS
  <2>1. TypeOK
    BY DEF CeilingInv, BooksInv, TypeInv
  <2>2. PICK i \in NoncedIntents : Execute(a, i)
    BY <2>1, NonceSteps
  <2>3. PICK filled \in 0 .. i.quantity, resting \in 0 .. i.quantity,
             collOut \in 0 .. ReserveRequired(i) : Placed(a, i, filled, resting, collOut)
    BY <2>2 DEF Execute, Placed
  <2> DEFINE R == ReserveRequired(i)
  <2>4. /\ R \in Nat /\ RestingEscrow(i, resting) \in 0 .. R
        /\ reservedCollateral' = reservedCollateral + RestingEscrow(i, resting)
        /\ agentCommitted' = [agentCommitted EXCEPT ![a] = AgentCommittedReconciled(a, i, collOut)]
        /\ UNCHANGED capitalBase
    BY <2>1, <2>3, OrderTyped DEF Placed, PlaceAndReconcile
  <2>5. /\ agentCommitted \in [Agents -> Nat] /\ reservedCollateral \in Nat /\ free \in Nat
        /\ capitalBase \in Nat /\ collOut \in Nat /\ collOut <= R
    BY <2>1, <2>4 DEF TypeOK, VenueTypeOK
  <2>6. /\ globalPolicy.maxReservedCollateral \in Nat /\ globalPolicy.maxCommittedCapital \in Nat
        /\ agentPolicy[a].maxCommitted \in Nat
    BY <2>1 DEF TypeOK, GlobalPolicyType, AgentPolicyType
  <2>7. CASE IsBuy(i.kind)
    <3>1. CollateralGates(a, i) /\ AgentCommittedAfter(a, i) = agentCommitted[a] + R
      BY <2>3, <2>7 DEF Placed, Admissible, CapacityGates, AgentCommittedAfter
    <3>2. /\ agentCommitted[a] + R <= agentPolicy[a].maxCommitted
          /\ CommittedCapital + R <= globalPolicy.maxCommittedCapital
          /\ reservedCollateral + R <= globalPolicy.maxReservedCollateral
      BY <3>1 DEF CollateralGates
    <3>3. ClampedSub(R, collOut) \in Nat
      <4>1. R \in Nat /\ collOut \in Nat
        BY <2>4, <2>5
      <4> HIDE DEF R
      <4>2. QED
        BY <4>1 DEF ClampedSub
    <3>4. /\ AgentCommittedReconciled(a, i, collOut) \in Int
          /\ AgentCommittedReconciled(a, i, collOut) <= agentCommitted[a] + R
      <4>1. AgentCommittedReconciled(a, i, collOut)
              = AgentCommittedAfter(a, i) - ClampedSub(R, collOut)
        BY <2>7 DEF AgentCommittedReconciled
      <4>2. R \in Nat /\ agentCommitted[a] \in Nat
        BY <2>4, <2>5
      <4> HIDE DEF R
      <4>3. QED
        BY <3>1, <3>3, <4>1, <4>2
    <3>5. free' = free - collOut
      BY <2>3, <2>7 DEF Placed, PlaceAndReconcile, PlaceBinaryOrder
    <3>6. CommittedCapital' <= CommittedCapital + R
      BY <2>4, <2>5, <3>5 DEF CommittedCapital, ClampedSub
    <3>7. CommittedCapital \in Nat /\ CommittedCapital' \in Int
      BY <2>4, <2>5, <3>5 DEF CommittedCapital, ClampedSub
    <3> HIDE DEF R
    <3>8. agentCommitted'[a] <= agentPolicy[a].maxCommitted
      <4>1. agentCommitted'[a] = AgentCommittedReconciled(a, i, collOut)
        BY <2>4, <2>5
      <4>2. R \in Nat
        BY <2>4
      <4>3. QED
        BY <2>5, <2>6, <3>2, <3>4, <4>1, <4>2
    <3>9. reservedCollateral' <= globalPolicy.maxReservedCollateral
      BY <2>4, <2>5, <2>6, <3>2
    <3>10. CommittedCapital' <= globalPolicy.maxCommittedCapital
      BY <2>4, <2>6, <3>2, <3>6, <3>7
    <3>11. QED
      BY <3>8, <3>9, <3>10
  <2>8. CASE ~IsBuy(i.kind)
    <3>1. RestingEscrow(i, resting) = 0 /\ AgentCommittedReconciled(a, i, collOut) = agentCommitted[a]
      BY <2>8 DEF RestingEscrow, AgentCommittedReconciled
    <3>2. free' = free + Proceeds(i.kind, i.price, filled)
      BY <2>3, <2>8 DEF Placed, PlaceAndReconcile, PlaceBinaryOrder
    <3>3. Proceeds(i.kind, i.price, filled) \in Nat
      <4>1. UnitPrice(i.kind, i.price) \in Nat /\ filled \in Nat /\ One \in Nat \ {0}
        BY IntentFields, UnitType, OneAssumption
      <4>2. UnitPrice(i.kind, i.price) * filled \in Nat
        BY <4>1
      <4>3. QED
        BY <4>1, <4>2, DivBounds DEF Proceeds
    <3>4. CommittedCapital' <= CommittedCapital /\ CommittedCapital \in Nat /\ CommittedCapital' \in Nat
      BY <2>4, <2>5, <3>2, <3>3 DEF CommittedCapital, ClampedSub
    <3>5. QED
      BY <2>4, <2>5, <3>1, <3>4
  <2>9. QED
    BY <2>7, <2>8
<1>2. CeilingInv /\ CeilingInv' /\ Next => DomainLimits
  <2> SUFFICES ASSUME CeilingInv, CeilingInv', Next, NEW m \in Markets, PlacedOn(m)
               PROVE  LET dp == domainPolicy[DomainOf[m]]
                      IN  /\ dp.maxDomainCommitted # 0 /\ CommittedCapital' > CommittedCapital
                               => CommittedCapital' <= dp.maxDomainCommitted
                          /\ dp.maxLiveMarkets # 0 /\ Projectable(m)
                               => LiveMarkets(DomainOf[m])' <= dp.maxLiveMarkets
    OBVIOUS
  <2> DEFINE dp == domainPolicy[DomainOf[m]]
  <2>1. TypeOK
    BY DEF CeilingInv, BooksInv, TypeInv
  <2>2. PICK a \in Agents, i \in NoncedIntents : Execute(a, i) /\ i.market = m
    BY PlacedByExecute
  <2>3. PICK filled \in 0 .. i.quantity, resting \in 0 .. i.quantity,
             collOut \in 0 .. ReserveRequired(i) : Placed(a, i, filled, resting, collOut)
    BY <2>2 DEF Execute, Placed
  <2>4. /\ dp \in DomainPolicyType
        /\ dp.maxDomainCommitted \in Nat /\ dp.maxLiveMarkets \in Nat
    <3>1. DomainOf[m] \in Domains
      BY <2>2, <2>3, PortfolioAssumption DEF Placed, Admissible, MarketGates
    <3>2. dp \in DomainPolicyType
      BY <2>1, <3>1 DEF TypeOK
    <3> HIDE DEF dp
    <3>3. QED
      BY <3>2 DEF DomainPolicyType
  <2>5. ASSUME dp.maxDomainCommitted # 0, CommittedCapital' > CommittedCapital
        PROVE  CommittedCapital' <= dp.maxDomainCommitted
    <3>1. /\ IsBuy(i.kind) /\ CommittedCapital' \in Int
          /\ CommittedCapital' <= CommittedCapital + ReserveRequired(i)
          /\ CommittedCapital + ReserveRequired(i) \in Int
      BY <2>1, <2>3, <2>5, CommitmentHolds
    <3>2. CollateralGates(a, i)
      BY <2>3, <3>1 DEF Placed, Admissible, CapacityGates
    <3>3. CommittedCapital + ReserveRequired(i) <= dp.maxDomainCommitted
      BY <2>2, <2>5, <3>2 DEF CollateralGates
    <3> HIDE DEF dp
    <3>4. QED
      BY <2>4, <3>1, <3>3
  <2>6. ASSUME dp.maxLiveMarkets # 0, Projectable(m)
        PROVE  LiveMarkets(DomainOf[m])' <= dp.maxLiveMarkets
    <3>1. Projectable(i.market)
      BY <2>2, <2>6
    <3>2. /\ LiveMarkets(DomainOf[i.market])' \in Nat /\ LiveMarketsAfter(i) \in Nat
          /\ LiveMarkets(DomainOf[i.market])' <= LiveMarketsAfter(i)
      BY <2>3, <3>1, LiveMarketsHold
    <3>3. LiveMarketsAfter(i) <= dp.maxLiveMarkets
      BY <2>2, <2>3, <2>6 DEF Placed, Admissible, CapacityGates
    <3>4. LiveMarkets(DomainOf[m])' = LiveMarkets(DomainOf[i.market])'
      BY <2>2 DEF LiveMarkets
    <3> HIDE DEF dp
    <3>5. QED
      BY <2>4, <3>2, <3>3, <3>4
  <2>7. QED
    BY <2>5, <2>6
<1>3. Init => CeilingInv
  BY CeilingInit
<1>4. CeilingInv /\ [Next]_vars => CeilingInv'
  BY CeilingStep
<1>5. QED
  BY <1>1, <1>2, <1>3, <1>4, PTL DEF Spec, AdmissionKeepsBudgets

-----------------------------------------------------------------------------
(* Who can raise a domain's usage.                                         *)

\* A domain that gains no market, and none of whose markets is charged more,
\* has no higher usage, however its list is rearranged.
LEMMA UsageNotRaised ==
    ASSUME TypeInv, TypeInv', NEW d \in Domains,
           \A m \in Markets : /\ marketState'[m].tracked => marketState[m].tracked
                              /\ marketState'[m].domain = marketState[m].domain
                              /\ MarketWorstCaseExposure(m)' <= MarketWorstCaseExposure(m)
    PROVE  DomainRiskUsage(d)' <= DomainRiskUsage(d)
<1> DEFINE S == Slots(d)'
           T == Slots(d)
           f == RiskOf(d)'
           g == RiskOf(d)
           h == [k \in S |-> marketSlot[domainMarkets'[d][k]]]
<1>1. /\ DomainListsMatchTracking /\ DomainListsMatchTracking' /\ TypeOK /\ TypeOK'
      /\ domainMarkets[d] \in Seq(Markets) /\ domainMarkets'[d] \in Seq(Markets)
  BY DEF TypeInv, TypeOK
<1>2. ASSUME NEW k \in S
      PROVE  \E m \in Markets : /\ domainMarkets'[d][k] = m /\ marketSlot'[m] = k
                                /\ h[k] = marketSlot[m]
                                /\ marketSlot[m] \in T /\ domainMarkets[d][marketSlot[m]] = m
  <2>1. PICK m \in Markets : m = domainMarkets'[d][k]
    BY <1>1 DEF Slots
  <2>2. marketSlot'[m] = k /\ marketState'[m].tracked /\ marketState'[m].domain = d
    BY <1>1, <2>1 DEF DomainListsMatchTracking, Slots
  <2>3. marketState[m].tracked /\ marketState[m].domain = d
    BY <2>2
  <2>4. marketSlot[m] \in T /\ domainMarkets[d][marketSlot[m]] = m
    BY <1>1, <2>3 DEF DomainListsMatchTracking, Slots
  <2>5. h[k] = marketSlot[m]
    BY <2>1
  <2>6. QED
    BY <2>1, <2>2, <2>4, <2>5
<1>3. IsFiniteSet(T) /\ \A k \in T : g[k] \in Nat
  <2>1. \A k \in T : domainMarkets[d][k] \in Markets
    BY <1>1 DEF Slots
  <2>2. ASSUME NEW k \in T
        PROVE  g[k] \in Nat
    <3>1. g[k] = MarketWorstCaseExposure(domainMarkets[d][k])
      BY RiskAt
    <3>2. QED
      BY <1>1, <2>1, <3>1, RiskType
  <2>3. IsFiniteSet(T)
    BY <1>1, FS_Interval DEF Slots
  <2>4. QED
    BY <2>2, <2>3
<1>4. ASSUME NEW k \in S
      PROVE  f[k] \in Nat /\ f[k] <= g[h[k]]
  <2>1. PICK m \in Markets : /\ domainMarkets'[d][k] = m /\ h[k] = marketSlot[m]
                             /\ marketSlot[m] \in T /\ domainMarkets[d][marketSlot[m]] = m
    BY <1>2
  <2>2. f[k] = MarketWorstCaseExposure(m)'
    BY <2>1, RiskAtAfter
  <2>3. g[h[k]] = MarketWorstCaseExposure(m)
    BY <2>1, RiskAt
  <2>4. MarketWorstCaseExposure(m)' \in Nat
    BY <1>1, RiskTypeAfter
  <2> HIDE DEF f, g, h, S, T
  <2>5. QED
    BY <2>2, <2>3, <2>4
<1>5. h \in Injection(S, T)
  <2>1. ASSUME NEW k \in S
        PROVE  h[k] \in T
    BY <1>2
  <2>2. ASSUME NEW k \in S, NEW l \in S, h[k] = h[l]
        PROVE  k = l
    <3>1. PICK m \in Markets : /\ marketSlot'[m] = k /\ h[k] = marketSlot[m]
                               /\ domainMarkets[d][marketSlot[m]] = m
      BY <1>2
    <3>2. PICK n \in Markets : /\ marketSlot'[n] = l /\ h[l] = marketSlot[n]
                               /\ domainMarkets[d][marketSlot[n]] = n
      BY <1>2
    <3> HIDE DEF h
    <3>3. QED
      BY <2>2, <3>1, <3>2
  <2>3. h \in [S -> T]
    <3> HIDE DEF S, T
    <3>1. QED
      BY <2>1
  <2> HIDE DEF h, S, T
  <2>4. QED
    BY <2>2, <2>3 DEF Injection, IsInjective
<1>6. DomainRiskUsage(d)' = Sum(f, S) /\ DomainRiskUsage(d) = Sum(g, T)
  BY DEF DomainRiskUsage, RiskOf, Slots
<1>7. /\ \A k \in S : f[k] \in Nat /\ f[k] <= g[h[k]]
      /\ \A k \in T : g[k] \in Nat
  BY <1>3, <1>4
<1> HIDE DEF S, T, h, f, g
<1>8. Sum(f, S) <= Sum(g, T)
  BY <1>3, <1>5, <1>7, SumThrough
<1>9. QED
  BY <1>6, <1>8

\* While no token moves, a market whose reservations only shrink is charged no
\* more than before.
LEMMA ChargeNotRaised ==
    ASSUME TypeOK, TypeOK', NEW m \in Markets, UNCHANGED bal,
           marketState'[m].pool = marketState[m].pool,
           marketState'[m].marketNonce = marketState[m].marketNonce,
           marketState'[m].tracked => marketState[m].tracked,
           ~marketState'[m].settled =>
               /\ ~marketState[m].settled
               /\ \A kind \in Kinds : marketState'[m].open[kind] <= marketState[m].open[kind]
    PROVE  MarketWorstCaseExposure(m)' <= MarketWorstCaseExposure(m)
<1>1. MarketWorstCaseExposure(m) \in Nat
  BY RiskType
<1>2. CASE ~marketState'[m].tracked \/ marketState'[m].settled
  <2>1. MarketWorstCaseExposure(m)' = 0
    BY <1>2 DEF MarketWorstCaseExposure
  <2>2. QED
    BY <1>1, <2>1
<1>3. CASE marketState'[m].tracked /\ ~marketState'[m].settled
  <2>1. Realized(m)' = Realized(m) /\ Realized(m) \in Int
    BY RiskType DEF Realized
  <2>2. \A kind \in Kinds : /\ marketState[m].open[kind] \in Nat /\ marketState'[m].open[kind] \in Nat
                            /\ marketState'[m].open[kind] <= marketState[m].open[kind]
    BY <1>3 DEF TypeOK, MarketStates
  <2>3. /\ Up(m) \in Int /\ Dn(m) \in Int /\ Up(m)' \in Int /\ Dn(m)' \in Int
        /\ Dn(m) <= Dn(m)' /\ Dn(m)' <= Up(m)' /\ Up(m)' <= Up(m)
    BY <2>1, <2>2 DEF Up, Dn, UpperBound, LowerBound, Kinds
  <2>4. WorstCase(Up(m)', Dn(m)') <= WorstCase(Up(m), Dn(m))
    BY <2>3, NarrowerInterval
  <2>5. QED
    BY <1>3, <2>4 DEF MarketWorstCaseExposure
<1>4. QED
  BY <1>2, <1>3

\* Releasing and pruning can only move the books towards the chain: a step
\* that neither trades nor moves a token never raises a domain's usage
\* (releaseOrder, releaseSettled, pruneMarket).
THEOREM UsageCorrect == Spec => UsageRisesOnlyWithOrders
<1> DEFINE Kept == UNCHANGED <<bal, agentNonce>> =>
                      \A d \in Domains : DomainRiskUsage(d)' <= DomainRiskUsage(d)
<1>1. CeilingInv /\ CeilingInv' /\ Next => Kept
  <2> SUFFICES ASSUME CeilingInv, CeilingInv', Next, UNCHANGED <<bal, agentNonce>>
               PROVE  \A d \in Domains : DomainRiskUsage(d)' <= DomainRiskUsage(d)
    OBVIOUS
  <2>1. TypeInv /\ TypeInv' /\ TypeOK /\ TypeOK'
    BY DEF CeilingInv, BooksInv, TypeInv
  <2>2. ASSUME NEW a \in Agents, NEW i \in NoncedIntents, Execute(a, i)
        PROVE  FALSE
    <3>1. i.nonce > agentNonce[a] /\ agentNonce' = [agentNonce EXCEPT ![a] = i.nonce]
      BY <2>2 DEF Execute, Admissible, AgentGates, PlaceAndReconcile
    <3>2. i.nonce \in Nat /\ agentNonce \in [Agents -> Nat]
      BY <2>1, IntentFields DEF TypeOK
    <3>3. QED
      BY <3>1, <3>2
  <2>3. ASSUME NEW m \in Markets
        PROVE  /\ marketState'[m].pool = marketState[m].pool
               /\ marketState'[m].marketNonce = marketState[m].marketNonce
               /\ marketState'[m].domain = marketState[m].domain
               /\ marketState'[m].tracked => marketState[m].tracked
               /\ ~marketState'[m].settled =>
                    /\ ~marketState[m].settled
                    /\ \A kind \in Kinds : marketState'[m].open[kind] <= marketState[m].open[kind]
    <3>1. marketState[m] \in MarketStates /\ marketState'[m] \in MarketStates
      BY <2>1 DEF TypeOK
    <3>2. ASSUME NEW key \in OrderKeys, ReleaseOrder(key)
          PROVE  /\ marketState'[m].pool = marketState[m].pool
                 /\ marketState'[m].marketNonce = marketState[m].marketNonce
                 /\ marketState'[m].domain = marketState[m].domain
                 /\ marketState'[m].tracked = marketState[m].tracked
                 /\ marketState'[m].settled = marketState[m].settled
                 /\ \A kind \in Kinds : marketState'[m].open[kind] <= marketState[m].open[kind]
      <4> DEFINE o == orderRec[key]
                 released == o.qtyOpen - StillOpen(key)
      <4>1. /\ o.market \in Markets /\ o.kind \in Kinds /\ released \in Nat
            /\ marketState' = [marketState EXCEPT ![o.market].open[o.kind] = @ - released]
        <5>1. o.qtyOpen # 0 /\ StillOpen(key) < o.qtyOpen
          BY <3>2 DEF ReleaseOrder
        <5>2. o.market \in Markets /\ o.kind \in Kinds /\ o.qtyOpen \in Nat
          BY <2>1, <5>1, RecordFields
        <5>3. StillOpen(key) \in Nat
          BY <2>1, StillOpenType DEF TypeOK
        <5>4. QED
          BY <3>2, <5>1, <5>2, <5>3 DEF ReleaseOrder
      <4> HIDE DEF released, o
      <4>2. marketState[o.market] \in MarketStates /\ \A n \in Markets : marketState[n] \in MarketStates
        BY <2>1, <4>1 DEF TypeOK
      <4>3. CASE m # o.market
        <5>1. marketState'[m] = marketState[m]
          BY <2>1, <4>1, <4>3 DEF TypeOK
        <5>2. QED
          BY <3>1, <5>1 DEF MarketStates
      <4>4. CASE m = o.market
        <5>1. marketState'[m] = [marketState[m] EXCEPT !.open[o.kind] = @ - released]
          BY <2>1, <4>1, <4>4 DEF TypeOK
        <5>2. QED
          BY <3>1, <4>1, <5>1 DEF MarketStates
      <4>5. QED
        BY <4>3, <4>4
    <3>3. CASE QuietPortfolio
      BY <3>1, <3>3 DEF QuietPortfolio, MarketStates
    <3>4. QED
      BY <2>1, <2>2, <3>2, <3>3, StepKinds
  <2>4. \A m \in Markets : MarketWorstCaseExposure(m)' <= MarketWorstCaseExposure(m)
    BY <2>1, <2>3, ChargeNotRaised
  <2>5. QED
    BY <2>1, <2>3, <2>4, UsageNotRaised
<1>2. Init => CeilingInv
  BY CeilingInit
<1>3. CeilingInv /\ [Next]_vars => CeilingInv'
  BY CeilingStep
<1>4. QED
  BY <1>1, <1>2, <1>3, PTL DEF Spec, UsageRisesOnlyWithOrders

-----------------------------------------------------------------------------
(* The verdict of the risk verifier.                                       *)

\* What adds nothing can be left out of a sum.
LEMMA SumWithoutZeros ==
    ASSUME NEW S, NEW f
    PROVE  Sum(f, S) = Sum(f, {x \in S : f[x] # 0})
<1> DEFINE T == {x \in S : f[x] # 0}
<1>1. \A x \in S \ T : Column(f, x) = {}
  BY DEF Column
<1>2. UNION {Column(f, x) : x \in S} = UNION {Column(f, x) : x \in T}
  BY <1>1
<1>3. QED
  BY <1>2 DEF Sum

\* The sixteen ends
Ends(yes, no, live) == {Direction(yes, no, live, fills) : fills \in SUBSET Kinds}

\* The largest of the sixteen ends is that of the wider end of the interval the
\* contract charges for: all that adds to one side fills or comes back.
LEMMA LargestOfSixteen ==
    ASSUME NEW yes \in Nat, NEW no \in Nat, NEW live, \A kind \in Kinds : live[kind] \in Nat,
           NEW top, top = WorstCase(yes - no + live["BUY_YES"] + live["SELL_YES"],
                                    yes - no - live["BUY_NO"] - live["SELL_NO"])
    PROVE  top \in Ends(yes, no, live) /\ \A e \in Ends(yes, no, live) : e \in Int /\ e <= top
<1> DEFINE by == live["BUY_YES"]
           sy == live["SELL_YES"]
           bn == live["BUY_NO"]
           sn == live["SELL_NO"]
           ends == Ends(yes, no, live)
           up == yes - no + by + sy
           dn == yes - no - bn - sn
<1>1. by \in Nat /\ sy \in Nat /\ bn \in Nat /\ sn \in Nat
  BY DEF Kinds
<1>2. ASSUME NEW fills \in SUBSET Kinds
      PROVE  Direction(yes, no, live, fills) \in Int /\ Direction(yes, no, live, fills) <= WorstCase(up, dn)
  <2> DEFINE gain == (IF "BUY_YES" \in fills THEN by ELSE 0) + (IF "SELL_YES" \in fills THEN 0 ELSE sy)
             loss == (IF "BUY_NO" \in fills THEN bn ELSE 0) + (IF "SELL_NO" \in fills THEN 0 ELSE sn)
  <2>1. gain \in Nat /\ gain <= by + sy /\ loss \in Nat /\ loss <= bn + sn
    <3> HIDE DEF by, sy, bn, sn
    <3>1. QED
      BY <1>1
  <2>2. Direction(yes, no, live, fills) = Abs(yes - no + gain - loss)
    <3>1. Direction(yes, no, live, fills) =
            Abs((yes + (IF "BUY_YES" \in fills THEN by ELSE 0) + (IF "SELL_YES" \in fills THEN 0 ELSE sy))
                 - (no + (IF "BUY_NO" \in fills THEN bn ELSE 0) + (IF "SELL_NO" \in fills THEN 0 ELSE sn)))
      BY DEF Direction
    <3>2. (yes + (IF "BUY_YES" \in fills THEN by ELSE 0) + (IF "SELL_YES" \in fills THEN 0 ELSE sy))
            - (no + (IF "BUY_NO" \in fills THEN bn ELSE 0) + (IF "SELL_NO" \in fills THEN 0 ELSE sn))
          = yes - no + gain - loss
      <4> HIDE DEF by, sy, bn, sn
      <4>1. QED
        BY <1>1
    <3>3. QED
      BY <3>1, <3>2
  <2> HIDE DEF gain, loss, by, sy, bn, sn
  <2>3. Abs(yes - no + gain - loss) \in Int /\ Abs(yes - no + gain - loss) <= WorstCase(up, dn)
    BY <1>1, <2>1 DEF Abs, WorstCase, Larger
  <2>4. QED
    BY <2>2, <2>3
<1>3. Abs(up) \in ends /\ Abs(dn) \in ends
  <2>1. {"BUY_YES", "SELL_NO"} \in SUBSET Kinds /\ {"BUY_NO", "SELL_YES"} \in SUBSET Kinds
    BY DEF Kinds
  <2>2. /\ Direction(yes, no, live, {"BUY_YES", "SELL_NO"}) = Abs(yes + by + sy - (no + 0 + 0))
        /\ Direction(yes, no, live, {"BUY_NO", "SELL_YES"}) = Abs(yes + 0 + 0 - (no + bn + sn))
    <3>1. ASSUME NEW fills, "BUY_YES" \in fills, "SELL_NO" \in fills, "BUY_NO" \notin fills, "SELL_YES" \notin fills
          PROVE  Direction(yes, no, live, fills) = Abs(yes + by + sy - (no + 0 + 0))
      BY <1>1, <3>1 DEF Direction, Abs
    <3>2. ASSUME NEW fills, "BUY_NO" \in fills, "SELL_YES" \in fills, "BUY_YES" \notin fills, "SELL_NO" \notin fills
          PROVE  Direction(yes, no, live, fills) = Abs(yes + 0 + 0 - (no + bn + sn))
      BY <1>1, <3>2 DEF Direction, Abs
    <3> HIDE DEF by, sy, bn, sn
    <3>3. QED
      BY <3>1, <3>2
  <2>3. yes + by + sy - (no + 0 + 0) = up /\ yes + 0 + 0 - (no + bn + sn) = dn
    <3> HIDE DEF by, sy, bn, sn
    <3>1. QED
      BY <1>1
  <2>4. /\ Direction(yes, no, live, {"BUY_YES", "SELL_NO"}) = Abs(up)
        /\ Direction(yes, no, live, {"BUY_NO", "SELL_YES"}) = Abs(dn)
    BY <2>2, <2>3, Zenon
  <2> HIDE DEF up, dn
  <2>5. QED
    BY <2>1, <2>4, Zenon DEF Ends
<1>4. WorstCase(up, dn) \in ends
  BY <1>3 DEF WorstCase, Larger
<1>5. \A e \in ends : e \in Int /\ e <= WorstCase(up, dn)
  BY <1>2 DEF Ends
<1>6. top = WorstCase(up, dn)
  OBVIOUS
<1> HIDE DEF up, dn
<1>7. QED
  BY <1>4, <1>5, <1>6

\* The orders of one kind the verifier looks up, and what it reads of them
Remaining(m, missed) == [o \in OrderIndex(m, missed) |-> LiveRemaining(o[1], o[2])]
Indexed(m, missed, kind) == {o \in OrderIndex(m, missed) : book[o].kind = kind}

LEMMA LiveIsSum ==
    ASSUME NEW m, NEW missed, NEW kind \in Kinds
    PROVE  VenueLive(m, missed)[kind] = Sum(Remaining(m, missed), Indexed(m, missed, kind))
<1> DEFINE live(k) == Sum(Remaining(m, missed), Indexed(m, missed, k))
<1>1. VenueLive(m, missed) = [BUY_YES |-> live("BUY_YES"), SELL_YES |-> live("SELL_YES"),
                              BUY_NO |-> live("BUY_NO"), SELL_NO |-> live("SELL_NO")]
  BY Zenon DEF VenueLive, Remaining, Indexed
<1>2. VenueLive(m, missed)[kind] = live(kind)
  <2>1. kind \in {"BUY_YES", "SELL_YES", "BUY_NO", "SELL_NO"}
    BY DEF Kinds
  <2> HIDE DEF live
  <2>2. QED
    BY <1>1, <2>1
<1>3. QED
  BY <1>2

LEMMA RemainingTyped ==
    ASSUME TypeOK, NEW m, NEW missed, NEW kind
    PROVE  /\ IsFiniteSet(Indexed(m, missed, kind))
           /\ \A o \in Indexed(m, missed, kind) :
                 /\ o \in Pools \X OrderIds /\ o = <<o[1], o[2]>>
                 /\ Remaining(m, missed)[o] = book[o].quantityRemaining
                 /\ Remaining(m, missed)[o] \in Nat
<1>1. MaxOrders \in Nat /\ IsFiniteSet(Pools)
  BY VenueAssumption
<1>2. IsFiniteSet(OrderIds)
  <2>1. 1 \in Int /\ MaxOrders \in Int
    BY <1>1
  <2>2. QED
    BY <2>1, FS_Interval DEF OrderIds
<1>3. IsFiniteSet(Pools \X OrderIds)
  BY <1>1, <1>2, FS_Product
<1>4. Indexed(m, missed, kind) \subseteq Pools \X OrderIds
  BY DEF Indexed, OrderIndex
<1>5. IsFiniteSet(Indexed(m, missed, kind))
  BY <1>3, <1>4, FS_Subset
<1>6. ASSUME NEW o \in Indexed(m, missed, kind)
      PROVE  /\ o \in Pools \X OrderIds /\ o = <<o[1], o[2]>>
             /\ Remaining(m, missed)[o] = book[o].quantityRemaining
             /\ Remaining(m, missed)[o] \in Nat
  <2>1. o \in Pools \X OrderIds /\ o = <<o[1], o[2]>> /\ o \in OrderIndex(m, missed)
    BY <1>4 DEF Indexed
  <2>2. Remaining(m, missed)[o] = book[o].quantityRemaining
    BY <2>1 DEF Remaining, LiveRemaining
  <2>3. book[o] \in BookOrders
    BY <2>1 DEF TypeOK, VenueTypeOK
  <2>4. QED
    BY <2>1, <2>2, <2>3 DEF BookOrders
<1>7. QED
  BY <1>5, <1>6

\* What the verifier finds open of a kind is no more than the contract counts.
LEMMA LiveWithinOpen ==
    ASSUME BooksInv, NEW m \in Markets, Charged(m),
           poolNonce[marketState[m].pool] = marketState[m].marketNonce,
           NEW missed, NEW kind \in Kinds
    PROVE  /\ VenueLive(m, missed)[kind] \in Nat
           /\ VenueLive(m, missed)[kind] <= marketState[m].open[kind]
           /\ marketState[m].open[kind] \in Nat
<1> DEFINE all  == Indexed(m, missed, kind)
           rest == Remaining(m, missed)
           S    == {o \in all : rest[o] # 0}
<1>1. TypeOK /\ marketState[m].pool = PoolOf[m]
  BY DEF BooksInv, TypeInv, PinnedToItsGeneration, Charged
<1>2. RestingPart(m, kind, S, rest)
  <2>1. ASSUME NEW o \in S
        PROVE  o \in RestingOn(m) /\ book[o].kind = kind /\ rest[o] = book[o].quantityRemaining
    <3>1. /\ o \in all /\ rest[o] # 0 /\ o \in Pools \X OrderIds /\ rest[o] = book[o].quantityRemaining
      BY <1>1, RemainingTyped
    <3>2. o[1] = PoolOf[m] /\ book[o].kind = kind
      BY <3>1 DEF Indexed, OrderIndex
    <3>3. o \in RestingOn(m)
      BY <1>1, <3>1, <3>2 DEF RestingOn, Resting
    <3>4. QED
      BY <3>1, <3>2, <3>3
  <2> HIDE DEF S, rest
  <2>2. QED
    BY <2>1 DEF RestingPart
<1>3. Sum(rest, all) = Sum(rest, S)
  BY SumWithoutZeros
<1>4. VenueLive(m, missed)[kind] = Sum(rest, all)
  BY LiveIsSum
<1> HIDE DEF S, rest, all
<1>5. QED
  BY <1>2, <1>3, <1>4, RestsWithinOpen

\* With an index that lacks nothing the verifier finds every resting order.
LEMMA RestingFound ==
    ASSUME BooksInv, NEW m \in Markets, Charged(m),
           poolNonce[marketState[m].pool] = marketState[m].marketNonce,
           NEW kind \in Kinds, NEW S, NEW rests, RestingPart(m, kind, S, rests)
    PROVE  Sum(rests, S) <= VenueLive(m, {})[kind]
<1> DEFINE all == Indexed(m, {}, kind)
<1>1. TypeOK /\ marketState[m].pool = PoolOf[m]
  BY DEF BooksInv, TypeInv, PinnedToItsGeneration, Charged
<1>2. ASSUME NEW o \in S
      PROVE  /\ o \in all /\ rests[o] = Remaining(m, {})[o] /\ rests[o] \in Nat
  <2>1. /\ o \in RestingOn(m) /\ o \in Resting /\ o \in Pools \X OrderIds /\ o = <<o[1], o[2]>>
        /\ book[o].kind = kind /\ rests[o] = book[o].quantityRemaining /\ o[1] = PoolOf[m]
    BY <1>1 DEF RestingPart, RestingOn, Resting
  <2>2. KeyOf(o) \in Records /\ KeyOf(o)[1] = o[1] /\ KeyOf(o)[2] = poolNonce[o[1]] /\ KeyOf(o)[3] = o[2]
    <3>1. book[o].quantityRemaining \in Nat \ {0}
      <4>1. book[o] \in BookOrders
        BY <1>1, <2>1 DEF TypeOK, VenueTypeOK
      <4>2. QED
        BY <2>1, <4>1 DEF Resting, BookOrders
    <3>2. KeyOf(o) = <<o[1], poolNonce[o[1]], o[2]>> /\ KeyOf(o) \in OrderKeys
      BY <1>1, <2>1 DEF KeyOf, OrderKey, OrderKeys, TypeOK, VenueTypeOK
    <3>3. orderRec[KeyOf(o)].qtyOpen >= book[o].quantityRemaining
      BY <2>1 DEF BooksInv, RecordsPay
    <3>4. QtyOpen[KeyOf(o)] = orderRec[KeyOf(o)].qtyOpen /\ QtyOpen[KeyOf(o)] \in Nat
      BY <1>1, <3>2, RecordValues
    <3>5. QED
      BY <3>1, <3>2, <3>3, <3>4 DEF Records
  <2>3. o[2] < nextId[o[1]]
    BY <2>2 DEF BooksInv, IdsInOrder
  <2>4. o \notin {}
    OBVIOUS
  <2>5. o \in all
    BY <2>1, <2>3, <2>4 DEF Indexed, OrderIndex
  <2>6. QED
    BY <1>1, <2>1, <2>5, RemainingTyped
<1>3. /\ IsFiniteSet(all) /\ \A o \in all : Remaining(m, {})[o] \in Nat
      /\ VenueLive(m, {})[kind] = Sum(Remaining(m, {}), all)
  BY <1>1, RemainingTyped, LiveIsSum
<1> HIDE DEF all
<1>4. Sum(rests, S) <= Sum(Remaining(m, {}), all)
  <2>1. S \in SUBSET all /\ \A o \in S : rests[o] \in Nat /\ rests[o] <= Remaining(m, {})[o]
    BY <1>2
  <2>2. QED
    BY <1>3, <2>1, SumMonotone
<1>5. QED
  BY <1>3, <1>4

\* The worst end is the contract's formula over what the verifier found itself.
LEMMA WorstEndIs ==
    ASSUME NEW yes \in Nat, NEW no \in Nat, NEW live, \A kind \in Kinds : live[kind] \in Nat
    PROVE  WorstEnd(yes, no, live) = WorstCase(yes - no + live["BUY_YES"] + live["SELL_YES"],
                                               yes - no - live["BUY_NO"] - live["SELL_NO"])
<1> DEFINE ends == Ends(yes, no, live)
           top == WorstCase(yes - no + live["BUY_YES"] + live["SELL_YES"], yes - no - live["BUY_NO"] - live["SELL_NO"])
           worst == CHOOSE w \in ends : \A e \in ends : e <= w
<1>1. WorstEnd(yes, no, live) = worst
  BY Zenon DEF WorstEnd, Ends
<1>2. top \in ends /\ \A e \in ends : e \in Int /\ e <= top
  <2>1. top = WorstCase(yes - no + live["BUY_YES"] + live["SELL_YES"], yes - no - live["BUY_NO"] - live["SELL_NO"])
    OBVIOUS
  <2> HIDE DEF top
  <2>2. QED
    BY <2>1, LargestOfSixteen
<1> HIDE DEF ends
<1>3. worst = top
  <2> HIDE DEF top
  <2>1. worst \in ends /\ \A e \in ends : e <= worst
    BY <1>2
  <2> HIDE DEF worst
  <2>2. QED
    BY <1>2, <2>1
<1>4. QED
  BY <1>1, <1>3

LEMMA IndependentIs ==
    ASSUME TypeOK, NEW m \in Markets, NEW missed,
           \A kind \in Kinds : VenueLive(m, missed)[kind] \in Nat
    PROVE  IndependentWorstCase(m, missed) =
             WorstCase(Realized(m) + VenueLive(m, missed)["BUY_YES"] + VenueLive(m, missed)["SELL_YES"],
                       Realized(m) - VenueLive(m, missed)["BUY_NO"] - VenueLive(m, missed)["SELL_NO"])
<1> DEFINE yes  == bal[TokenId(marketState[m].pool, marketState[m].marketNonce, "YES")]
           no   == bal[TokenId(marketState[m].pool, marketState[m].marketNonce, "NO")]
           live == VenueLive(m, missed)
<1>1. yes \in Nat /\ no \in Nat
  BY DEF TypeOK, VenueTypeOK, TokenId, TokenIds, MarketStates, Sides
<1>2. Realized(m) = yes - no
  BY DEF Realized
<1>3. IndependentWorstCase(m, missed) = WorstEnd(yes, no, live)
  BY DEF IndependentWorstCase
<1> HIDE DEF yes, no, live
<1>4. \A kind \in Kinds : live[kind] \in Nat
  BY DEF live
<1>5. WorstEnd(yes, no, live) = WorstCase(yes - no + live["BUY_YES"] + live["SELL_YES"],
                                          yes - no - live["BUY_NO"] - live["SELL_NO"])
  BY <1>1, <1>4, WorstEndIs
<1>6. QED
  BY <1>2, <1>3, <1>5 DEF live

\* For a market on its generation it never exceeds the contract's, and nothing
\* the resting orders can do exceeds it.
LEMMA VerifierOfMarket ==
    ASSUME BooksInv, NEW m \in Markets, Charged(m),
           poolNonce[marketState[m].pool] = marketState[m].marketNonce, NEW missed
    PROVE  /\ IndependentWorstCase(m, missed) \in Nat
           /\ IndependentWorstCase(m, missed) <= MarketWorstCaseExposure(m)
<1> DEFINE live == VenueLive(m, missed)
           open == marketState[m].open
<1>1. TypeOK
  BY DEF BooksInv, TypeInv
<1>2. \A kind \in Kinds : live[kind] \in Nat /\ live[kind] <= open[kind] /\ open[kind] \in Nat
  BY LiveWithinOpen
<1>3. IndependentWorstCase(m, missed) =
        WorstCase(Realized(m) + live["BUY_YES"] + live["SELL_YES"], Realized(m) - live["BUY_NO"] - live["SELL_NO"])
  BY <1>1, <1>2, IndependentIs
<1>4. MarketWorstCaseExposure(m) =
        WorstCase(Realized(m) + open["BUY_YES"] + open["SELL_YES"], Realized(m) - open["BUY_NO"] - open["SELL_NO"])
  BY DEF MarketWorstCaseExposure, Charged, Up, Dn, UpperBound, LowerBound
<1>5. Realized(m) \in Int
  BY <1>1, RiskType
<1> HIDE DEF live, open
<1> DEFINE up  == Realized(m) + live["BUY_YES"] + live["SELL_YES"]
           dn  == Realized(m) - live["BUY_NO"] - live["SELL_NO"]
           top == Realized(m) + open["BUY_YES"] + open["SELL_YES"]
           bot == Realized(m) - open["BUY_NO"] - open["SELL_NO"]
<1>6. up \in Int /\ dn \in Int /\ top \in Int /\ bot \in Int /\ bot <= dn /\ dn <= up /\ up <= top
  BY <1>2, <1>5 DEF Kinds
<1> HIDE DEF up, dn, top, bot
<1>7. WorstCase(up, dn) \in Nat /\ WorstCase(up, dn) <= WorstCase(top, bot)
  BY <1>6, NarrowerInterval, WorstCaseType
<1>8. QED
  BY <1>3, <1>4, <1>7 DEF up, dn, top, bot

\* An index that lacks nothing covers what each order can do on its own.
LEMMA VerifierCovers ==
    ASSUME BooksInv, NEW m \in Markets, Charged(m),
           poolNonce[marketState[m].pool] = marketState[m].marketNonce,
           NEW filled \in SUBSET RestingOn(m)
    PROVE  LET orders == RestingOn(m)
               rests  == [o \in orders |-> book[o].quantityRemaining]
               Of(kind, S) == {o \in S : book[o].kind = kind}
           IN  Abs(Realized(m)
                     + Sum(rests, Of("BUY_YES", filled) \cup Of("SELL_YES", orders \ filled))
                     - Sum(rests, Of("BUY_NO", filled) \cup Of("SELL_NO", orders \ filled)))
                 <= IndependentWorstCase(m, {})
<1> DEFINE orders == RestingOn(m)
           rests  == [o \in orders |-> book[o].quantityRemaining]
           Of(kind, S) == {o \in S : book[o].kind = kind}
           live == VenueLive(m, {})
<1>1. TypeOK
  BY DEF BooksInv, TypeInv
<1>2. \A kind \in Kinds : live[kind] \in Nat
  BY LiveWithinOpen
<1>3. ASSUME NEW kind \in Kinds, NEW S \in SUBSET orders
      PROVE  /\ IsFiniteSet(Of(kind, S))
             /\ \A o \in Of(kind, S) : rests[o] \in Nat
             /\ Sum(rests, Of(kind, S)) \in Nat
             /\ Sum(rests, Of(kind, S)) <= live[kind]
  <2>1. RestingPart(m, kind, Of(kind, S), rests)
    BY DEF RestingPart
  <2> HIDE DEF Of, rests
  <2>2. QED
    BY <2>1, RestsWithinOpen, RestingFound
<1>4. ASSUME NEW k1 \in Kinds, NEW k2 \in Kinds, NEW S1 \in SUBSET orders, NEW S2 \in SUBSET orders
      PROVE  /\ Sum(rests, Of(k1, S1) \cup Of(k2, S2)) \in Nat
             /\ Sum(rests, Of(k1, S1) \cup Of(k2, S2)) <= live[k1] + live[k2]
  <2> HIDE DEF Of, rests, live
  <2>1. /\ IsFiniteSet(Of(k1, S1)) /\ IsFiniteSet(Of(k2, S2))
        /\ \A o \in Of(k1, S1) \cup Of(k2, S2) : rests[o] \in Nat
    BY <1>3
  <2>2. IsFiniteSet(Of(k1, S1) \cup Of(k2, S2))
    BY <2>1, FS_Union
  <2>3. Sum(rests, Of(k1, S1) \cup Of(k2, S2)) \in Nat
    BY <2>1, <2>2, SumType
  <2>4. Sum(rests, Of(k1, S1) \cup Of(k2, S2)) <= Sum(rests, Of(k1, S1)) + Sum(rests, Of(k2, S2))
    BY <2>1, SumOfUnion
  <2>5. /\ Sum(rests, Of(k1, S1)) \in Nat /\ Sum(rests, Of(k1, S1)) <= live[k1]
        /\ Sum(rests, Of(k2, S2)) \in Nat /\ Sum(rests, Of(k2, S2)) <= live[k2]
        /\ live[k1] \in Nat /\ live[k2] \in Nat
    BY <1>2, <1>3
  <2>6. QED
    BY <2>3, <2>4, <2>5
<1> DEFINE gain == Sum(rests, Of("BUY_YES", filled) \cup Of("SELL_YES", orders \ filled))
           loss == Sum(rests, Of("BUY_NO", filled) \cup Of("SELL_NO", orders \ filled))
<1>5. /\ "BUY_YES" \in Kinds /\ "SELL_YES" \in Kinds /\ "BUY_NO" \in Kinds /\ "SELL_NO" \in Kinds
      /\ filled \in SUBSET orders /\ orders \ filled \in SUBSET orders
  BY DEF Kinds
<1>6. /\ gain \in Nat /\ gain <= live["BUY_YES"] + live["SELL_YES"]
      /\ loss \in Nat /\ loss <= live["BUY_NO"] + live["SELL_NO"]
  <2> HIDE DEF Of, rests, live, orders
  <2>1. QED
    BY <1>4, <1>5
<1>7. Realized(m) \in Int
  BY <1>1, RiskType
<1>8. IndependentWorstCase(m, {}) =
        WorstCase(Realized(m) + live["BUY_YES"] + live["SELL_YES"], Realized(m) - live["BUY_NO"] - live["SELL_NO"])
  BY <1>1, <1>2, IndependentIs
<1> HIDE DEF gain, loss, live
<1>9. Abs(Realized(m) + gain - loss) <= IndependentWorstCase(m, {})
  <2>1. Abs(Realized(m) + gain - loss) <=
          WorstCase(Realized(m) + live["BUY_YES"] + live["SELL_YES"], Realized(m) - live["BUY_NO"] - live["SELL_NO"])
    BY <1>2, <1>5, <1>6, <1>7, WithinInterval
  <2>2. QED
    BY <1>8, <2>1
<1>10. QED
  BY <1>9 DEF gain, loss

\* The markets the verifier samples are those of the domain's list that are
\* charged, each at a slot of its own.
LEMMA SampledSlots ==
    ASSUME TypeInv, NEW d \in Domains
    PROVE  /\ IsFiniteSet(Slots(d)) /\ IsFiniteSet(Sampled(d))
           /\ \A m \in Sampled(d) : /\ m \in Markets /\ Charged(m) /\ marketSlot[m] \in Slots(d)
                                    /\ domainMarkets[d][marketSlot[m]] = m
           /\ \A k \in Slots(d) : /\ domainMarkets[d][k] \in Markets /\ RiskOf(d)[k] \in Nat
                                  /\ marketSlot[domainMarkets[d][k]] = k
                                  /\ RiskOf(d)[k] # 0 => domainMarkets[d][k] \in Sampled(d)
<1>1. DomainListsMatchTracking /\ TypeOK /\ domainMarkets[d] \in Seq(Markets)
  BY DEF TypeInv, TypeOK
<1>2. ASSUME NEW k \in Slots(d)
      PROVE  /\ domainMarkets[d][k] \in Markets /\ RiskOf(d)[k] \in Nat
             /\ marketSlot[domainMarkets[d][k]] = k
             /\ RiskOf(d)[k] # 0 => domainMarkets[d][k] \in Sampled(d)
  <2>1. PICK m \in Markets : m = domainMarkets[d][k]
    BY <1>1 DEF Slots
  <2>2. marketSlot[m] = k
    BY <1>1, <2>1 DEF DomainListsMatchTracking, Slots
  <2>3. RiskOf(d)[k] = MarketWorstCaseExposure(m) /\ MarketWorstCaseExposure(m) \in Nat
    BY <1>1, <2>1, RiskAt, RiskType
  <2>4. RiskOf(d)[k] # 0 => m \in Sampled(d)
    BY <2>1, <2>3 DEF Sampled, Slots, Charged, MarketWorstCaseExposure
  <2>5. QED
    BY <2>1, <2>2, <2>3, <2>4
<1>3. ASSUME NEW m \in Sampled(d)
      PROVE  /\ m \in Markets /\ Charged(m) /\ marketSlot[m] \in Slots(d)
             /\ domainMarkets[d][marketSlot[m]] = m
  <2>1. PICK k \in Slots(d) : domainMarkets[d][k] = m
    BY DEF Sampled, Slots
  <2>2. marketSlot[m] = k
    BY <1>2, <2>1
  <2>3. QED
    BY <2>1, <2>2 DEF Sampled
<1>4. IsFiniteSet(Slots(d))
  BY <1>1, FS_Interval DEF Slots
<1>5. IsFiniteSet(Sampled(d))
  <2> DEFINE h == [m \in Sampled(d) |-> marketSlot[m]]
  <2>1. h \in [Sampled(d) -> Slots(d)] /\ \A m, n \in Sampled(d) : h[m] = h[n] => m = n
    BY <1>3
  <2>2. h \in Injection(Sampled(d), Slots(d))
    BY <2>1 DEF Injection, IsInjective
  <2>3. QED
    BY <1>4, <2>2, FS_Injection
<1>6. QED
  BY <1>2, <1>3, <1>4, <1>5

Accounted(d) == [m \in Sampled(d) |-> MarketWorstCaseExposure(m)]

\* A domain's usage is what its sampled markets are charged: no market of its
\* list is counted twice, and the others are charged nothing.
LEMMA UsageIsAccounted ==
    ASSUME TypeInv, NEW d \in Domains
    PROVE  /\ DomainRiskUsage(d) = Sum(Accounted(d), Sampled(d))
           /\ \A m \in Sampled(d) : Accounted(d)[m] \in Nat
<1> DEFINE S == {k \in Slots(d) : RiskOf(d)[k] # 0}
           T == Sampled(d)
           f == RiskOf(d)
           g == Accounted(d)
           h == [k \in S |-> domainMarkets[d][k]]
           l == [m \in T |-> marketSlot[m]]
<1>1. \A m \in T : g[m] = MarketWorstCaseExposure(m) /\ g[m] \in Nat
  BY SampledSlots, RiskType DEF Accounted, TypeInv
<1>2. ASSUME NEW k \in S
      PROVE  h[k] \in T /\ f[k] \in Nat /\ f[k] <= g[h[k]] /\ marketSlot[h[k]] = k
  <2>1. /\ k \in Slots(d) /\ h[k] = domainMarkets[d][k] /\ h[k] \in T /\ f[k] \in Nat
        /\ marketSlot[h[k]] = k
    BY SampledSlots
  <2>2. f[k] = MarketWorstCaseExposure(h[k])
    BY <2>1, RiskAt
  <2> HIDE DEF h, f, T, g
  <2>3. QED
    BY <1>1, <2>1, <2>2
<1>3. ASSUME NEW m \in T
      PROVE  l[m] \in Slots(d) /\ f[l[m]] \in Nat /\ g[m] <= f[l[m]] /\ domainMarkets[d][l[m]] = m
  <2>1. l[m] \in Slots(d) /\ f[l[m]] \in Nat /\ domainMarkets[d][l[m]] = m
    BY SampledSlots
  <2>2. f[l[m]] = MarketWorstCaseExposure(m)
    BY <2>1, RiskAt
  <2> HIDE DEF l, f, T, g
  <2>3. QED
    BY <1>1, <2>1, <2>2
<1>4. h \in Injection(S, T)
  <2>1. h \in [S -> T]
    <3>1. \A k \in S : h[k] \in T
      BY <1>2
    <3> HIDE DEF S, T
    <3>2. QED
      BY <3>1
  <2>2. \A a, b \in S : h[a] = h[b] => a = b
    <3> HIDE DEF S, T, h
    <3>1. QED
      BY <1>2
  <2> HIDE DEF h, S, T
  <2>3. QED
    BY <2>1, <2>2 DEF Injection, IsInjective
<1>5. l \in Injection(T, Slots(d))
  <2>1. l \in [T -> Slots(d)]
    <3>1. \A m \in T : l[m] \in Slots(d)
      BY <1>3
    <3> HIDE DEF T
    <3>2. QED
      BY <3>1
  <2>2. \A a, b \in T : l[a] = l[b] => a = b
    <3> HIDE DEF T, l
    <3>1. QED
      BY <1>3
  <2> HIDE DEF l, T
  <2>3. QED
    BY <2>1, <2>2 DEF Injection, IsInjective
<1>6. /\ IsFiniteSet(T) /\ IsFiniteSet(Slots(d)) /\ \A k \in Slots(d) : f[k] \in Nat
      /\ Sum(f, Slots(d)) = Sum(f, S)
  BY SampledSlots, SumWithoutZeros
<1>7. DomainRiskUsage(d) = Sum(f, Slots(d))
  BY DEF DomainRiskUsage, RiskOf, Slots
<1> HIDE DEF S, T, f, g, h, l
<1>8. Sum(f, S) <= Sum(g, T)
  BY <1>1, <1>2, <1>4, <1>6, SumThrough
<1>9. Sum(g, T) <= Sum(f, Slots(d))
  BY <1>1, <1>3, <1>5, <1>6, SumThrough
<1>10. Sum(g, T) \in Nat /\ Sum(f, Slots(d)) \in Nat
  BY <1>1, <1>6, SumType
<1>11. QED
  BY <1>1, <1>6, <1>7, <1>8, <1>9, <1>10 DEF T, g

\* No domain the verifier judges understates.
LEMMA NoFalseAlarm ==
    ASSUME BooksInv, NEW d \in Domains, OnItsGeneration(d), NEW missed
    PROVE  ~Understates(d, missed)
<1> DEFINE independent == [m \in Sampled(d) |-> IndependentWorstCase(m, missed)]
           accounted == Accounted(d)
<1>1. IsFiniteSet(Sampled(d)) /\ \A m \in Sampled(d) : m \in Markets /\ Charged(m)
  BY SampledSlots DEF BooksInv
<1>2. ASSUME NEW m \in Sampled(d)
      PROVE  independent[m] \in Nat /\ independent[m] <= accounted[m] /\ accounted[m] \in Nat
  <2>1. poolNonce[marketState[m].pool] = marketState[m].marketNonce
    BY DEF OnItsGeneration
  <2>2. IndependentWorstCase(m, missed) \in Nat /\ IndependentWorstCase(m, missed) <= MarketWorstCaseExposure(m)
    BY <1>1, <2>1, VerifierOfMarket
  <2>3. accounted[m] = MarketWorstCaseExposure(m) /\ accounted[m] \in Nat
    BY UsageIsAccounted DEF Accounted, BooksInv
  <2> HIDE DEF accounted
  <2>4. QED
    BY <2>2, <2>3
<1>3. Understates(d, missed) <=> \/ \E m \in Sampled(d) : accounted[m] < independent[m]
                                \/ Sum(accounted, Sampled(d)) < Sum(independent, Sampled(d))
  BY Zenon DEF Understates, Accounted
<1> HIDE DEF accounted, independent
<1>4. Sum(independent, Sampled(d)) <= Sum(accounted, Sampled(d))
  <2>1. Sampled(d) \in SUBSET Sampled(d)
    OBVIOUS
  <2>2. QED
    BY <1>1, <1>2, <2>1, SumMonotone
<1>5. Sum(independent, Sampled(d)) \in Nat /\ Sum(accounted, Sampled(d)) \in Nat
  BY <1>1, <1>2, SumType
<1>6. QED
  BY <1>2, <1>3, <1>4, <1>5

\* The verifier's verdict is right, both ways, in every state of the contract
\* and the venue, for any number of markets, orders and domains: it never
\* stops the campaign over a domain that is charged enough, its total is the
\* contract's, and no market it looks at can end further out than it says
\* (independentWorstCase, report, runOnce).
THEOREM VerifierCorrect == Spec => []VerifierJudgesRight
<1>1. ASSUME BooksInv
      PROVE  VerifierJudgesRight
  <2> DEFINE judged == {d \in Domains : OnItsGeneration(d)}
  <2>1. ASSUME NEW missed \in SUBSET (Pools \X OrderIds)
        PROVE  ~RunOnce(judged, missed)
    BY <1>1, NoFalseAlarm DEF RunOnce
  <2>2. ASSUME NEW d \in judged
        PROVE  ~UsageMismatch(d)
    <3>1. DomainRiskUsage(d) = Sum(Accounted(d), Sampled(d))
      BY <1>1, UsageIsAccounted DEF BooksInv
    <3>2. QED
      BY <3>1 DEF UsageMismatch, Accounted
  <2>3. ASSUME NEW m \in UNION {Sampled(d) : d \in judged}, NEW filled \in SUBSET RestingOn(m)
        PROVE  LET worst == IndependentWorstCase(m, {})
                   orders == RestingOn(m)
                   rests  == [o \in orders |-> book[o].quantityRemaining]
                   Of(kind, S) == {o \in S : book[o].kind = kind}
               IN  Abs(Realized(m)
                         + Sum(rests, Of("BUY_YES", filled) \cup Of("SELL_YES", orders \ filled))
                         - Sum(rests, Of("BUY_NO", filled) \cup Of("SELL_NO", orders \ filled)))
                     <= worst
    <3>1. PICK d \in Domains : OnItsGeneration(d) /\ m \in Sampled(d)
      OBVIOUS
    <3>2. m \in Markets /\ Charged(m) /\ poolNonce[marketState[m].pool] = marketState[m].marketNonce
      BY <1>1, <3>1, SampledSlots DEF BooksInv, OnItsGeneration
    <3>3. QED
      BY <1>1, <3>2, VerifierCovers
  <2>4. QED
    BY <2>1, <2>2, <2>3 DEF VerifierJudgesRight
<1>2. QED
  BY <1>1, BooksInvariant, PTL

-----------------------------------------------------------------------------
(* The preview's gate stack.                                               *)

\* The codes, one by one
LEMMA Codes ==
    /\ Len(Order) = 27
    /\ Order[1] = "NOT_AGENT" /\ Order[2] = "AGENT_DISABLED" /\ Order[3] = "POLICY_EXPIRED"
    /\ Order[4] = "INTENT_REPLAYED" /\ Order[5] = "COOLDOWN_ACTIVE" /\ Order[6] = "MARKET_NOT_FOUND"
    /\ Order[7] = "POOL_MISMATCH" /\ Order[8] = "DOMAIN_UNSUPPORTED" /\ Order[9] = "DOMAIN_NOT_CONFIGURED"
    /\ Order[10] = "MARKET_GENERATION_MISMATCH" /\ Order[11] = "MARKET_NOT_TRADING"
    /\ Order[12] = "INSUFFICIENT_HEADROOM" /\ Order[13] = "PRICE_OUTSIDE_POLICY" /\ Order[14] = "OFF_TICK_GRID"
    /\ Order[15] = "OFF_LOT_GRID" /\ Order[16] = "BELOW_MIN_QUANTITY" /\ Order[17] = "ORDER_EXPIRY_INVALID"
    /\ Order[18] = "AGENT_ORDER_NOTIONAL_EXCEEDED" /\ Order[19] = "GLOBAL_ORDER_NOTIONAL_EXCEEDED"
    /\ Order[20] = "DOMAIN_RISK_EXCEEDED" /\ Order[21] = "DOMAIN_MARKETS_FULL"
    /\ Order[22] = "INSUFFICIENT_COLLATERAL" /\ Order[23] = "AGENT_COMMITTED_EXCEEDED"
    /\ Order[24] = "GLOBAL_COMMITTED_EXCEEDED" /\ Order[25] = "DOMAIN_COMMITTED_EXCEEDED"
    /\ Order[26] = "GLOBAL_RESERVED_EXCEEDED" /\ Order[27] = "MAX_LIVE_MARKETS_EXCEEDED"
BY DEF Order

\* An intent passes the gates of _evaluate, asked one by one, when execute admits it.
LEMMA GatesInOrder ==
    ASSUME NEW a, NEW i
    PROVE  (\A k \in 1 .. 27 : Passes(a, i, k)) <=> Admissible(a, i)
<1>1. (\A k \in 1 .. 5 : Passes(a, i, k)) <=> AgentGates(a, i)
  <2>1. \A k \in 1 .. 5 : Passes(a, i, k) = AgentPasses(a, i, Order[k])
    BY DEF Passes
  <2>2. (\A k \in 1 .. 5 : AgentPasses(a, i, Order[k])) <=>
          /\ AgentPasses(a, i, "NOT_AGENT") /\ AgentPasses(a, i, "AGENT_DISABLED")
          /\ AgentPasses(a, i, "POLICY_EXPIRED") /\ AgentPasses(a, i, "INTENT_REPLAYED")
          /\ AgentPasses(a, i, "COOLDOWN_ACTIVE")
    BY Codes
  <2>3. QED
    BY <2>1, <2>2 DEF AgentPasses, AgentGates
<1>2. (\A k \in 6 .. 12 : Passes(a, i, k)) <=> MarketGates(i)
  <2>1. \A k \in 6 .. 12 : Passes(a, i, k) = MarketPasses(i, Order[k])
    BY DEF Passes
  <2>2. (\A k \in 6 .. 12 : MarketPasses(i, Order[k])) <=>
          /\ MarketPasses(i, "MARKET_NOT_FOUND") /\ MarketPasses(i, "POOL_MISMATCH")
          /\ MarketPasses(i, "DOMAIN_UNSUPPORTED") /\ MarketPasses(i, "DOMAIN_NOT_CONFIGURED")
          /\ MarketPasses(i, "MARKET_GENERATION_MISMATCH") /\ MarketPasses(i, "MARKET_NOT_TRADING")
          /\ MarketPasses(i, "INSUFFICIENT_HEADROOM")
    BY Codes
  <2>3. QED
    BY <2>1, <2>2 DEF MarketPasses, MarketGates, TradingGates
<1>3. (\A k \in 13 .. 19 : Passes(a, i, k)) <=> OrderGates(a, i)
  <2>1. \A k \in 13 .. 19 : Passes(a, i, k) = OrderPasses(a, i, Order[k])
    BY DEF Passes
  <2>2. (\A k \in 13 .. 19 : OrderPasses(a, i, Order[k])) <=>
          /\ OrderPasses(a, i, "PRICE_OUTSIDE_POLICY") /\ OrderPasses(a, i, "OFF_TICK_GRID")
          /\ OrderPasses(a, i, "OFF_LOT_GRID") /\ OrderPasses(a, i, "BELOW_MIN_QUANTITY")
          /\ OrderPasses(a, i, "ORDER_EXPIRY_INVALID") /\ OrderPasses(a, i, "AGENT_ORDER_NOTIONAL_EXCEEDED")
          /\ OrderPasses(a, i, "GLOBAL_ORDER_NOTIONAL_EXCEEDED")
    BY Codes
  <2>3. QED
    BY <2>1, <2>2 DEF OrderPasses, OrderGates
<1>4. (\A k \in 20 .. 27 : Passes(a, i, k)) <=> CapacityGates(a, i)
  <2>1. \A k \in 20 .. 27 : Passes(a, i, k) = CapacityPasses(a, i, Order[k])
    BY DEF Passes
  <2>2. (\A k \in 20 .. 27 : CapacityPasses(a, i, Order[k])) <=>
          /\ CapacityPasses(a, i, "DOMAIN_RISK_EXCEEDED") /\ CapacityPasses(a, i, "DOMAIN_MARKETS_FULL")
          /\ CapacityPasses(a, i, "INSUFFICIENT_COLLATERAL") /\ CapacityPasses(a, i, "AGENT_COMMITTED_EXCEEDED")
          /\ CapacityPasses(a, i, "GLOBAL_COMMITTED_EXCEEDED") /\ CapacityPasses(a, i, "DOMAIN_COMMITTED_EXCEEDED")
          /\ CapacityPasses(a, i, "GLOBAL_RESERVED_EXCEEDED") /\ CapacityPasses(a, i, "MAX_LIVE_MARKETS_EXCEEDED")
    BY Codes
  <2>3. QED
    BY <2>1, <2>2 DEF CapacityPasses, CollateralPasses, CapacityGates, CollateralGates
<1>5. \A k \in 1 .. 27 : k \in 1 .. 5 \/ k \in 6 .. 12 \/ k \in 13 .. 19 \/ k \in 20 .. 27
  OBVIOUS
<1>6. (1 .. 5) \cup (6 .. 12) \cup (13 .. 19) \cup (20 .. 27) = 1 .. 27
  BY <1>5
<1>7. QED
  BY <1>1, <1>2, <1>3, <1>4, <1>6, Zenon DEF Admissible

LEMMA Smallest ==
    ASSUME NEW T \in SUBSET Nat, T # {}
    PROVE  \E x \in T : \A y \in T : ~ y < x
<1> DEFINE less == OpToRel(<, Nat)
<1>1. IsWellFoundedOn(less, Nat)
  BY NatLessThanWellFounded, Zenon
<1>2. \A x, y \in Nat : y < x => <<y, x>> \in less
  BY DEF OpToRel
<1> HIDE DEF less
<1>3. \E x \in T : \A y \in T : ~ (<<y, x>> \in less)
  BY <1>1, WFMin
<1>4. QED
  BY <1>2, <1>3

\* The bits of the gates that were passed before the k-th code
BitsBefore(k) == {bit \in DOMAIN Gate : \E j \in 1 .. k - 1 : Order[j] = Gate[bit]}

\* A preview that refuses names a gate that fails and the bits before it.
LEMMA PreviewRefuses ==
    ASSUME NEW a, NEW i, ~ Admissible(a, i)
    PROVE  \E k \in 1 .. 27 : Preview(a, i) = [refusal |-> Order[k], gates |-> BitsBefore(k)]
<1> DEFINE P(k) == Passes(a, i, k)
           failing == {k \in 1 .. 27 : ~ P(k)}
           first == CHOOSE k \in 1 .. Len(Order) : ~ P(k) /\ \A j \in 1 .. k - 1 : P(j)
           stop == IF \A k \in 1 .. Len(Order) : P(k) THEN Len(Order) + 1 ELSE first
<1>1. failing # {}
  BY GatesInOrder
<1>2. \E k \in 1 .. 27 : ~ P(k) /\ \A j \in 1 .. k - 1 : P(j)
  <2>1. failing \in SUBSET Nat
    OBVIOUS
  <2>2. PICK k \in failing : \A y \in failing : ~ y < k
    <3> HIDE DEF failing
    <3>1. QED
      BY <1>1, <2>1, Smallest
  <2> HIDE DEF P
  <2>3. k \in 1 .. 27 /\ ~ P(k) /\ \A j \in 1 .. k - 1 : P(j)
    BY <2>2
  <2>4. QED
    BY <2>3
<1>3. first \in 1 .. 27
  <2> HIDE DEF P
  <2>1. QED
    BY <1>2, Codes
<1>4. ~ (\A k \in 1 .. Len(Order) : Passes(a, i, k)) /\ Len(Order) = 27
  BY GatesInOrder, Codes
<1>5. Preview(a, i) = [refusal |-> IF stop > Len(Order) THEN "NONE" ELSE Order[stop], gates |-> BitsBefore(stop)]
  BY Zenon DEF Preview, BitsBefore
<1>6. stop = first
  BY <1>4
<1> HIDE DEF stop, first
<1>7. ~ stop > Len(Order)
  BY <1>3, <1>4, <1>6
<1>8. QED
  BY <1>3, <1>5, <1>6, <1>7

LEMMA PreviewAdmits ==
    ASSUME NEW a, NEW i, Admissible(a, i)
    PROVE  Preview(a, i) = [refusal |-> "NONE", gates |-> BitsBefore(28)]
<1>1. (\A k \in 1 .. Len(Order) : Passes(a, i, k)) /\ Len(Order) = 27
  BY GatesInOrder, Codes
<1>2. Preview(a, i) = [refusal |-> IF 27 + 1 > 27 THEN "NONE" ELSE Order[27 + 1], gates |-> BitsBefore(27 + 1)]
  BY <1>1, Zenon DEF Preview, BitsBefore
<1>3. 27 + 1 = 28 /\ 27 + 1 > 27
  OBVIOUS
<1>4. QED
  BY <1>2, <1>3

\* The rows, one by one
LEMMA Rows ==
    /\ Len(GateRows) = 7
    /\ GateRows[1] = [key |-> "agent", bit |-> "AGENT_POLICY"]
    /\ GateRows[2] = [key |-> "market", bit |-> "MARKET_TRADING"]
    /\ GateRows[3] = [key |-> "generation", bit |-> "GENERATION"]
    /\ GateRows[4] = [key |-> "grid", bit |-> "GRID"]
    /\ GateRows[5] = [key |-> "price", bit |-> "PRICE"]
    /\ GateRows[6] = [key |-> "headroom", bit |-> "HEADROOM"]
    /\ GateRows[7] = [key |-> "portfolio", bit |-> "DOMAIN_CAPACITY"]
BY DEF GateRows

\* Only a refusal of the domain's gates has no row.
LEMMA RefusalRow ==
    ASSUME NEW refusal, refusal \notin {"DOMAIN_UNSUPPORTED", "DOMAIN_NOT_CONFIGURED"}
    PROVE  \E k \in 1 .. Len(GateRows) : GateRows[k].key = RefusalGate(refusal)
<1>1. RefusalGate(refusal) \in {"agent", "market", "generation", "grid", "price", "headroom", "portfolio"}
  BY DEF RefusalGate
<1>2. QED
  BY <1>1, Rows

\* What one sees of an intent is clean
Clean(view) == /\ \A k \in 1 .. Len(GateRows) : Shown(view, k) = "PASS"
               /\ Highlighted(view) = {}

\* A refusal shows: its row is highlighted, or the row of a gate behind it fails.
LEMMA RefusalShows ==
    ASSUME NEW k \in 1 .. 27, NEW view, view = [refusal |-> Order[k], gates |-> BitsBefore(k)]
    PROVE  ~ Clean(view) /\ Verdict(view) = "Blocked"
<1>1. Order[k] # "NONE"
  BY Codes
<1>2. CASE Order[k] \in {"DOMAIN_UNSUPPORTED", "DOMAIN_NOT_CONFIGURED"}
  <2>1. k \in {8, 9}
    BY <1>2, Codes
  <2>2. "GENERATION" \notin BitsBefore(k)
    <3>1. Gate["GENERATION"] = "MARKET_GENERATION_MISMATCH"
      BY DEF Gate
    <3>2. \A j \in 1 .. 8 : Order[j] # "MARKET_GENERATION_MISMATCH"
      BY Codes
    <3>3. QED
      BY <2>1, <3>1, <3>2 DEF BitsBefore
  <2>3. RefusalGate(Order[k]) = "domain"
    BY <1>2 DEF RefusalGate
  <2>4. BlockedRow(view) = 0
    <3>1. {l \in 1 .. Len(GateRows) : GateRows[l].key = RefusalGate(view.refusal)} = {}
      BY <2>3, Rows
    <3>2. QED
      BY <3>1 DEF BlockedRow
  <2>5. Shown(view, 3) = "FAIL"
    BY <2>2, <2>4, Rows DEF Shown
  <2>6. QED
    BY <1>1, <2>5, Rows DEF Clean, Verdict
<1>3. CASE Order[k] \notin {"DOMAIN_UNSUPPORTED", "DOMAIN_NOT_CONFIGURED"}
  <2> DEFINE rows == {l \in 1 .. Len(GateRows) : GateRows[l].key = RefusalGate(Order[k])}
  <2>1. rows # {}
    BY <1>3, RefusalRow
  <2>2. BlockedRow(view) = CHOOSE l \in rows : TRUE
    BY <1>1, <2>1 DEF BlockedRow
  <2>3. BlockedRow(view) \in 1 .. 7
    BY <2>1, <2>2, Rows
  <2>4. QED
    BY <1>1, <2>3 DEF Clean, Highlighted, Verdict
<1>4. QED
  BY <1>2, <1>3

\* An admission shows as one.
LEMMA AdmissionShows ==
    ASSUME NEW view, view = [refusal |-> "NONE", gates |-> BitsBefore(28)]
    PROVE  Clean(view) /\ Verdict(view) = "Admitted"
<1>1. BlockedRow(view) = 0
  BY DEF BlockedRow
<1>2. ASSUME NEW l \in 1 .. Len(GateRows)
      PROVE  Shown(view, l) = "PASS"
  <2>1. GateRows[l].bit \in DOMAIN Gate
    BY Rows DEF Gate
  <2>2. \A bit \in DOMAIN Gate : \E j \in 1 .. 28 - 1 : Order[j] = Gate[bit]
    <3>1. DOMAIN Gate = {"AGENT_REGISTERED", "AGENT_POLICY", "MARKET_RESOLVED", "DOMAIN_CONFIGURED", "GENERATION",
                         "MARKET_TRADING", "HEADROOM", "PRICE", "GRID", "DOMAIN_CAPACITY", "GLOBAL_CAPACITY"}
      BY DEF Gate
    <3>2. /\ Gate["AGENT_REGISTERED"] = Order[1] /\ Gate["AGENT_POLICY"] = Order[5]
          /\ Gate["MARKET_RESOLVED"] = Order[6] /\ Gate["DOMAIN_CONFIGURED"] = Order[9]
          /\ Gate["GENERATION"] = Order[10] /\ Gate["MARKET_TRADING"] = Order[11]
          /\ Gate["HEADROOM"] = Order[12] /\ Gate["PRICE"] = Order[13] /\ Gate["GRID"] = Order[17]
          /\ Gate["DOMAIN_CAPACITY"] = Order[20] /\ Gate["GLOBAL_CAPACITY"] = Order[26]
      BY Codes DEF Gate
    <3>3. {1, 5, 6, 9, 10, 11, 12, 13, 17, 20, 26} \subseteq 1 .. 28 - 1
      OBVIOUS
    <3>4. QED
      BY <3>1, <3>2, <3>3
  <2>3. GateRows[l].bit \in view.gates
    BY <2>1, <2>2 DEF BitsBefore
  <2>4. QED
    BY <1>1, <2>3 DEF Shown
<1>3. QED
  BY <1>1, <1>2 DEF Clean, Highlighted, Verdict

\* Who sees every row of the stack pass and none highlighted sees an intent that
\* execute would admit now, and the other way round, in every state and for any
\* agent, order and policy; the headline says the same (previewIntent,
\* explainAdmission, GateStack, Verdict).
THEOREM PreviewCorrect == Spec => []CleanStackMeansAdmitted
<1>1. ASSUME NEW a, NEW i
      PROVE  /\ Clean(Preview(a, i)) <=> Admissible(a, i)
             /\ Clean(Preview(a, i)) <=> Verdict(Preview(a, i)) = "Admitted"
  <2>1. CASE Admissible(a, i)
    BY <2>1, PreviewAdmits, AdmissionShows
  <2>2. CASE ~ Admissible(a, i)
    BY <2>2, PreviewRefuses, RefusalShows
  <2>3. QED
    BY <2>1, <2>2
<1>2. CleanStackMeansAdmitted
  BY <1>1 DEF CleanStackMeansAdmitted, Clean
<1>3. QED
  BY <1>2, PTL

-----------------------------------------------------------------------------
(* The verdict of a watch round.                                           *)

Orders == Pools \X OrderIds
OnPool(m) == {o \in Orders : o[1] = PoolOf[m]}
TokenOf(m, side) == TokenId(PoolOf[m], GenOf[m], side)

\* What an order can still add to YES, or to NO, by filling or by coming back
Long == [o \in Orders |-> IF book[o].kind \in {"BUY_YES", "SELL_YES"}
                          THEN book[o].quantityRemaining ELSE 0]
Short == [o \in Orders |-> IF book[o].kind \in {"BUY_NO", "SELL_NO"}
                           THEN book[o].quantityRemaining ELSE 0]

LEMMA OrdersTyped ==
    ASSUME TypeOK
    PROVE  /\ IsFiniteSet(Orders)
           /\ \A m \in Markets : IsFiniteSet(OnPool(m)) /\ OnPool(m) \in SUBSET Orders
           /\ \A A \in SUBSET Orders : /\ IsFiniteSet(A)
                                       /\ Sum(Long, A) \in Nat /\ Sum(Short, A) \in Nat
           /\ \A o \in Orders : Long[o] \in Nat /\ Short[o] \in Nat /\ o = <<o[1], o[2]>>
           /\ \A m \in Markets, side \in Sides : bal[TokenOf(m, side)] \in Nat
<1>1. IsFiniteSet(Orders)
  <2>1. MaxOrders \in Nat /\ IsFiniteSet(Pools)
    BY VenueAssumption
  <2>2. IsFiniteSet(OrderIds)
    <3>1. 1 \in Int /\ MaxOrders \in Int
      BY <2>1
    <3>2. QED
      BY <3>1, FS_Interval DEF OrderIds
  <2>3. QED
    BY <2>1, <2>2, FS_Product DEF Orders
<1>2. \A o \in Orders : Long[o] \in Nat /\ Short[o] \in Nat /\ o = <<o[1], o[2]>>
  BY DEF TypeOK, VenueTypeOK, Orders, Long, Short, BookOrders
<1>3. ASSUME NEW A \in SUBSET Orders
      PROVE  IsFiniteSet(A) /\ Sum(Long, A) \in Nat /\ Sum(Short, A) \in Nat
  <2>1. IsFiniteSet(A)
    BY <1>1, FS_Subset
  <2>2. QED
    BY <1>2, <2>1, SumType
<1>4. \A m \in Markets : OnPool(m) \in SUBSET Orders
  BY DEF OnPool
<1>5. \A m \in Markets, side \in Sides : bal[TokenOf(m, side)] \in Nat
  BY VenueAssumption DEF TypeOK, VenueTypeOK, TokenOf, TokenId, TokenIds
<1>6. QED
  BY <1>1, <1>2, <1>3, <1>4, <1>5

\* What a step moves on a market it does not overtake: y tokens of YES and n of
\* NO arrive, each from an order that had them to give.
Settles(m, y, n) ==
    /\ bal'[TokenOf(m, "YES")] = bal[TokenOf(m, "YES")] + y
    /\ bal'[TokenOf(m, "NO")] = bal[TokenOf(m, "NO")] + n
    /\ \A o \in OnPool(m) : Long'[o] <= Long[o] /\ Short'[o] <= Short[o]
    /\ y # 0 => \E o \in OnPool(m) : Long'[o] + y <= Long[o]
    /\ n # 0 => \E o \in OnPool(m) : Short'[o] + n <= Short[o]

\* One order loses a part of what rests of it, and that part may become a token.
LEMMA OrderShrinks ==
    ASSUME TypeOK, TypeOK', NEW m \in Markets, poolNonce[PoolOf[m]] = GenOf[m],
           NEW o \in Orders, NEW q \in 1 .. book[o].quantityRemaining,
           book' = [book EXCEPT ![o] = Reduced(book[o], q)],
           NEW arrives \in {0, q},
           bal' = [bal EXCEPT ![TokenId(o[1], poolNonce[o[1]], SideOf(book[o].kind))] = @ + arrives]
    PROVE  \E y, n \in Nat : Settles(m, y, n)
<1> DEFINE side == SideOf(book[o].kind)
           token == TokenId(o[1], poolNonce[o[1]], side)
<1>1. /\ book[o] \in BookOrders /\ book \in [Orders -> BookOrders] /\ bal \in [TokenIds -> Nat]
      /\ o[1] \in Pools /\ poolNonce[o[1]] \in Gens /\ q \in Nat \ {0} /\ arrives \in Nat
  BY DEF TypeOK, VenueTypeOK, Orders
<1>2. \A other \in Orders : Long[other] \in Nat /\ Short[other] \in Nat
  BY OrdersTyped
<1>3. \A other \in Orders \ {o} : Long'[other] = Long[other] /\ Short'[other] = Short[other]
  BY <1>1 DEF Long, Short
<1>4. /\ side = "YES" => Long'[o] = Long[o] - q /\ Short'[o] = 0 /\ Short[o] = 0
      /\ side = "NO" => Short'[o] = Short[o] - q /\ Long'[o] = 0 /\ Long[o] = 0
      /\ side \in Sides
  <2>1. book'[o] = Reduced(book[o], q)
    BY <1>1
  <2>2. /\ book'[o].quantityRemaining = book[o].quantityRemaining - q
        /\ book'[o].quantityRemaining # 0 => book'[o].kind = book[o].kind
        /\ book[o].quantityRemaining \in Nat
    BY <1>1, <2>1 DEF Reduced, NoOrder, BookOrders
  <2>3. book[o].kind \in Kinds
    BY <1>1 DEF BookOrders
  <2>4. QED
    BY <2>2, <2>3 DEF Long, Short, SideOf, IsYes, Kinds, Sides
<1> HIDE DEF side
<1>5. \A other \in OnPool(m) : Long'[other] <= Long[other] /\ Short'[other] <= Short[other]
  <2>1. ASSUME NEW other \in Orders
        PROVE  Long'[other] <= Long[other] /\ Short'[other] <= Short[other]
    <3>1. Long[other] \in Nat /\ Short[other] \in Nat /\ Long[o] \in Nat /\ Short[o] \in Nat
      BY <1>2
    <3>2. QED
      BY <1>1, <1>3, <1>4, <3>1 DEF Sides
  <2>2. QED
    BY <2>1 DEF OnPool
<1>6. token \in TokenIds /\ TokenOf(m, "YES") \in TokenIds /\ TokenOf(m, "NO") \in TokenIds
  BY <1>1, <1>4, VenueAssumption DEF TokenOf, TokenId, TokenIds, Sides
<1>7. bal' = [bal EXCEPT ![token] = @ + arrives]
  BY DEF side
<1>8. CASE o[1] # PoolOf[m]
  <2>1. token # TokenOf(m, "YES") /\ token # TokenOf(m, "NO")
    BY <1>8 DEF TokenOf, TokenId
  <2>2. /\ bal'[TokenOf(m, "YES")] = bal[TokenOf(m, "YES")]
        /\ bal'[TokenOf(m, "NO")] = bal[TokenOf(m, "NO")]
        /\ bal[TokenOf(m, "YES")] \in Nat /\ bal[TokenOf(m, "NO")] \in Nat
    BY <1>1, <1>6, <1>7, <2>1
  <2>3. Settles(m, 0, 0)
    BY <1>5, <2>2 DEF Settles
  <2>4. QED
    BY <2>3
<1>9. CASE o[1] = PoolOf[m]
  <2>1. o \in OnPool(m) /\ token = TokenOf(m, side) /\ TokenOf(m, "YES") # TokenOf(m, "NO")
    BY <1>9 DEF OnPool, TokenOf, TokenId
  <2>2. CASE side = "YES"
    <3>1. /\ bal'[TokenOf(m, "YES")] = bal[TokenOf(m, "YES")] + arrives
          /\ bal'[TokenOf(m, "NO")] = bal[TokenOf(m, "NO")] + 0
      <4>1. /\ bal'[TokenOf(m, "YES")] = bal[TokenOf(m, "YES")] + arrives
            /\ bal'[TokenOf(m, "NO")] = bal[TokenOf(m, "NO")]
            /\ bal[TokenOf(m, "NO")] \in Nat
        BY <1>1, <1>6, <1>7, <2>1, <2>2
      <4>2. QED
        BY <4>1
    <3>2. Long'[o] + arrives <= Long[o]
      BY <1>1, <1>2, <1>4, <2>2
    <3>3. Settles(m, arrives, 0)
      BY <1>5, <2>1, <3>1, <3>2 DEF Settles
    <3>4. QED
      BY <1>1, <3>3
  <2>3. CASE side = "NO"
    <3>1. /\ bal'[TokenOf(m, "NO")] = bal[TokenOf(m, "NO")] + arrives
          /\ bal'[TokenOf(m, "YES")] = bal[TokenOf(m, "YES")] + 0
      <4>1. /\ bal'[TokenOf(m, "NO")] = bal[TokenOf(m, "NO")] + arrives
            /\ bal'[TokenOf(m, "YES")] = bal[TokenOf(m, "YES")]
            /\ bal[TokenOf(m, "YES")] \in Nat
        BY <1>1, <1>6, <1>7, <2>1, <2>3
      <4>2. QED
        BY <4>1
    <3>2. Short'[o] + arrives <= Short[o]
      BY <1>1, <1>2, <1>4, <2>3
    <3>3. Settles(m, 0, arrives)
      BY <1>5, <2>1, <3>1, <3>2 DEF Settles
    <3>4. QED
      BY <1>1, <3>3
  <2>4. QED
    BY <1>4, <2>2, <2>3 DEF Sides
<1>10. QED
  BY <1>8, <1>9

\* A step that leaves the book alone and does not overtake m moves nothing on m.
LEMMA NothingMoves ==
    ASSUME TypeOK, NEW m \in Markets, book' = book, ~Overtakes(m)
    PROVE  \E y, n \in Nat : Settles(m, y, n)
<1>1. /\ bal'[TokenOf(m, "YES")] = bal[TokenOf(m, "YES")] /\ bal[TokenOf(m, "YES")] \in Nat
      /\ bal'[TokenOf(m, "NO")] = bal[TokenOf(m, "NO")] /\ bal[TokenOf(m, "NO")] \in Nat
  BY OrdersTyped DEF Overtakes, TokenOf, Sides
<1>2. \A o \in OnPool(m) : /\ Long'[o] = Long[o] /\ Short'[o] = Short[o]
                           /\ Long[o] \in Nat /\ Short[o] \in Nat
  BY OrdersTyped DEF Long, Short, OnPool
<1>3. Settles(m, 0, 0)
  BY <1>1, <1>2 DEF Settles
<1>4. QED
  BY <1>3

\* Whatever happens between two reads, a market that is not overtaken only
\* sees its resting orders turn into its tokens.
LEMMA StepSettles ==
    ASSUME TypeInv, TypeInv', BooksInv, Next, NEW m \in Markets, ~Overtakes(m),
           poolNonce[PoolOf[m]] = GenOf[m]
    PROVE  \E y, n \in Nat : Settles(m, y, n)
<1>1. TypeOK /\ TypeOK' /\ PastMarketsOver /\ PinnedToItsGeneration
  BY DEF TypeInv, BooksInv
<1>2. ASSUME NEW p \in Pools, NEW id \in OrderIds, NEW n \in 1 .. LiveRemaining(p, id),
             ExternalFill(p, id, n)
      PROVE  \E y, k \in Nat : Settles(m, y, k)
  <2> DEFINE o == <<p, id>>
  <2>1. /\ o \in Orders /\ o[1] = p /\ n \in 1 .. book[o].quantityRemaining
        /\ book' = [book EXCEPT ![o] = Reduced(book[o], n)]
    BY <1>2 DEF Orders, LiveRemaining, ExternalFill
  <2>2. n \in Nat /\ TokenId(p, poolNonce[p], SideOf(book[o].kind)) \in TokenIds /\ bal \in [TokenIds -> Nat]
    <3>1. poolNonce[p] \in Gens /\ SideOf(book[o].kind) \in Sides /\ bal \in [TokenIds -> Nat]
      BY <1>1 DEF TypeOK, VenueTypeOK, SideOf, Sides
    <3>2. TokenId(p, poolNonce[p], SideOf(book[o].kind)) \in TokenIds
      BY <3>1 DEF TokenId, TokenIds
    <3>3. n \in Nat
      BY <1>1, <2>1, OrdersTyped
    <3>4. QED
      BY <3>1, <3>2, <3>3
  <2>3. CASE IsBuy(book[o].kind)
    <3>1. bal' = [bal EXCEPT ![TokenId(p, poolNonce[p], SideOf(book[o].kind))] = @ + n]
      BY <1>2, <2>3 DEF ExternalFill
    <3>2. QED
      BY <1>1, <2>1, <3>1, OrderShrinks
  <2>4. CASE ~IsBuy(book[o].kind)
    <3>1. bal' = bal
      BY <1>2, <2>4 DEF ExternalFill
    <3>2. bal' = [bal EXCEPT ![TokenId(p, poolNonce[p], SideOf(book[o].kind))] = @ + 0]
      BY <2>2, <3>1
    <3>3. QED
      BY <1>1, <2>1, <3>2, OrderShrinks
  <2>5. QED
    BY <2>3, <2>4
<1>3. ASSUME NEW p \in Pools, NEW id \in OrderIds, RemoveOrder(p, id)
      PROVE  \E y, k \in Nat : Settles(m, y, k)
  <2> DEFINE o == <<p, id>>
             q == book[o].quantityRemaining
  <2>1. o \in Orders /\ o[1] = p /\ book[o] \in BookOrders
    BY <1>1 DEF Orders, TypeOK, VenueTypeOK
  <2>2. q \in 1 .. q /\ q \in Nat
    BY <1>3, <2>1 DEF RemoveOrder, BookOrders
  <2>3. book' = [book EXCEPT ![o] = Reduced(book[o], q)]
    BY <1>3 DEF RemoveOrder, Reduced
  <2>4. TokenId(p, poolNonce[p], SideOf(book[o].kind)) \in TokenIds /\ bal \in [TokenIds -> Nat]
    BY <1>1, <2>1 DEF TypeOK, VenueTypeOK, TokenId, TokenIds, SideOf, Sides
  <2>5. CASE IsBuy(book[o].kind)
    <3>1. bal' = bal
      BY <1>3, <2>5 DEF RemoveOrder
    <3>2. bal' = [bal EXCEPT ![TokenId(p, poolNonce[p], SideOf(book[o].kind))] = @ + 0]
      BY <2>4, <3>1
    <3>3. QED
      BY <1>1, <2>1, <2>2, <2>3, <3>2, OrderShrinks
  <2>6. CASE ~IsBuy(book[o].kind)
    <3>1. bal' = [bal EXCEPT ![TokenId(p, poolNonce[p], SideOf(book[o].kind))] = @ + q]
      BY <1>3, <2>6 DEF RemoveOrder
    <3>2. QED
      BY <1>1, <2>1, <2>2, <2>3, <3>1, OrderShrinks
  <2>7. QED
    BY <2>5, <2>6
<1>4. ASSUME NEW a \in Agents, NEW i \in NoncedIntents, Execute(a, i)
      PROVE  \E y, k \in Nat : Settles(m, y, k)
  <2>1. PICK filled \in 0 .. i.quantity, resting \in 0 .. i.quantity,
             collOut \in 0 .. ReserveRequired(i) :
                PlaceAndReconcile(a, i, filled, resting, collOut)
    BY <1>4 DEF Execute
  <2>2. PlaceBinaryOrder(i, filled, resting, collOut)
    BY <2>1 DEF PlaceAndReconcile
  <2>3. i.pool \in Pools /\ nextId \in [Pools -> 1 .. MaxOrders + 1] /\ PoolOf[m] \in Pools
    BY <1>1, IntentFields, VenueAssumption DEF TypeOK, VenueTypeOK
  <2>4. nextId'[i.pool] = nextId[i.pool] + 1 /\ nextId[i.pool] \in Nat
    BY <2>2, <2>3, VenueAssumption DEF PlaceBinaryOrder
  <2>5. i.pool # PoolOf[m]
    BY <2>4 DEF Overtakes
  <2>6. \A o \in OnPool(m) : book'[o] = book[o]
    <3>1. book \in [Orders -> BookOrders]
      BY <1>1 DEF TypeOK, VenueTypeOK, Orders
    <3>2. \A o \in OnPool(m) : o \in Orders /\ o # <<i.pool, nextId[i.pool]>>
      BY <2>5 DEF OnPool
    <3>3. QED
      BY <2>2, <3>1, <3>2 DEF PlaceBinaryOrder
  <2>7. \A o \in OnPool(m) : /\ Long'[o] = Long[o] /\ Short'[o] = Short[o]
                             /\ Long[o] \in Nat /\ Short[o] \in Nat
    BY <1>1, <2>6, OrdersTyped DEF Long, Short, OnPool
  <2>8. \A side \in Sides : bal'[TokenOf(m, side)] = bal[TokenOf(m, side)] /\ bal[TokenOf(m, side)] \in Nat
    <3>1. bal \in [TokenIds -> Nat] /\ \A side \in Sides : TokenOf(m, side) \in TokenIds
      BY <1>1, VenueAssumption DEF TypeOK, VenueTypeOK, TokenOf, TokenId, TokenIds
    <3>2. \A side \in Sides : TokenOf(m, side) # TokenId(i.pool, poolNonce[i.pool], SideOf(i.kind))
      BY <2>5 DEF TokenOf, TokenId
    <3>3. CASE IsBuy(i.kind)
      BY <2>2, <3>1, <3>2, <3>3 DEF PlaceBinaryOrder
    <3>4. CASE ~IsBuy(i.kind)
      BY <2>2, <3>1, <3>2, <3>4 DEF PlaceBinaryOrder
    <3>5. QED
      BY <3>3, <3>4
  <2>9. Settles(m, 0, 0)
    BY <2>7, <2>8 DEF Settles, Sides
  <2>10. QED
    BY <2>9
<1>5. ASSUME book' = book
      PROVE  \E y, k \in Nat : Settles(m, y, k)
  BY <1>1, <1>5, NothingMoves
<1>6. CASE AgentNext
  <2>1. PICK a \in Agents, i \in Intents, n \in 1 .. MaxNonce : Execute(a, WithNonce(i, n))
    BY <1>6 DEF AgentNext
  <2>2. WithNonce(i, n) \in NoncedIntents
    BY IntentsTyped
  <2>3. QED
    BY <1>4, <2>1, <2>2
<1>7. CASE LifecycleNext
  <2>1. book' = book
    BY <1>7 DEF LifecycleNext, ReleaseOrder, ReleaseSettled, PruneMarket, venueVars
  <2>2. QED
    BY <1>5, <2>1
<1>8. CASE OwnerNext
  <2>1. CASE \E p \in Pools, id \in OrderIds : CancelOrder(p, id)
    BY <1>3, <2>1 DEF CancelOrder
  <2>2. CASE ~(\E p \in Pools, id \in OrderIds : CancelOrder(p, id))
    <3>1. book' = book
      BY <1>8, <2>2 DEF OwnerNext, SetGlobalPolicy, SetDomainPolicy, SetAgent, RevokeAgent,
         Fund, SetCapitalBase, Withdraw, WithdrawOutcome, Redeem, venueVars
    <3>2. QED
      BY <1>5, <3>1
  <2>3. QED
    BY <2>1, <2>2
<1>9. CASE VenueNext
  <2>1. CASE book' = book
    BY <1>5, <2>1
  <2>2. CASE book' # book
    BY <1>2, <1>3, <1>9, <2>2 DEF VenueNext, Finalize, Settle, Roll, DepositOutcome, Tick
  <2>3. QED
    BY <2>1, <2>2
<1>10. QED
  BY <1>6, <1>7, <1>8, <1>9 DEF Next

\* What rests on a charged market is within the contract's figure, both ways.
LEMMA RestsWithinCharge ==
    ASSUME BooksInv, NEW m \in Markets, Charged(m), poolNonce[PoolOf[m]] = GenOf[m]
    PROVE  /\ bal[TokenOf(m, "YES")] - bal[TokenOf(m, "NO")] + Sum(Long, OnPool(m))
                <= MarketWorstCaseExposure(m)
           /\ -MarketWorstCaseExposure(m)
                <= bal[TokenOf(m, "YES")] - bal[TokenOf(m, "NO")] - Sum(Short, OnPool(m))
<1> DEFINE Part(kind) == {o \in RestingOn(m) : book[o].kind = kind}
           rest == [o \in Orders |-> book[o].quantityRemaining]
           open == marketState[m].open
<1>1. TypeOK /\ marketState[m].pool = PoolOf[m] /\ marketState[m].marketNonce = GenOf[m]
  BY DEF BooksInv, TypeInv, PinnedToItsGeneration, Charged
<1>2. \A o \in Orders : book[o] \in BookOrders /\ rest[o] = book[o].quantityRemaining
  BY <1>1 DEF TypeOK, VenueTypeOK, Orders
<1>3. ASSUME NEW kind \in Kinds
      PROVE  /\ IsFiniteSet(Part(kind)) /\ \A o \in Part(kind) : rest[o] \in Nat
             /\ Sum(rest, Part(kind)) <= open[kind] /\ open[kind] \in Nat
             /\ Sum(rest, Part(kind)) \in Nat
  <2>1. RestingPart(m, kind, Part(kind), rest)
    BY <1>2 DEF RestingPart, RestingOn, Resting, Orders
  <2> HIDE DEF Part, rest
  <2>2. QED
    BY <2>1, RestsWithinOpen
<1>4. ASSUME NEW k1 \in Kinds, NEW k2 \in Kinds, NEW f,
             f = [o \in Orders |-> IF book[o].kind \in {k1, k2} THEN book[o].quantityRemaining ELSE 0]
      PROVE  Sum(f, OnPool(m)) <= open[k1] + open[k2]
  <2> DEFINE S == {o \in OnPool(m) : f[o] # 0}
             U == Part(k1) \cup Part(k2)
  <2>1. Sum(f, OnPool(m)) = Sum(f, S)
    BY SumWithoutZeros
  <2>2. ASSUME NEW o \in S
        PROVE  o \in U /\ f[o] = rest[o]
    <3>1. o \in Orders /\ o[1] = PoolOf[m] /\ f[o] # 0
      BY DEF OnPool
    <3>2. f[o] = IF book[o].kind \in {k1, k2} THEN book[o].quantityRemaining ELSE 0
      BY <1>4, <3>1
    <3>3. book[o].kind \in {k1, k2} /\ book[o].quantityRemaining # 0 /\ f[o] = rest[o]
      BY <1>2, <3>1, <3>2
    <3>4. o \in RestingOn(m)
      BY <1>1, <3>1, <3>3 DEF RestingOn, Resting, Orders
    <3>5. QED
      BY <3>3, <3>4
  <2>3. IsFiniteSet(U) /\ \A o \in U : rest[o] \in Nat
    <3> HIDE DEF Part, rest
    <3>1. QED
      BY <1>3, FS_Union
  <2>4. Sum(f, S) <= Sum(rest, U)
    <3>1. S \in SUBSET U /\ \A o \in S : f[o] \in Nat /\ f[o] <= rest[o]
      <4> HIDE DEF S, U, rest
      <4>1. QED
        BY <2>2, <2>3
    <3> HIDE DEF S, U, rest
    <3>2. QED
      BY <2>3, <3>1, SumMonotone
  <2>5. Sum(rest, U) <= Sum(rest, Part(k1)) + Sum(rest, Part(k2))
    <3> HIDE DEF Part, rest
    <3>1. QED
      BY <1>3, SumOfUnion
  <2>6. Sum(f, S) \in Nat /\ Sum(rest, U) \in Nat
    <3>1. IsFiniteSet(S) /\ \A o \in S : f[o] \in Nat
      <4>1. S \subseteq U
        BY <2>2
      <4> HIDE DEF S, U, rest
      <4>2. QED
        BY <2>2, <2>3, <4>1, FS_Subset
    <3> HIDE DEF S, U, rest
    <3>2. QED
      BY <2>3, <3>1, SumType
  <2> HIDE DEF S, U, Part, rest
  <2>7. QED
    BY <1>3, <2>1, <2>4, <2>5, <2>6
<1>5. /\ Sum(Long, OnPool(m)) <= open["BUY_YES"] + open["SELL_YES"]
      /\ Sum(Short, OnPool(m)) <= open["BUY_NO"] + open["SELL_NO"]
  BY <1>4 DEF Long, Short, Kinds
<1>6. MarketWorstCaseExposure(m) =
        WorstCase(Realized(m) + open["BUY_YES"] + open["SELL_YES"], Realized(m) - open["BUY_NO"] - open["SELL_NO"])
  BY DEF MarketWorstCaseExposure, Charged, Up, Dn, UpperBound, LowerBound
<1>7. Realized(m) = bal[TokenOf(m, "YES")] - bal[TokenOf(m, "NO")] /\ Realized(m) \in Int
  BY <1>1, RiskType DEF Realized, TokenOf
<1>8. /\ open["BUY_YES"] \in Nat /\ open["SELL_YES"] \in Nat /\ open["BUY_NO"] \in Nat /\ open["SELL_NO"] \in Nat
      /\ Sum(Long, OnPool(m)) \in Nat /\ Sum(Short, OnPool(m)) \in Nat
  <2>1. OnPool(m) \in SUBSET Orders
    BY DEF OnPool
  <2>2. QED
    BY <1>1, <1>3, <2>1, OrdersTyped DEF Kinds
<1> HIDE DEF open
<1>9. QED
  BY <1>5, <1>6, <1>7, <1>8 DEF WorstCase, Larger, Abs

-----------------------------------------------------------------------------
(* The round's inductive invariant.                                        *)

Rounds ==
    [stage : {"idle", "domains", "market", "figures", "stopped"},
     domains : SUBSET Domains, markets : Seq(Markets), index : SUBSET Orders,
     accounted : Nat, unread : SUBSET Sides, held : [Sides -> Nat],
     left : SUBSET Orders, live : [Kinds -> Nat],
     moved : SUBSET Markets, accused : SUBSET Markets]

RoundTypeOK == round \in Rounds

\* A balance as the verdict will take it: as read, or as it is now.
Taken(m, side) == IF side \in round.unread THEN bal[TokenOf(m, side)] ELSE round.held[side]

\* The orders that still count: all while a balance is to come, then those that
\* are still to be looked up.
Awaited(m) == IF round.unread # {} THEN OnPool(m) ELSE round.left

Highest(m) == Taken(m, "YES") - Taken(m, "NO") + round.live["BUY_YES"] + round.live["SELL_YES"]
                + Sum(Long, Awaited(m))
Lowest(m) == Taken(m, "YES") - Taken(m, "NO") - round.live["BUY_NO"] - round.live["SELL_NO"]
               - Sum(Short, Awaited(m))

\* Nothing of m rests or is held.
Empty(m) ==
    /\ \A side \in Sides : bal[TokenOf(m, side)] = 0
    /\ \A o \in OnPool(m) : book[o].quantityRemaining = 0

\* The contract's figure for m is still to be read, or has been read and bounds
\* whatever the reads that are left can find.
Bounded(m) ==
    CASE round.stage = "market" ->
            ~marketState[m].settled /\ (marketState[m].tracked \/ Empty(m))
      [] round.stage = "figures" ->
            Highest(m) <= round.accounted /\ -round.accounted <= Lowest(m)
      [] OTHER -> TRUE

RoundInv ==
    /\ CeilingInv
    /\ RoundTypeOK
    /\ round.accused \subseteq round.moved
    /\ UnderWay => \A m \in Markets \ round.moved : poolNonce[PoolOf[m]] = GenOf[m]
    /\ round.stage \in {"market", "figures"} => round.markets # <<>>
    /\ round.stage = "figures" => round.left \subseteq OnPool(Current)
    /\ round.stage \in {"market", "figures"} /\ Current \notin round.moved => Bounded(Current)

LEMMA RoundTyped ==
    ASSUME RoundInv
    PROVE  /\ TypeOK /\ TypeInv /\ BooksInv
           /\ round.stage \in {"market", "figures"} => Current \in Markets
           /\ \A m \in Markets, side \in Sides : Taken(m, side) \in Nat
           /\ \A kind \in Kinds : round.live[kind] \in Nat
           /\ \A m \in Markets : Awaited(m) \in SUBSET Orders
           /\ round.accounted \in Nat
<1>1. TypeOK /\ TypeInv /\ BooksInv /\ RoundTypeOK
  BY DEF RoundInv, CeilingInv, BooksInv, TypeInv
<1>2. \A m \in Markets, side \in Sides : Taken(m, side) \in Nat
  BY <1>1, OrdersTyped DEF Taken, RoundTypeOK, Rounds
<1>3. \A m \in Markets : Awaited(m) \in SUBSET Orders
  BY <1>1 DEF Awaited, OnPool, RoundTypeOK, Rounds
<1>4. round.stage \in {"market", "figures"} => Current \in Markets
  <2>1. ASSUME round.markets \in Seq(Markets), round.markets # <<>>
        PROVE  Head(round.markets) \in Markets
    BY <2>1
  <2>2. QED
    BY <1>1, <2>1 DEF RoundInv, RoundTypeOK, Rounds, Current
<1>5. QED
  BY <1>1, <1>2, <1>3, <1>4 DEF RoundTypeOK, Rounds

\* A step of the contract or the venue keeps the bound on a market it does not
\* overtake.
LEMMA BoundKept ==
    ASSUME RoundInv, CeilingInv', Next, round.stage \in {"market", "figures"},
           NEW m \in Markets, m = Current, m \notin round.moved, ~Overtakes(m),
           round' = [round EXCEPT !.moved = @ \cup {k \in Markets : Overtakes(k)}]
    PROVE  Bounded(m)'
<1>1. /\ m \in Markets /\ TypeInv /\ TypeInv' /\ TypeOK /\ TypeOK' /\ BooksInv
      /\ poolNonce[PoolOf[m]] = GenOf[m] /\ Bounded(m) /\ RoundTypeOK
      /\ \A side \in Sides : Taken(m, side) \in Nat
      /\ Awaited(m) \in SUBSET Orders /\ round.accounted \in Nat
      /\ \A kind \in Kinds : round.live[kind] \in Nat
  BY RoundTyped DEF RoundInv, CeilingInv, BooksInv, TypeInv, UnderWay
<1>2. PICK y \in Nat, n \in Nat : Settles(m, y, n)
  BY <1>1, StepSettles
<1>3. /\ round'.stage = round.stage /\ round'.accounted = round.accounted
      /\ round'.unread = round.unread /\ round'.held = round.held /\ round'.left = round.left
      /\ round'.live = round.live
  BY <1>1 DEF RoundTypeOK, Rounds
<1>4. \A o \in OnPool(m) : /\ Long[o] \in Nat /\ Short[o] \in Nat /\ Long'[o] \in Nat /\ Short'[o] \in Nat
                           /\ Long'[o] <= Long[o] /\ Short'[o] <= Short[o]
  <2>1. \A o \in Orders : Long[o] \in Nat /\ Short[o] \in Nat
    BY <1>1, OrdersTyped
  <2>2. \A o \in Orders : Long'[o] \in Nat /\ Short'[o] \in Nat
    BY <1>1 DEF TypeOK, VenueTypeOK, Orders, Long, Short, BookOrders
  <2>3. QED
    BY <1>2, <2>1, <2>2 DEF Settles, OnPool
<1>5. ASSUME NEW A \in SUBSET OnPool(m)
      PROVE  /\ Sum(Long', A) <= Sum(Long, A) /\ Sum(Short', A) <= Sum(Short, A)
             /\ Sum(Long', A) \in Nat /\ Sum(Short', A) \in Nat
             /\ Sum(Long, A) \in Nat /\ Sum(Short, A) \in Nat
  <2>1. IsFiniteSet(A)
    BY <1>1, OrdersTyped, FS_Subset
  <2>2. \A o \in A : /\ Long[o] \in Nat /\ Short[o] \in Nat /\ Long'[o] \in Nat /\ Short'[o] \in Nat
                     /\ Long'[o] <= Long[o] /\ Short'[o] <= Short[o]
    BY <1>4
  <2>3. A \in SUBSET A
    OBVIOUS
  <2>4. QED
    BY <2>1, <2>2, <2>3, SumMonotone, SumType
<1>6. Sum(Long', OnPool(m)) + y <= Sum(Long, OnPool(m))
  <2>1. OnPool(m) \in SUBSET OnPool(m) /\ IsFiniteSet(OnPool(m))
    BY <1>1, OrdersTyped
  <2>2. CASE y = 0
    BY <1>5, <2>1, <2>2
  <2>3. CASE y # 0
    <3>1. PICK o \in OnPool(m) : Long'[o] + y <= Long[o]
      BY <1>2, <2>3 DEF Settles
    <3>2. OnPool(m) \ {o} \in SUBSET OnPool(m)
      OBVIOUS
    <3>3. /\ Sum(Long, OnPool(m)) = Sum(Long, OnPool(m) \ {o}) + Long[o]
          /\ Sum(Long', OnPool(m)) = Sum(Long', OnPool(m) \ {o}) + Long'[o]
      BY <1>4, <2>1, SumRemove
    <3>4. QED
      BY <1>4, <1>5, <3>1, <3>2, <3>3
  <2>4. QED
    BY <2>2, <2>3
<1>7. Sum(Short', OnPool(m)) + n <= Sum(Short, OnPool(m))
  <2>1. OnPool(m) \in SUBSET OnPool(m) /\ IsFiniteSet(OnPool(m))
    BY <1>1, OrdersTyped
  <2>2. CASE n = 0
    BY <1>5, <2>1, <2>2
  <2>3. CASE n # 0
    <3>1. PICK o \in OnPool(m) : Short'[o] + n <= Short[o]
      BY <1>2, <2>3 DEF Settles
    <3>2. OnPool(m) \ {o} \in SUBSET OnPool(m)
      OBVIOUS
    <3>3. /\ Sum(Short, OnPool(m)) = Sum(Short, OnPool(m) \ {o}) + Short[o]
          /\ Sum(Short', OnPool(m)) = Sum(Short', OnPool(m) \ {o}) + Short'[o]
      BY <1>4, <2>1, SumRemove
    <3>4. QED
      BY <1>4, <1>5, <3>1, <3>2, <3>3
  <2>4. QED
    BY <2>2, <2>3
<1>8. OnPool(m)' = OnPool(m) /\ TokenOf(m, "YES")' = TokenOf(m, "YES") /\ TokenOf(m, "NO")' = TokenOf(m, "NO")
  BY <1>3 DEF OnPool, TokenOf, TokenId
<1>9. CASE round.stage = "figures"
  <2> DEFINE L == Sum(Long, Awaited(m))
             S == Sum(Short, Awaited(m))
             L2 == Sum(Long', Awaited(m)')
             S2 == Sum(Short', Awaited(m)')
             yes == Taken(m, "YES")
             no == Taken(m, "NO")
             yes2 == Taken(m, "YES")'
             no2 == Taken(m, "NO")'
  <2>1. Awaited(m)' = Awaited(m) /\ Awaited(m) \in SUBSET OnPool(m)
    BY <1>3, <1>8, <1>9 DEF Awaited, RoundInv
  <2>2. /\ L \in Nat /\ S \in Nat /\ L2 \in Nat /\ S2 \in Nat /\ L2 <= L /\ S2 <= S
        /\ round.unread # {} => L2 + y <= L /\ S2 + n <= S
    BY <1>5, <1>6, <1>7, <1>8, <2>1 DEF Awaited
  <2>3. /\ yes \in Nat /\ no \in Nat
        /\ yes2 = yes \/ (round.unread # {} /\ yes2 = yes + y)
        /\ no2 = no \/ (round.unread # {} /\ no2 = no + n)
    BY <1>1, <1>2, <1>3, <1>8 DEF Taken, Settles, Sides
  <2>4. /\ Highest(m) = yes - no + round.live["BUY_YES"] + round.live["SELL_YES"] + L
        /\ Lowest(m) = yes - no - round.live["BUY_NO"] - round.live["SELL_NO"] - S
        /\ Highest(m)' = yes2 - no2 + round.live["BUY_YES"] + round.live["SELL_YES"] + L2
        /\ Lowest(m)' = yes2 - no2 - round.live["BUY_NO"] - round.live["SELL_NO"] - S2
    BY <1>3 DEF Highest, Lowest
  <2>5. Highest(m) <= round.accounted /\ -round.accounted <= Lowest(m)
    BY <1>1, <1>9 DEF Bounded
  <2>6. /\ round.live["BUY_YES"] \in Nat /\ round.live["SELL_YES"] \in Nat
        /\ round.live["BUY_NO"] \in Nat /\ round.live["SELL_NO"] \in Nat
    BY <1>1 DEF Kinds
  <2> HIDE DEF L, S, L2, S2, yes, no, yes2, no2
  <2>7. Highest(m)' <= round.accounted /\ -round.accounted <= Lowest(m)'
    BY <1>1, <2>2, <2>3, <2>4, <2>5, <2>6
  <2>8. QED
    BY <1>3, <1>9, <2>7 DEF Bounded
<1>10. CASE round.stage = "market"
  <2>1. ~marketState[m].settled /\ (marketState[m].tracked \/ Empty(m))
    BY <1>1, <1>10 DEF Bounded
  <2>2. marketState'[m].settled = marketState[m].settled
    BY DEF Overtakes
  <2>3. ASSUME ~marketState[m].tracked
        PROVE  Empty(m)'
    <3>1. Empty(m)
      BY <2>1, <2>3
    <3>2. \A o \in OnPool(m) : Long[o] = 0 /\ Short[o] = 0
      BY <3>1 DEF Empty, Long, Short, OnPool
    <3>3. y = 0 /\ n = 0
      BY <1>2, <1>4, <3>2 DEF Settles
    <3>4. \A side \in Sides : bal'[TokenOf(m, side)] = 0
      BY <1>2, <3>1, <3>3 DEF Settles, Empty, Sides
    <3>5. \A o \in OnPool(m) : book'[o].quantityRemaining = 0
      <4> SUFFICES ASSUME NEW o \in OnPool(m) PROVE book'[o].quantityRemaining = 0
        OBVIOUS
      <4>1. Long'[o] = 0 /\ Short'[o] = 0 /\ o \in Orders
        BY <1>4, <3>2 DEF OnPool
      <4>2. book'[o] \in BookOrders
        BY <1>1, <4>1 DEF TypeOK, VenueTypeOK, Orders
      <4>3. QED
        BY <4>1, <4>2 DEF Long, Short, BookOrders, Kinds
    <3>6. QED
      BY <1>3, <1>8, <3>4, <3>5 DEF Empty, TokenOf
  <2>4. ASSUME marketState[m].tracked, ~marketState'[m].tracked
        PROVE  Empty(m)'
    <3>1. PICK n0 \in Markets : PruneMarket(n0)
      <4>1. ASSUME NEW a \in Agents, NEW i \in NoncedIntents, Execute(a, i)
            PROVE  marketState'[m].tracked
        <5>1. PICK filled \in 0 .. i.quantity, resting \in 0 .. i.quantity,
                   collOut \in 0 .. ReserveRequired(i) :
                      PlaceAndReconcile(a, i, filled, resting, collOut)
          BY <4>1 DEF Execute
        <5>2. i.market \in Markets /\ marketState[i.market] \in MarketStates
          BY <1>1, IntentFields DEF TypeOK
        <5>3. marketState' = [marketState EXCEPT ![i.market] =
                                 [Pinned(i) EXCEPT !.open = ReservedOpen(i, resting)]]
          BY <5>1 DEF PlaceAndReconcile
        <5>4. QED
          BY <1>1, <2>4, <5>2, <5>3 DEF TypeOK, Pinned, MarketStates
      <4>2. ASSUME NEW key \in OrderKeys, ReleaseOrder(key)
            PROVE  marketState'[m].tracked
        <5> DEFINE o == orderRec[key]
        <5>1. o.market \in Markets /\ o.kind \in Kinds
          BY <1>1, <4>2, RecordFields DEF ReleaseOrder
        <5>2. \E x : marketState' = [marketState EXCEPT ![o.market].open[o.kind] = x]
          BY <4>2 DEF ReleaseOrder
        <5> HIDE DEF o
        <5>3. QED
          BY <1>1, <2>4, <5>1, <5>2 DEF TypeOK, MarketStates
      <4>3. ASSUME NEW k \in Markets, ReleaseSettled(k)
            PROVE  marketState'[m].tracked
        <5>1. marketState' = [marketState EXCEPT ![k] =
                 [marketState[k] EXCEPT !.open = NoReservation, !.settled = TRUE]]
          BY <4>3 DEF ReleaseSettled
        <5>2. marketState[k] \in MarketStates
          BY <1>1 DEF TypeOK
        <5>3. QED
          BY <1>1, <2>4, <5>1, <5>2 DEF TypeOK, MarketStates
      <4>4. CASE ~AgentNext /\ ~LifecycleNext
        <5>1. UNCHANGED marketState
          BY <4>4 DEF Next, OwnerNext, SetGlobalPolicy, SetDomainPolicy, SetAgent, RevokeAgent,
             Fund, SetCapitalBase, Withdraw, WithdrawOutcome, CancelOrder, Redeem,
             portfolioVars, marketVars
        <5>2. QED
          BY <2>4, <5>1
      <4>5. CASE AgentNext
        <5>1. PICK a \in Agents, i \in Intents, k \in 1 .. MaxNonce : Execute(a, WithNonce(i, k))
          BY <4>5 DEF AgentNext
        <5>2. WithNonce(i, k) \in NoncedIntents
          BY IntentsTyped
        <5>3. QED
          BY <2>4, <4>1, <5>1, <5>2
      <4>6. QED
        BY <2>4, <4>2, <4>3, <4>4, <4>5 DEF LifecycleNext
    <3>2. n0 = m
      <4>1. marketState' = [marketState EXCEPT ![n0] = [marketState[n0] EXCEPT !.tracked = FALSE]]
        BY <3>1 DEF PruneMarket
      <4>2. QED
        BY <1>1, <2>4, <4>1 DEF TypeOK
    <3>3. /\ marketState[m].open = NoReservation /\ UNCHANGED <<book, bal>>
          /\ ~(Holds(m, "YES") \/ Holds(m, "NO"))
      BY <2>1, <3>1, <3>2 DEF PruneMarket, venueVars
    <3>4. Charged(m) /\ marketState[m].pool = PoolOf[m] /\ marketState[m].marketNonce = GenOf[m]
      BY <1>1, <2>1, <2>4 DEF Charged, BooksInv, PinnedToItsGeneration
    <3>5. \A side \in Sides : bal[TokenOf(m, side)] = 0
      BY <3>3, <3>4 DEF Holds, TokenOf, Sides
    <3>6. \A o \in OnPool(m) : book[o].quantityRemaining = 0
      <4> SUFFICES ASSUME NEW o \in OnPool(m), book[o].quantityRemaining # 0 PROVE FALSE
        OBVIOUS
      <4>1. o \in RestingOn(m) /\ book[o].kind \in Kinds /\ book[o].quantityRemaining \in Nat
        BY <1>1, <3>4 DEF OnPool, RestingOn, Resting, Orders, TypeOK, VenueTypeOK, BookOrders
      <4> DEFINE kind == book[o].kind
                 rests == [x \in {o} |-> book[x].quantityRemaining]
      <4>2. RestingPart(m, kind, {o}, rests)
        BY <4>1 DEF RestingPart
      <4>3. rests[o] = book[o].quantityRemaining
        OBVIOUS
      <4> HIDE DEF rests, kind
      <4>4. kind \in Kinds
        BY <4>1 DEF kind
      <4>5. Sum(rests, {o}) <= marketState[m].open[kind] /\ \A x \in {o} : rests[x] \in Nat
        BY <1>1, <3>4, <4>2, <4>4, RestsWithinOpen
      <4>6. Sum(rests, {o}) = Sum(rests, {o} \ {o}) + rests[o]
        BY <4>5, FS_Singleton, SumRemove
      <4>7. Sum(rests, {o} \ {o}) = 0
        <5>1. {o} \ {o} = {}
          OBVIOUS
        <5>2. QED
          BY <5>1, SumEmpty
      <4>8. marketState[m].open[kind] = 0
        BY <3>3, <4>4 DEF NoReservation
      <4>9. QED
        BY <4>1, <4>3, <4>5, <4>6, <4>7, <4>8
    <3>7. QED
      BY <1>3, <1>8, <3>3, <3>5, <3>6 DEF Empty, TokenOf
  <2>5. QED
    BY <1>3, <1>10, <2>1, <2>2, <2>3, <2>4 DEF Bounded
<1>11. QED
  BY <1>9, <1>10

\* The bounds a read leaves untouched: nothing of the chain moves with it.
LEMMA ReadKeeps ==
    ASSUME UNCHANGED vars
    PROVE  /\ Long' = Long /\ Short' = Short /\ \A m \in Markets : OnPool(m)' = OnPool(m)
           /\ \A m \in Markets, side \in Sides : bal'[TokenOf(m, side)] = bal[TokenOf(m, side)]
           /\ \A m \in Markets : Charged(m)' = Charged(m)
           /\ UNCHANGED <<poolNonce, nextId, marketState, bal, book>>
BY DEF vars, venueVars, portfolioVars, marketVars, Long, Short, OnPool, Charged

\* The orders counted for less, or not at all, bring the ends no further out.
LEMMA FewerAwaited ==
    ASSUME TypeOK, NEW A \in SUBSET Orders, NEW B \in SUBSET A
    PROVE  /\ Sum(Long, B) <= Sum(Long, A) /\ Sum(Short, B) <= Sum(Short, A)
           /\ Sum(Long, A) \in Nat /\ Sum(Short, A) \in Nat
           /\ Sum(Long, B) \in Nat /\ Sum(Short, B) \in Nat
<1>1. /\ IsFiniteSet(A) /\ B \in SUBSET Orders
      /\ \A o \in A : Long[o] \in Nat /\ Short[o] \in Nat /\ Long[o] <= Long[o] /\ Short[o] <= Short[o]
  BY OrdersTyped
<1>2. Sum(Long, B) <= Sum(Long, A) /\ Sum(Short, B) <= Sum(Short, A)
  BY <1>1, SumMonotone
<1>3. QED
  BY <1>1, <1>2, OrdersTyped

LEMMA IdleTyped == Idle \in Rounds
<1>1. Idle.held \in [Sides -> Nat] /\ Idle.live \in [Kinds -> Nat] /\ <<>> \in Seq(Markets)
  BY DEF Idle
<1>2. /\ [side \in Sides |-> 0] \in [Sides -> Nat]
      /\ [kind \in Kinds |-> 0] \in [Kinds -> Nat]
  OBVIOUS
<1>3. QED
  BY <1>1, <1>2 DEF Idle, Rounds

LEMMA StartKeeps ==
    ASSUME RoundInv, CeilingInv', NEW missed, StartRound(missed), UNCHANGED vars
    PROVE  RoundInv'
<1>1. RoundTypeOK'
  <2> DEFINE index == {o \in Pools \X OrderIds : o[2] < nextId[o[1]]} \ missed
             moved == {m \in Markets : poolNonce[PoolOf[m]] # GenOf[m]}
  <2>1. round' = [Idle EXCEPT !.stage = "domains", !.domains = Domains, !.index = index, !.moved = moved]
    BY DEF StartRound
  <2>2. index \in SUBSET Orders /\ moved \in SUBSET Markets
    BY DEF Orders
  <2> HIDE DEF index, moved
  <2>3. QED
    BY <2>1, <2>2, IdleTyped DEF RoundTypeOK, Rounds
<1>2. round'.stage = "domains" /\ round'.accused = {} /\ round'.moved = {m \in Markets : poolNonce[PoolOf[m]] # GenOf[m]}
  BY DEF StartRound, Idle
<1>3. UNCHANGED poolNonce
  BY ReadKeeps
<1>4. QED
  BY <1>1, <1>2, <1>3 DEF RoundInv, UnderWay

\* A step to the stage "domains", or out of the round, that accuses nobody new.
LEMMA BetweenKeeps ==
    ASSUME RoundInv, CeilingInv', UNCHANGED vars, RoundTypeOK',
           round'.stage \in {"idle", "domains", "stopped"},
           round'.accused \subseteq round'.moved,
           round'.stage = "domains" => UnderWay /\ round'.moved = round.moved
    PROVE  RoundInv'
<1>1. UNCHANGED poolNonce
  BY ReadKeeps
<1>2. QED
  BY <1>1 DEF RoundInv, UnderWay

LEMMA ReadMarketKeeps ==
    ASSUME RoundInv, CeilingInv', UNCHANGED vars, ReadMarket
    PROVE  RoundInv'
<1>1. RoundTypeOK /\ round.markets # <<>> /\ round.stage = "domains" /\ round.markets \in Seq(Markets)
  BY DEF RoundInv, ReadMarket, RoundTypeOK, Rounds
<1>2. Tail(round.markets) \in Seq(Markets) /\ Current \in Markets
  <2>1. ASSUME NEW list \in Seq(Markets), list # <<>>
        PROVE  Tail(list) \in Seq(Markets) /\ Head(list) \in Markets
    BY <2>1
  <2>2. QED
    BY <1>1, <2>1 DEF Current
<1>3. CASE ~Charged(Current)
  <2>1. round' = [round EXCEPT !.markets = Tail(@)]
    BY <1>3 DEF ReadMarket
  <2>2. RoundTypeOK' /\ round'.stage = "domains" /\ round'.accused = round.accused /\ round'.moved = round.moved
    BY <1>1, <1>2, <2>1 DEF RoundTypeOK, Rounds
  <2>3. QED
    BY <1>1, <2>2, BetweenKeeps DEF UnderWay, RoundInv
<1>4. CASE Charged(Current)
  <2>1. round' = [round EXCEPT !.stage = "market"]
    BY <1>4 DEF ReadMarket
  <2>2. /\ RoundTypeOK' /\ round'.stage = "market" /\ round'.accused = round.accused
        /\ round'.moved = round.moved /\ round'.markets = round.markets
    BY <1>1, <2>1 DEF RoundTypeOK, Rounds
  <2>3. UNCHANGED <<poolNonce, marketState>>
    BY ReadKeeps
  <2>4. Current' = Current
    BY <2>2 DEF Current
  <2>5. Bounded(Current)'
    BY <1>4, <2>2, <2>3, <2>4 DEF Bounded, Charged
  <2>6. QED
    BY <1>1, <2>2, <2>3, <2>5 DEF RoundInv, UnderWay
<1>5. QED
  BY <1>3, <1>4

LEMMA ReadAccountedKeeps ==
    ASSUME RoundInv, CeilingInv', UNCHANGED vars, ReadAccounted
    PROVE  RoundInv'
<1> DEFINE m == Current
<1>1. /\ m \in Markets /\ TypeOK /\ TypeInv /\ BooksInv /\ RoundTypeOK
      /\ round.stage = "market" /\ round.markets # <<>>
  BY RoundTyped DEF RoundInv, ReadAccounted
<1>2. /\ round' = [round EXCEPT
             !.stage = "figures", !.accounted = MarketWorstCaseExposure(m), !.unread = Sides,
             !.left = {o \in round.index : o[1] = PoolOf[m]}, !.live = Idle.live]
      /\ MarketWorstCaseExposure(m) \in Nat
  BY <1>1, RiskType DEF ReadAccounted
<1>3. Idle.live \in [Kinds -> Nat] /\ \A kind \in Kinds : Idle.live[kind] = 0
  BY DEF Idle
<1>4. /\ RoundTypeOK' /\ round'.stage = "figures" /\ round'.accused = round.accused
      /\ round'.moved = round.moved /\ round'.markets = round.markets
      /\ round'.accounted = MarketWorstCaseExposure(m) /\ round'.unread = Sides
      /\ round'.left = {o \in round.index : o[1] = PoolOf[m]} /\ round'.live = Idle.live
  BY <1>1, <1>2, <1>3 DEF RoundTypeOK, Rounds
<1>5. Current' = m /\ round'.left \subseteq OnPool(m)
  BY <1>1, <1>4 DEF Current, OnPool, RoundTypeOK, Rounds
<1>6. /\ UNCHANGED poolNonce /\ Long' = Long /\ Short' = Short /\ OnPool(m)' = OnPool(m)
      /\ bal'[TokenOf(m, "YES")] = bal[TokenOf(m, "YES")]
      /\ bal'[TokenOf(m, "NO")] = bal[TokenOf(m, "NO")]
      /\ TokenOf(m, "YES")' = TokenOf(m, "YES") /\ TokenOf(m, "NO")' = TokenOf(m, "NO")
  <2>1. ASSUME NEW k \in Markets
        PROVE  /\ OnPool(k)' = OnPool(k) /\ bal'[TokenOf(k, "YES")] = bal[TokenOf(k, "YES")]
               /\ bal'[TokenOf(k, "NO")] = bal[TokenOf(k, "NO")]
    BY ReadKeeps DEF Sides
  <2>2. /\ OnPool(m)' = OnPool(m) /\ TokenOf(m, "YES")' = TokenOf(m, "YES")
        /\ TokenOf(m, "NO")' = TokenOf(m, "NO")
    BY <1>5 DEF OnPool, TokenOf, TokenId
  <2>3. QED
    BY <1>1, <2>1, <2>2, ReadKeeps
<1>7. ASSUME m \notin round.moved
      PROVE  Bounded(m)'
  <2>1. ~marketState[m].settled /\ (marketState[m].tracked \/ Empty(m)) /\ poolNonce[PoolOf[m]] = GenOf[m]
    BY <1>1, <1>7 DEF RoundInv, Bounded, UnderWay
  <2> DEFINE yes == bal[TokenOf(m, "YES")]
             no  == bal[TokenOf(m, "NO")]
             L   == Sum(Long, OnPool(m))
             S   == Sum(Short, OnPool(m))
             W   == MarketWorstCaseExposure(m)
  <2>2. yes \in Nat /\ no \in Nat /\ L \in Nat /\ S \in Nat /\ W \in Nat
    BY <1>1, <1>2, OrdersTyped DEF Sides
  <2>3. yes - no + L <= W /\ -W <= yes - no - S
    <3>1. CASE marketState[m].tracked
      <4>1. Charged(m)
        BY <2>1, <3>1 DEF Charged
      <4>2. QED
        BY <1>1, <2>1, <4>1, RestsWithinCharge
    <3>2. CASE ~marketState[m].tracked
      <4>1. yes = 0 /\ no = 0
        BY <2>1, <3>2 DEF Empty, Sides
      <4>2. \A o \in OnPool(m) : Long[o] = 0 /\ Short[o] = 0
        BY <2>1, <3>2 DEF Empty, Long, Short, OnPool
      <4>3. L = 0 /\ S = 0
        <5>1. {o \in OnPool(m) : Long[o] # 0} = {} /\ {o \in OnPool(m) : Short[o] # 0} = {}
          BY <4>2
        <5>2. L = Sum(Long, {o \in OnPool(m) : Long[o] # 0}) /\ S = Sum(Short, {o \in OnPool(m) : Short[o] # 0})
          BY SumWithoutZeros
        <5>3. QED
          BY <5>1, <5>2, SumEmpty
      <4> HIDE DEF yes, no, L, S, W
      <4>4. QED
        BY <2>2, <4>1, <4>3
    <3>3. QED
      BY <3>1, <3>2
  <2>4. /\ Taken(m, "YES")' = yes /\ Taken(m, "NO")' = no /\ Awaited(m)' = OnPool(m)
        /\ \A kind \in Kinds : round'.live[kind] = 0
    <3>1. round'.unread = {"YES", "NO"}
      BY <1>4 DEF Sides
    <3>2. QED
      BY <1>3, <1>4, <1>6, <3>1 DEF Taken, Awaited
  <2>5. Highest(m)' = yes - no + 0 + 0 + L /\ Lowest(m)' = yes - no - 0 - 0 - S
    BY <1>6, <2>4 DEF Highest, Lowest, Kinds
  <2> HIDE DEF yes, no, L, S, W
  <2>6. Highest(m)' <= W /\ -W <= Lowest(m)'
    BY <2>2, <2>3, <2>5
  <2>7. QED
    BY <1>4, <2>6 DEF Bounded, W
<1>8. QED
  <2>1. round'.stage \in {"market", "figures"} /\ Current' \notin round'.moved => Bounded(Current)'
    <3>1. ASSUME m \notin round.moved
          PROVE  Highest(Current)' <= round'.accounted /\ -round'.accounted <= Lowest(Current)'
      <4>1. Highest(m)' <= round'.accounted /\ -round'.accounted <= Lowest(m)'
        BY <1>4, <1>7, <3>1 DEF Bounded
      <4>2. QED
        BY <1>5, <4>1
    <3>2. QED
      BY <1>4, <1>5, <3>1 DEF Bounded
  <2>2. QED
    BY <1>1, <1>4, <1>5, <1>6, <2>1 DEF RoundInv, UnderWay, OnPool

\* What is left to show of a read that stays with the market at hand: the ends
\* come no further out.
LEMMA NarrowerKeeps ==
    ASSUME RoundInv, CeilingInv', UNCHANGED vars, RoundTypeOK',
           round.stage = "figures", round'.stage = "figures",
           round'.accused = round.accused, round'.moved = round.moved,
           round'.markets = round.markets, round'.accounted = round.accounted,
           round'.left \subseteq round.left,
           NEW m \in Markets, m = Current,
           Highest(m)' <= Highest(m), Lowest(m) <= Lowest(m)',
           Highest(m) \in Int, Lowest(m) \in Int, Highest(m)' \in Int, Lowest(m)' \in Int
    PROVE  RoundInv'
<1>1. Current' = m /\ round.accounted \in Nat
  BY RoundTyped DEF Current
<1>2. UNCHANGED poolNonce /\ OnPool(m)' = OnPool(m)
  BY ReadKeeps
<1>3. ASSUME m \notin round.moved
      PROVE  Highest(m)' <= round'.accounted /\ -round'.accounted <= Lowest(m)'
  <2>1. Highest(m) <= round.accounted /\ -round.accounted <= Lowest(m)
    BY <1>3 DEF RoundInv, Bounded
  <2>2. QED
    BY <1>1, <2>1
<1>4. ASSUME m \notin round.moved
      PROVE  Bounded(Current)'
  <2>1. Highest(Current)' <= round'.accounted /\ -round'.accounted <= Lowest(Current)'
    BY <1>1, <1>3, <1>4
  <2>2. QED
    BY <2>1 DEF Bounded
<1>5. round'.left \subseteq OnPool(Current)'
  <2>1. round.left \subseteq OnPool(m)
    BY DEF RoundInv
  <2>2. OnPool(Current)' = OnPool(m)
    BY <1>1 DEF OnPool
  <2>3. QED
    BY <2>1, <2>2
<1>6. QED
  BY <1>1, <1>2, <1>4, <1>5 DEF RoundInv, UnderWay

LEMMA ReadBalanceKeeps ==
    ASSUME RoundInv, CeilingInv', UNCHANGED vars, NEW side \in Sides, ReadBalance(side)
    PROVE  RoundInv'
<1>1. /\ TypeOK /\ RoundTypeOK /\ round.stage = "figures" /\ Current \in Markets
      /\ \A k \in Markets, s \in Sides : Taken(k, s) \in Nat
      /\ \A kind \in Kinds : round.live[kind] \in Nat
      /\ round.left \subseteq OnPool(Current)
  BY RoundTyped DEF RoundInv, ReadBalance
<1>2. PICK m \in Markets : m = Current
  BY <1>1
<1>3. bal[TokenOf(m, side)] \in Nat
  BY <1>1, OrdersTyped
<1>4. round' = [round EXCEPT !.unread = @ \ {side}, !.held[side] = bal[TokenOf(m, side)]]
  BY <1>2 DEF ReadBalance, TokenOf
<1>5. /\ RoundTypeOK' /\ round'.stage = "figures" /\ round'.accused = round.accused
      /\ round'.moved = round.moved /\ round'.markets = round.markets
      /\ round'.accounted = round.accounted /\ round'.left = round.left /\ round'.live = round.live
      /\ round'.unread = round.unread \ {side} /\ side \in round.unread
      /\ \A s \in Sides : round'.held[s] = IF s = side THEN bal[TokenOf(m, side)] ELSE round.held[s]
  <2> DEFINE b == bal[TokenOf(m, side)]
  <2>1. side \in round.unread /\ b \in Nat
    BY <1>3 DEF ReadBalance
  <2>2. round' = [round EXCEPT !.unread = round.unread \ {side}, !.held = [round.held EXCEPT ![side] = b]]
    BY <1>4, <1>1 DEF RoundTypeOK, Rounds
  <2> HIDE DEF b
  <2>3. round \in Rounds /\ round.held \in [Sides -> Nat] /\ round.unread \subseteq Sides
    BY <1>1 DEF RoundTypeOK, Rounds
  <2>4. [round.held EXCEPT ![side] = b] \in [Sides -> Nat]
    BY <2>1, <2>3
  <2>5. round' \in Rounds
    BY <2>2, <2>3, <2>4 DEF Rounds
  <2>6. RoundTypeOK'
    BY <2>5 DEF RoundTypeOK, Rounds, Orders
  <2>7. /\ round'.stage = round.stage /\ round'.accused = round.accused
        /\ round'.moved = round.moved /\ round'.markets = round.markets
        /\ round'.accounted = round.accounted /\ round'.left = round.left /\ round'.live = round.live
        /\ round'.unread = round.unread \ {side}
        /\ round'.held = [round.held EXCEPT ![side] = b]
    BY <2>2, <2>3 DEF Rounds
  <2>8. \A s \in Sides : round'.held[s] = IF s = side THEN b ELSE round.held[s]
    BY <2>3, <2>7
  <2>9. QED
    BY <1>1, <2>1, <2>6, <2>7, <2>8 DEF b
<1>6. \A s \in Sides : Taken(m, s)' = Taken(m, s)
  <2>1. \A s \in Sides : bal'[TokenOf(m, s)] = bal[TokenOf(m, s)] /\ TokenOf(m, s)' = TokenOf(m, s)
    BY ReadKeeps DEF TokenOf, TokenId
  <2>2. QED
    BY <1>5, <2>1 DEF Taken
<1>7. Awaited(m)' \in SUBSET Awaited(m) /\ Awaited(m) \in SUBSET Orders /\ Long' = Long /\ Short' = Short
  <2>1. OnPool(m)' = OnPool(m) /\ Long' = Long /\ Short' = Short
    BY ReadKeeps
  <2>2. round.left \subseteq OnPool(m)
    BY <1>1, <1>2
  <2>3. QED
    BY <1>5, <2>1, <2>2, RoundTyped DEF Awaited
<1>8. /\ Sum(Long', Awaited(m)') <= Sum(Long, Awaited(m)) /\ Sum(Short', Awaited(m)') <= Sum(Short, Awaited(m))
      /\ Sum(Long', Awaited(m)') \in Nat /\ Sum(Short', Awaited(m)') \in Nat
      /\ Sum(Long, Awaited(m)) \in Nat /\ Sum(Short, Awaited(m)) \in Nat
  BY <1>1, <1>7, FewerAwaited
<1> DEFINE L == Sum(Long, Awaited(m))
           S == Sum(Short, Awaited(m))
           L2 == Sum(Long', Awaited(m)')
           S2 == Sum(Short', Awaited(m)')
<1>9. /\ Highest(m) = Taken(m, "YES") - Taken(m, "NO") + round.live["BUY_YES"] + round.live["SELL_YES"] + L
      /\ Lowest(m) = Taken(m, "YES") - Taken(m, "NO") - round.live["BUY_NO"] - round.live["SELL_NO"] - S
      /\ Highest(m)' = Taken(m, "YES") - Taken(m, "NO") + round.live["BUY_YES"] + round.live["SELL_YES"] + L2
      /\ Lowest(m)' = Taken(m, "YES") - Taken(m, "NO") - round.live["BUY_NO"] - round.live["SELL_NO"] - S2
  BY <1>5, <1>6 DEF Highest, Lowest, Sides
<1>10. /\ Taken(m, "YES") \in Nat /\ Taken(m, "NO") \in Nat
       /\ round.live["BUY_YES"] \in Nat /\ round.live["SELL_YES"] \in Nat
       /\ round.live["BUY_NO"] \in Nat /\ round.live["SELL_NO"] \in Nat
  BY <1>1 DEF Sides, Kinds
<1>11. /\ Highest(m)' <= Highest(m) /\ Lowest(m) <= Lowest(m)'
       /\ Highest(m) \in Int /\ Lowest(m) \in Int /\ Highest(m)' \in Int /\ Lowest(m)' \in Int
  <2> HIDE DEF L, S, L2, S2
  <2>1. L2 <= L /\ S2 <= S /\ L \in Nat /\ S \in Nat /\ L2 \in Nat /\ S2 \in Nat
    BY <1>8 DEF L, S, L2, S2
  <2>2. QED
    BY <1>9, <1>10, <2>1
<1>12. QED
  BY <1>1, <1>2, <1>5, <1>11, NarrowerKeeps

LEMMA ReadOrderKeeps ==
    ASSUME RoundInv, CeilingInv', UNCHANGED vars, NEW found \in BOOLEAN, ReadOrder(found)
    PROVE  RoundInv'
<1>1. /\ TypeOK /\ RoundTypeOK /\ round.stage = "figures" /\ Current \in Markets
      /\ \A k \in Markets, s \in Sides : Taken(k, s) \in Nat
      /\ \A kind \in Kinds : round.live[kind] \in Nat
      /\ round.unread = {} /\ round.left # {} /\ round.left \in SUBSET Orders
  BY RoundTyped DEF RoundInv, ReadOrder, OrdersTurn, RoundTypeOK, Rounds
<1>2. PICK m \in Markets : m = Current
  BY <1>1
<1> DEFINE o == CHOOSE first \in round.left : \A other \in round.left : first[2] <= other[2]
<1>3. o \in round.left
  <2> DEFINE T == {x[2] : x \in round.left}
  <2>1. T \in SUBSET Nat /\ T # {}
    BY <1>1 DEF Orders, OrderIds
  <2>2. PICK least \in T : \A y \in T : ~ y < least
    <3> HIDE DEF T
    <3>1. QED
      BY <2>1, Smallest
  <2>3. PICK first \in round.left : first[2] = least
    OBVIOUS
  <2>4. ASSUME NEW other \in round.left
        PROVE  first[2] <= other[2]
    <3>1. other[2] \in T /\ least \in T
      BY <2>2
    <3>2. ~ other[2] < least
      <4> HIDE DEF T
      <4>1. QED
        BY <2>2, <3>1
    <3>3. other[2] \in Nat /\ least \in Nat
      <4> HIDE DEF T
      <4>1. QED
        BY <2>1, <3>1
    <3>4. QED
      BY <2>3, <3>2, <3>3
  <2>5. QED
    BY <2>4
<1>4. round' = [round EXCEPT
          !.left = @ \ {o},
          !.live[book[o].kind] = IF found THEN @ + LiveRemaining(o[1], o[2]) ELSE @]
  BY DEF ReadOrder
<1> HIDE DEF o
<1>5. /\ o \in Orders /\ o = <<o[1], o[2]>> /\ book[o] \in BookOrders /\ LiveRemaining(o[1], o[2]) = book[o].quantityRemaining
      /\ book[o].kind \in Kinds /\ book[o].quantityRemaining \in Nat
  <2>1. o \in Orders /\ o = <<o[1], o[2]>>
    BY <1>1, <1>3 DEF Orders
  <2>2. book[o] \in BookOrders
    BY <1>1, <2>1 DEF TypeOK, VenueTypeOK, Orders
  <2>3. QED
    BY <2>1, <2>2 DEF LiveRemaining, BookOrders
<1> DEFINE q == IF found THEN book[o].quantityRemaining ELSE 0
<1>6. /\ RoundTypeOK' /\ round'.stage = "figures" /\ round'.accused = round.accused
      /\ round'.moved = round.moved /\ round'.markets = round.markets
      /\ round'.accounted = round.accounted /\ round'.left = round.left \ {o}
      /\ round'.unread = {} /\ round'.held = round.held
      /\ \A kind \in Kinds : round'.live[kind] = IF kind = book[o].kind THEN round.live[kind] + q ELSE round.live[kind]
  <2>1. round.live \in [Kinds -> Nat] /\ round \in Rounds
    BY <1>1 DEF RoundTypeOK, Rounds
  <2>2. round' = [round EXCEPT !.left = round.left \ {o},
                               !.live = [round.live EXCEPT ![book[o].kind] = @ + q]]
    <3>1. CASE found
      BY <1>4, <1>5, <2>1, <3>1 DEF Rounds
    <3>2. CASE ~found
      <4>1. round.live[book[o].kind] = round.live[book[o].kind] + q
        BY <1>5, <2>1, <3>2
      <4>2. QED
        BY <1>4, <1>5, <2>1, <3>2, <4>1 DEF Rounds
    <3>3. QED
      BY <3>1, <3>2
  <2>3. q \in Nat
    BY <1>5
  <2> HIDE DEF q
  <2>4. [round.live EXCEPT ![book[o].kind] = @ + q] \in [Kinds -> Nat]
    BY <1>5, <2>1, <2>3
  <2>5. QED
    BY <1>1, <1>5, <2>1, <2>2, <2>3, <2>4 DEF RoundTypeOK, Rounds
<1>7. \A s \in Sides : Taken(m, s)' = Taken(m, s)
  <2>1. \A s \in Sides : bal'[TokenOf(m, s)] = bal[TokenOf(m, s)] /\ TokenOf(m, s)' = TokenOf(m, s)
    BY ReadKeeps DEF TokenOf, TokenId
  <2>2. QED
    BY <1>1, <1>6, <2>1 DEF Taken
<1>8. Awaited(m)' = round.left \ {o} /\ Awaited(m) = round.left /\ Long' = Long /\ Short' = Short
  BY <1>1, <1>6, ReadKeeps DEF Awaited
<1> DEFINE L == Sum(Long, Awaited(m))
           S == Sum(Short, Awaited(m))
           L2 == Sum(Long', Awaited(m)')
           S2 == Sum(Short', Awaited(m)')
<1>9. /\ L = L2 + Long[o] /\ S = S2 + Short[o] /\ L2 \in Nat /\ S2 \in Nat
      /\ Long[o] \in Nat /\ Short[o] \in Nat
  <2>1. /\ IsFiniteSet(round.left) /\ \A x \in round.left : Long[x] \in Nat /\ Short[x] \in Nat
        /\ round.left \ {o} \in SUBSET Orders
    BY <1>1, OrdersTyped
  <2>2. /\ Sum(Long, round.left) = Sum(Long, round.left \ {o}) + Long[o]
        /\ Sum(Short, round.left) = Sum(Short, round.left \ {o}) + Short[o]
    BY <1>3, <2>1, SumRemove
  <2>3. QED
    BY <1>1, <1>3, <1>8, <2>1, <2>2, OrdersTyped
<1>10. /\ book[o].kind \in {"BUY_YES", "SELL_YES"} => Long[o] = book[o].quantityRemaining
       /\ book[o].kind \in {"BUY_NO", "SELL_NO"} => Short[o] = book[o].quantityRemaining
  BY <1>5 DEF Long, Short
<1>11. q \in Nat /\ q <= book[o].quantityRemaining
  BY <1>5
<1>12. /\ Highest(m) = Taken(m, "YES") - Taken(m, "NO") + round.live["BUY_YES"] + round.live["SELL_YES"] + L
       /\ Lowest(m) = Taken(m, "YES") - Taken(m, "NO") - round.live["BUY_NO"] - round.live["SELL_NO"] - S
       /\ Highest(m)' = Taken(m, "YES") - Taken(m, "NO") + round'.live["BUY_YES"] + round'.live["SELL_YES"] + L2
       /\ Lowest(m)' = Taken(m, "YES") - Taken(m, "NO") - round'.live["BUY_NO"] - round'.live["SELL_NO"] - S2
  BY <1>7 DEF Highest, Lowest, Sides
<1>13. /\ Taken(m, "YES") \in Nat /\ Taken(m, "NO") \in Nat
       /\ round.live["BUY_YES"] \in Nat /\ round.live["SELL_YES"] \in Nat
       /\ round.live["BUY_NO"] \in Nat /\ round.live["SELL_NO"] \in Nat
  BY <1>1 DEF Sides, Kinds
<1>14. /\ round'.live["BUY_YES"] = IF book[o].kind = "BUY_YES" THEN round.live["BUY_YES"] + q ELSE round.live["BUY_YES"]
       /\ round'.live["SELL_YES"] = IF book[o].kind = "SELL_YES" THEN round.live["SELL_YES"] + q ELSE round.live["SELL_YES"]
       /\ round'.live["BUY_NO"] = IF book[o].kind = "BUY_NO" THEN round.live["BUY_NO"] + q ELSE round.live["BUY_NO"]
       /\ round'.live["SELL_NO"] = IF book[o].kind = "SELL_NO" THEN round.live["SELL_NO"] + q ELSE round.live["SELL_NO"]
  <2> HIDE DEF q
  <2>1. QED
    BY <1>6 DEF Kinds
<1> HIDE DEF L, S, L2, S2, q
<1>15. /\ Highest(m)' <= Highest(m) /\ Lowest(m) <= Lowest(m)'
       /\ Highest(m) \in Int /\ Lowest(m) \in Int /\ Highest(m)' \in Int /\ Lowest(m)' \in Int
  <2>1. CASE book[o].kind \in {"BUY_YES", "SELL_YES"}
    BY <1>9, <1>10, <1>11, <1>12, <1>13, <1>14, <2>1
  <2>2. CASE book[o].kind \in {"BUY_NO", "SELL_NO"}
    BY <1>9, <1>10, <1>11, <1>12, <1>13, <1>14, <2>2
  <2>3. QED
    BY <1>5, <2>1, <2>2 DEF Kinds
<1>16. round'.left \subseteq round.left
  BY <1>6
<1>17. QED
  BY <1>1, <1>2, <1>6, <1>15, <1>16, NarrowerKeeps

\* Once nothing is left to read, the figures bound the verifier's own ends: a
\* market that was not overtaken is not accused.
LEMMA JudgeKeeps ==
    ASSUME RoundInv, CeilingInv', UNCHANGED vars, Judge
    PROVE  RoundInv'
<1> DEFINE worst == WorstEnd(round.held["YES"], round.held["NO"], round.live)
           accused == IF round.accounted < worst THEN round.accused \cup {Current} ELSE round.accused
<1>1. /\ TypeOK /\ RoundTypeOK /\ round.stage = "figures" /\ Current \in Markets
      /\ round.unread = {} /\ round.left = {} /\ round.markets # <<>>
      /\ round.held \in [Sides -> Nat] /\ round.live \in [Kinds -> Nat] /\ round.accounted \in Nat
      /\ round.markets \in Seq(Markets)
  BY RoundTyped DEF RoundInv, Judge, RoundTypeOK, Rounds
<1>2. ASSUME Current \notin round.moved
      PROVE  ~(round.accounted < worst)
  <2>1. PICK m \in Markets : m = Current
    BY <1>1
  <2>2. Highest(m) <= round.accounted /\ -round.accounted <= Lowest(m)
    BY <1>1, <1>2, <2>1 DEF RoundInv, Bounded
  <2>3. Sum(Long, Awaited(m)) = 0 /\ Sum(Short, Awaited(m)) = 0
    BY <1>1, SumEmpty DEF Awaited
  <2>4. Taken(m, "YES") = round.held["YES"] /\ Taken(m, "NO") = round.held["NO"]
    BY <1>1 DEF Taken
  <2>5. /\ round.held["YES"] \in Nat /\ round.held["NO"] \in Nat
        /\ round.live["BUY_YES"] \in Nat /\ round.live["SELL_YES"] \in Nat
        /\ round.live["BUY_NO"] \in Nat /\ round.live["SELL_NO"] \in Nat
    BY <1>1 DEF Sides, Kinds
  <2>6. worst = WorstCase(round.held["YES"] - round.held["NO"] + round.live["BUY_YES"] + round.live["SELL_YES"],
                          round.held["YES"] - round.held["NO"] - round.live["BUY_NO"] - round.live["SELL_NO"])
    <3>1. \A kind \in Kinds : round.live[kind] \in Nat
      BY <1>1
    <3> HIDE DEF worst
    <3>2. worst = WorstEnd(round.held["YES"], round.held["NO"], round.live)
      BY DEF worst
    <3>3. PICK yes \in Nat, no \in Nat : yes = round.held["YES"] /\ no = round.held["NO"]
      BY <2>5
    <3> DEFINE live == round.live
    <3>4. \A kind \in Kinds : live[kind] \in Nat
      BY <3>1
    <3> HIDE DEF live
    <3>5. WorstEnd(yes, no, live) = WorstCase(yes - no + live["BUY_YES"] + live["SELL_YES"],
                                              yes - no - live["BUY_NO"] - live["SELL_NO"])
      BY <3>4, WorstEndIs
    <3>6. QED
      BY <3>2, <3>3, <3>5 DEF live
  <2>7. /\ Highest(m) = round.held["YES"] - round.held["NO"] + round.live["BUY_YES"] + round.live["SELL_YES"]
        /\ Lowest(m) = round.held["YES"] - round.held["NO"] - round.live["BUY_NO"] - round.live["SELL_NO"]
    BY <2>3, <2>4, <2>5 DEF Highest, Lowest
  <2> HIDE DEF worst
  <2>8. worst = WorstCase(Highest(m), Lowest(m)) /\ Highest(m) \in Int /\ Lowest(m) \in Int /\ Lowest(m) <= Highest(m)
    BY <2>5, <2>6, <2>7
  <2>9. QED
    BY <1>1, <2>2, <2>8 DEF WorstCase, Larger, Abs
<1>3. accused \subseteq round.moved \/ accused = round.accused
  BY <1>2 DEF RoundInv
<1>4. round.accused \subseteq round.moved /\ accused \subseteq Markets
  BY <1>1 DEF RoundInv, RoundTypeOK, Rounds
<1>5. round' = [Idle EXCEPT !.stage = "domains", !.domains = round.domains,
                            !.markets = Tail(round.markets), !.index = round.index,
                            !.moved = round.moved, !.accused = accused]
  BY DEF Judge
<1>6. Tail(round.markets) \in Seq(Markets)
  <2>1. ASSUME NEW list \in Seq(Markets), list # <<>>
        PROVE  Tail(list) \in Seq(Markets)
    BY <2>1
  <2>2. QED
    BY <1>1, <2>1
<1> HIDE DEF accused
<1>7. RoundTypeOK' /\ round'.stage = "domains" /\ round'.accused = accused /\ round'.moved = round.moved
  BY <1>1, <1>4, <1>5, <1>6, IdleTyped DEF RoundTypeOK, Rounds
<1>8. QED
  BY <1>1, <1>3, <1>4, <1>7, BetweenKeeps DEF UnderWay

\* Every step of the round, and every step between two of them, keeps it.
LEMMA RoundStepKeeps ==
    ASSUME RoundInv, CeilingInv', RoundStep, UNCHANGED vars
    PROVE  RoundInv'
<1>1. RoundTypeOK /\ round \in Rounds /\ round.accused \subseteq round.moved
  BY DEF RoundInv, RoundTypeOK
<1>2. ASSUME NEW d \in Domains, ReadDomain(d)
      PROVE  RoundInv'
  <2>1. domainMarkets[d] \in Seq(Markets)
    BY RoundTyped DEF TypeOK
  <2>2. /\ RoundTypeOK' /\ round'.stage = "domains" /\ round'.accused = round.accused
        /\ round'.moved = round.moved /\ round.stage = "domains"
    BY <1>1, <1>2, <2>1 DEF ReadDomain, RoundTypeOK, Rounds
  <2>3. QED
    BY <1>1, <2>2, BetweenKeeps DEF UnderWay
<1>3. ASSUME EndRound
      PROVE  RoundInv'
  <2>1. CASE round.accused = {}
    <3>1. round' = Idle
      BY <1>3, <2>1 DEF EndRound
    <3>2. RoundTypeOK' /\ round'.stage = "idle" /\ round'.accused \subseteq round'.moved
      BY <3>1, IdleTyped DEF RoundTypeOK, Idle
    <3>3. QED
      BY <3>2, BetweenKeeps
  <2>2. CASE round.accused # {}
    <3>1. round' = [Idle EXCEPT !.stage = "stopped", !.moved = round.moved, !.accused = round.accused]
      BY <1>3, <2>2 DEF EndRound
    <3>2. RoundTypeOK' /\ round'.stage = "stopped" /\ round'.accused \subseteq round'.moved
      BY <1>1, <3>1, IdleTyped DEF RoundTypeOK, Rounds
    <3>3. QED
      BY <3>2, BetweenKeeps
  <2>3. QED
    BY <2>1, <2>2
<1>4. ASSUME AbandonRound
      PROVE  RoundInv'
  <2>1. round' = Idle
    BY <1>4 DEF AbandonRound
  <2>2. RoundTypeOK' /\ round'.stage = "idle" /\ round'.accused \subseteq round'.moved
    BY <2>1, IdleTyped DEF RoundTypeOK, Idle
  <2>3. QED
    BY <2>2, BetweenKeeps
<1>5. QED
  BY <1>2, <1>3, <1>4, StartKeeps, ReadMarketKeeps, ReadAccountedKeeps, ReadBalanceKeeps,
     ReadOrderKeeps, JudgeKeeps DEF RoundStep

LEMMA ChainStepKeeps ==
    ASSUME RoundInv, CeilingInv', Next, Follow
    PROVE  RoundInv'
<1>1. round \in Rounds /\ RoundTypeOK
  BY DEF RoundInv, RoundTypeOK
<1>2. CASE ~UnderWay
  <2>1. round' = round
    BY <1>2 DEF Follow
  <2>2. RoundTypeOK'
    BY <1>1, <2>1 DEF RoundTypeOK, Rounds, Orders
  <2>3. QED
    BY <1>2, <2>1, <2>2 DEF RoundInv, UnderWay
<1>3. CASE UnderWay
  <2> DEFINE over == {k \in Markets : Overtakes(k)}
  <2>1. round' = [round EXCEPT !.moved = @ \cup over]
    BY <1>3 DEF Follow
  <2>2. over \subseteq Markets
    OBVIOUS
  <2>3. ASSUME NEW m \in Markets \ (round.moved \cup over)
        PROVE  poolNonce'[PoolOf[m]] = GenOf[m]
    <3>1. ~Overtakes(m) /\ poolNonce[PoolOf[m]] = GenOf[m]
      BY <1>3, <2>3 DEF RoundInv
    <3>2. QED
      BY <3>1 DEF Overtakes
  <2>4. ASSUME round.stage \in {"market", "figures"}, Current \notin round.moved \cup over
        PROVE  Bounded(Current)'
    <3>1. Current \in Markets
      BY <2>4, RoundTyped
    <3>2. PICK m \in Markets : m = Current
      BY <3>1
    <3>3. m \notin round.moved /\ ~Overtakes(m)
      BY <2>4, <3>2
    <3>4. Bounded(m)'
      BY <2>1, <2>4, <3>2, <3>3, BoundKept
    <3>5. Current' = m
      BY <1>1, <2>1, <3>2 DEF Current, Rounds
    <3>6. QED
      BY <3>4, <3>5
  <2> HIDE DEF over
  <2>5. /\ RoundTypeOK' /\ round'.stage = round.stage /\ round'.accused = round.accused
        /\ round'.moved = round.moved \cup over /\ round'.markets = round.markets
        /\ round'.left = round.left
    BY <1>1, <2>1, <2>2 DEF RoundTypeOK, Rounds
  <2>6. OnPool(Current)' = OnPool(Current) /\ Current' = Current
    BY <2>5 DEF OnPool, Current, Orders
  <2>7. QED
    BY <1>3, <2>3, <2>4, <2>5, <2>6 DEF RoundInv, UnderWay
<1>4. QED
  BY <1>2, <1>3

\* A watch round accuses a market only when, while it lasted, an order was
\* placed on the market's pool, its tokens came or went without a trade, its
\* settlement was booked or its pool moved on: whatever fills, cancellations,
\* releases and prunes fall between its reads, and whichever logs and orders it
\* misses, for any number of markets, orders and domains (sample).
THEOREM RoundAccusesRightly == RoundSpec => []AccusesOnlyTheOvertaken
<1>1. Init /\ round = Idle => RoundInv
  <2> SUFFICES ASSUME Init, round = Idle PROVE RoundInv
    OBVIOUS
  <2>1. CeilingInv
    BY CeilingInit
  <2>2. RoundTypeOK /\ round.stage = "idle" /\ round.accused = {}
    BY IdleTyped DEF RoundTypeOK, Idle
  <2>3. QED
    BY <2>1, <2>2 DEF RoundInv, UnderWay
<1>2. RoundInv /\ [RoundNext]_roundVars => RoundInv'
  <2> SUFFICES ASSUME RoundInv, [RoundNext]_roundVars PROVE RoundInv'
    OBVIOUS
  <2>1. CeilingInv'
    <3>1. [Next]_vars
      BY DEF RoundNext, roundVars
    <3>2. QED
      BY <3>1, CeilingStep DEF RoundInv
  <2>2. CASE RoundStep /\ UNCHANGED vars
    BY <2>1, <2>2, RoundStepKeeps
  <2>3. CASE Next /\ Follow
    BY <2>1, <2>3, ChainStepKeeps
  <2>4. CASE UNCHANGED roundVars
    <3>1. UNCHANGED vars /\ round' = round
      BY <2>4 DEF roundVars
    <3>2. /\ UNCHANGED <<poolNonce, marketState, bal, book>> /\ Long' = Long /\ Short' = Short
      BY <3>1, ReadKeeps
    <3>3. RoundTypeOK'
      BY <3>1 DEF RoundInv, RoundTypeOK, Rounds, Orders
    <3>4. Bounded(Current)' <=> Bounded(Current)
      BY <3>1, <3>2 DEF Bounded, Current, Empty, Highest, Lowest, Taken, Awaited, TokenOf, TokenId,
         OnPool, Orders
    <3>5. QED
      BY <2>1, <3>1, <3>2, <3>3, <3>4 DEF RoundInv, UnderWay, OnPool, Orders, Current
  <2>5. QED
    BY <2>2, <2>3, <2>4 DEF RoundNext
<1>3. RoundInv => AccusesOnlyTheOvertaken
  BY DEF RoundInv, AccusesOnlyTheOvertaken
<1>4. QED
  BY <1>1, <1>2, <1>3, PTL DEF RoundSpec

=============================================================================
