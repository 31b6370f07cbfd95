----------------------------- MODULE ViewsProofs -----------------------------
(***************************************************************************)
(* Why a reader of the API may rely on what it folds from the logs: the    *)
(* rows explain the contract's records and its reserved total, for any     *)
(* log a portfolio can have emitted.  A fold is a recursive function; its  *)
(* equations are proved first, by induction on the length of the log.      *)
(***************************************************************************)
EXTENDS ViewsSafety, PortfolioProofs, SequenceTheorems

\* Induction over the naturals, for a set of them.
LEMMA Induction ==
    ASSUME NEW T \in SUBSET Nat, 0 \in T, \A n \in T : n + 1 \in T
    PROVE  T = Nat
<1> SUFFICES ASSUME Nat \ T # {} PROVE FALSE
  OBVIOUS
<1>1. PICK x \in Nat \ T : \A y \in Nat \ T : ~ y < x
  BY Smallest
<1>2. x - 1 \in Nat /\ x - 1 \in T
  BY <1>1
<1>3. (x - 1) + 1 \in T
  BY <1>2
<1>4. QED
  BY <1>1, <1>3

-----------------------------------------------------------------------------
(* The folds' equations.                                                   *)

\* A history's rows after n of its logs.
LEMMA ReservationRecursion ==
    ASSUME NEW events, Len(events) \in Nat
    PROVE  ReservationHistory(events) =
             [n \in 0 .. Len(events) |->
                IF n = 0 THEN << >>
                ELSE ReservationRows(ReservationHistory(events)[n - 1], events, events[n])]
<1> DEFINE Next1(r, n) == ReservationRows(r, events, events[n])
           Is(g, N) == g = [n \in 0 .. N |-> IF n = 0 THEN << >> ELSE Next1(g[n - 1], n)]
           T == {N \in Nat : \E g : Is(g, N)}
<1> HIDE DEF Next1
<1>1. 0 \in T
  <2>1. Is([n \in 0 .. 0 |-> << >>], 0)
    OBVIOUS
  <2>2. QED
    BY <2>1
<1>2. ASSUME NEW N \in T PROVE N + 1 \in T
  <2>1. PICK g : Is(g, N)
    BY <1>2
  <2> DEFINE h == [n \in 0 .. N + 1 |-> IF n <= N THEN g[n] ELSE Next1(g[N], n)]
  <2>2. \A n \in 0 .. N + 1 : h[n] = IF n = 0 THEN << >> ELSE Next1(h[n - 1], n)
    BY <2>1
  <2>3. Is(h, N + 1)
    BY <2>2
  <2> HIDE DEF h, Is
  <2>4. QED
    BY <2>3
<1>3. T = Nat
  <2> HIDE DEF T
  <2>1. T \in SUBSET Nat
    BY DEF T
  <2>2. QED
    BY <1>1, <1>2, <2>1, Induction
<1>4. \E g : Is(g, Len(events))
  BY <1>3
<1>5. ReservationHistory(events) = CHOOSE g : Is(g, Len(events))
  BY DEF ReservationHistory, Next1
<1>6. Is(ReservationHistory(events), Len(events))
  <2> HIDE DEF Is
  <2>1. QED
    BY <1>4, <1>5
<1>7. QED
  BY <1>6 DEF Next1

\* The same for the tracked markets.
LEMMA TrackedRecursion ==
    ASSUME NEW events, Len(events) \in Nat
    PROVE  TrackedHistory(events) =
             [n \in 0 .. Len(events) |->
                IF n = 0 THEN << >> ELSE TrackedRows(TrackedHistory(events)[n - 1], events[n])]
<1> DEFINE Next1(r, n) == TrackedRows(r, events[n])
           Is(g, N) == g = [n \in 0 .. N |-> IF n = 0 THEN << >> ELSE Next1(g[n - 1], n)]
           T == {N \in Nat : \E g : Is(g, N)}
<1> HIDE DEF Next1
<1>1. 0 \in T
  <2>1. Is([n \in 0 .. 0 |-> << >>], 0)
    OBVIOUS
  <2>2. QED
    BY <2>1
<1>2. ASSUME NEW N \in T PROVE N + 1 \in T
  <2>1. PICK g : Is(g, N)
    BY <1>2
  <2> DEFINE h == [n \in 0 .. N + 1 |-> IF n <= N THEN g[n] ELSE Next1(g[N], n)]
  <2>2. \A n \in 0 .. N + 1 : h[n] = IF n = 0 THEN << >> ELSE Next1(h[n - 1], n)
    BY <2>1
  <2>3. Is(h, N + 1)
    BY <2>2
  <2> HIDE DEF h, Is
  <2>4. QED
    BY <2>3
<1>3. T = Nat
  <2> HIDE DEF T
  <2>1. T \in SUBSET Nat
    BY DEF T
  <2>2. QED
    BY <1>1, <1>2, <2>1, Induction
<1>4. \E g : Is(g, Len(events))
  BY <1>3
<1>5. TrackedHistory(events) = CHOOSE g : Is(g, Len(events))
  BY DEF TrackedHistory, Next1
<1>6. Is(TrackedHistory(events), Len(events))
  <2> HIDE DEF Is
  <2>1. QED
    BY <1>4, <1>5
<1>7. QED
  BY <1>6 DEF Next1

-----------------------------------------------------------------------------
(* The logs a portfolio can emit.                                          *)

Trackings       == [name : {"MarketTracked"}, market : Markets, domain : Domains]
MarketChanges   == [name : {"MarketPruned", "Redeemed", "SettledExposureReleased"}, market : Markets]
AgentChanges    == [name : {"AgentSet", "AgentRevoked"}, agent : Agents]
PolicyChanges   == [name : {"DomainPolicySet"}, domain : Domains, configured : BOOLEAN]
Hashes          == Agents \X (Nat \ {0})
Admissions      == [name : {"IntentAdmitted"}, intent : Hashes, market : Markets, domain : Domains,
                    pool : Pools, marketNonce : Gens, kind : Kinds, orderId : OrderIds]
Reconciliations == [name : {"IntentReconciled"}, intent : Hashes, reserveRequired : Nat, restingQty : Nat]
Unreads         == [name : {"GlobalPolicySet", "Funded", "CapitalBaseSet", "Withdrawn", "OutcomeWithdrawn"}]
Releases        == [name : {"ReservationReleased"}, key : OrderKeys, market : Markets, qty : Nat, collateral : Nat]

Logs == Trackings \cup MarketChanges \cup AgentChanges \cup PolicyChanges
          \cup Unreads \cup Admissions \cup Reconciliations \cup Releases

\* The name of a log says what it carries.
LEMMA LogKinds ==
    ASSUME NEW e \in Logs
    PROVE  /\ e.name = "MarketTracked" => e \in Trackings
           /\ e.name \in {"MarketPruned", "Redeemed", "SettledExposureReleased"} => e \in MarketChanges
           /\ e.name \in {"AgentSet", "AgentRevoked"} => e \in AgentChanges
           /\ e.name = "DomainPolicySet" => e \in PolicyChanges
           /\ e.name = "IntentAdmitted" => e \in Admissions
           /\ e.name = "IntentReconciled" => e \in Reconciliations
           /\ e.name = "ReservationReleased" => e \in Releases
BY DEF Logs, Trackings, MarketChanges, AgentChanges, PolicyChanges, Unreads, Admissions, Reconciliations, Releases

\* One more log.
OneMore(events, e, longer) == events \in Seq(Logs) /\ e \in Logs /\ longer = Append(events, e)

LEMMA Appended ==
    ASSUME NEW events, NEW e, NEW longer, OneMore(events, e, longer)
    PROVE  /\ longer \in Seq(Logs) /\ Len(longer) = Len(events) + 1
           /\ Len(events) \in Nat /\ DOMAIN events = 1 .. Len(events) /\ DOMAIN longer = 1 .. Len(events) + 1
           /\ \A n \in 1 .. Len(events) : longer[n] = events[n] /\ events[n] \in Logs
           /\ longer[Len(events) + 1] = e
BY DEF OneMore

\* The named logs of a history with one more.
LEMMA NamedAppended ==
    ASSUME NEW events, NEW e, NEW longer, OneMore(events, e, longer)
    PROVE  \A name : Named(longer, name) = IF e.name = name THEN Named(events, name) \cup {e} ELSE Named(events, name)
<1>1. Seqs!ToSet(longer) = Seqs!ToSet(events) \cup {e}
  <2>1. \A n \in DOMAIN longer : longer[n] \in Seqs!ToSet(events) \cup {e}
    BY Appended DEF Seqs!ToSet
  <2>2. Seqs!ToSet(longer) \subseteq Seqs!ToSet(events) \cup {e}
    BY <2>1 DEF Seqs!ToSet
  <2>3. \A n \in DOMAIN events : n \in DOMAIN longer /\ longer[n] = events[n]
    BY Appended
  <2>4. Len(events) + 1 \in DOMAIN longer /\ longer[Len(events) + 1] = e
    BY Appended
  <2>5. QED
    BY <2>2, <2>3, <2>4 DEF Seqs!ToSet
<1>2. QED
  BY <1>1 DEF Named

\* Intents whose orders a history has seen reconciled
Settlements(events) == {n \in DOMAIN events : events[n].name = "IntentReconciled"}

\* The admission of an order that is reconciled already stays the same.
LEMMA AdmissionStays ==
    ASSUME NEW events, NEW e, NEW longer, OneMore(events, e, longer),
           NEW n \in Settlements(events), e.name = "IntentAdmitted" => e.intent # events[n].intent
    PROVE  AdmissionOf(longer, events[n].intent) = AdmissionOf(events, events[n].intent)
<1>1. {a \in Named(longer, "IntentAdmitted") : a.intent = events[n].intent}
        = {a \in Named(events, "IntentAdmitted") : a.intent = events[n].intent}
  <2>1. CASE e.name = "IntentAdmitted"
    <3>1. Named(longer, "IntentAdmitted") = Named(events, "IntentAdmitted") \cup {e}
      BY <2>1, NamedAppended
    <3>2. e.intent # events[n].intent
      BY <2>1
    <3>3. QED
      BY <3>1, <3>2
  <2>2. CASE e.name # "IntentAdmitted"
    <3>1. Named(longer, "IntentAdmitted") = Named(events, "IntentAdmitted")
      BY <2>2, NamedAppended
    <3>2. QED
      BY <3>1
  <2>3. QED
    BY <2>1, <2>2
<1>2. QED
  BY <1>1 DEF AdmissionOf

\* Two histories that agree on n logs and on their admissions have the same
\* rows after n.
LEMMA ReservationPrefix ==
    ASSUME NEW events, Len(events) \in Nat, NEW longer, Len(longer) \in Nat, Len(events) <= Len(longer),
           \A n \in 1 .. Len(events) :
              /\ longer[n] = events[n]
              /\ events[n].name = "IntentReconciled" =>
                   AdmissionOf(longer, events[n].intent) = AdmissionOf(events, events[n].intent)
    PROVE  \A n \in 0 .. Len(events) : ReservationHistory(longer)[n] = ReservationHistory(events)[n]
<1> DEFINE long == ReservationHistory(longer)
           short == ReservationHistory(events)
           T == {n \in Nat : n <= Len(events) => long[n] = short[n]}
<1>1. \A n \in 0 .. Len(events) : /\ long[n] = IF n = 0 THEN << >> ELSE ReservationRows(long[n - 1], longer, longer[n])
                                  /\ short[n] = IF n = 0 THEN << >> ELSE ReservationRows(short[n - 1], events, events[n])
  <2>1. long = [n \in 0 .. Len(longer) |-> IF n = 0 THEN << >> ELSE ReservationRows(long[n - 1], longer, longer[n])]
    BY ReservationRecursion
  <2>2. short = [n \in 0 .. Len(events) |-> IF n = 0 THEN << >> ELSE ReservationRows(short[n - 1], events, events[n])]
    BY ReservationRecursion
  <2>3. \A n \in 0 .. Len(events) : n \in 0 .. Len(longer)
    OBVIOUS
  <2> HIDE DEF long, short
  <2>4. QED
    BY <2>1, <2>2, <2>3
<1>2. \A rows : \A n \in 1 .. Len(events) : ReservationRows(rows, longer, longer[n]) = ReservationRows(rows, events, events[n])
  BY DEF ReservationRows, Opened
<1> HIDE DEF long, short
<1>3. 0 \in T
  BY <1>1
<1>4. ASSUME NEW n \in T PROVE n + 1 \in T
  <2>1. CASE n + 1 <= Len(events)
    <3>1. n \in Nat /\ n + 1 \in 1 .. Len(events) /\ n + 1 \in 0 .. Len(events) /\ n + 1 # 0 /\ (n + 1) - 1 = n
      BY <2>1
    <3>2. long[n + 1] = ReservationRows(long[n], longer, longer[n + 1])
      BY <1>1, <3>1
    <3>3. short[n + 1] = ReservationRows(short[n], events, events[n + 1])
      BY <1>1, <3>1
    <3>4. long[n] = short[n]
      BY <3>1
    <3>5. long[n + 1] = short[n + 1]
      BY <1>2, <3>1, <3>2, <3>3, <3>4
    <3>6. QED
      BY <3>1, <3>5
  <2>2. CASE ~ n + 1 <= Len(events)
    BY <2>2
  <2>3. QED
    BY <2>1, <2>2
<1>5. T = Nat
  <2> HIDE DEF T
  <2>1. T \in SUBSET Nat
    BY DEF T
  <2>2. QED
    BY <1>3, <1>4, <2>1, Induction
<1>6. QED
  BY <1>5 DEF long, short

\* One more log is one more step of the fold.
LEMMA ReservationStep ==
    ASSUME NEW events, NEW e, NEW longer, OneMore(events, e, longer),
           \A n \in Settlements(events) : e.name = "IntentAdmitted" => e.intent # events[n].intent
    PROVE  ReservationsFromEvents(longer) = ReservationRows(ReservationsFromEvents(events), longer, e)
<1> DEFINE N == Len(events)
           long == ReservationHistory(longer)
<1>1. /\ N \in Nat /\ Len(longer) = N + 1 /\ longer[N + 1] = e /\ DOMAIN events = 1 .. N
      /\ \A n \in 1 .. N : longer[n] = events[n]
  BY Appended
<1>2. long[N] = ReservationHistory(events)[N]
  <2>1. \A n \in 1 .. N : events[n].name = "IntentReconciled" =>
          AdmissionOf(longer, events[n].intent) = AdmissionOf(events, events[n].intent)
    <3> SUFFICES ASSUME NEW n \in 1 .. N, events[n].name = "IntentReconciled"
                 PROVE  AdmissionOf(longer, events[n].intent) = AdmissionOf(events, events[n].intent)
      OBVIOUS
    <3>1. n \in Settlements(events)
      BY <1>1 DEF Settlements
    <3>2. e.name = "IntentAdmitted" => e.intent # events[n].intent
      BY <3>1
    <3>3. QED
      BY <3>1, <3>2, AdmissionStays
  <2>2. \A n \in 0 .. N : long[n] = ReservationHistory(events)[n]
    <3>1. /\ Len(longer) \in Nat /\ Len(events) <= Len(longer)
          /\ \A n \in 1 .. Len(events) :
                /\ longer[n] = events[n]
                /\ events[n].name = "IntentReconciled" =>
                     AdmissionOf(longer, events[n].intent) = AdmissionOf(events, events[n].intent)
      BY <1>1, <2>1
    <3>2. QED
      BY <1>1, <3>1, ReservationPrefix
  <2>3. QED
    BY <1>1, <2>2
<1>3. long[N + 1] = ReservationRows(long[N], longer, longer[N + 1])
  <2>1. long = [n \in 0 .. Len(longer) |-> IF n = 0 THEN << >> ELSE ReservationRows(long[n - 1], longer, longer[n])]
    BY <1>1, ReservationRecursion
  <2> HIDE DEF long
  <2>2. N + 1 \in 0 .. Len(longer) /\ N + 1 # 0 /\ (N + 1) - 1 = N
    BY <1>1
  <2>3. QED
    BY <2>1, <2>2
<1>4. QED
  BY <1>1, <1>2, <1>3 DEF ReservationsFromEvents

\* The same for the tracked markets.
LEMMA TrackedStep ==
    ASSUME NEW events, NEW e, NEW longer, OneMore(events, e, longer)
    PROVE  TrackedMarketsFromEvents(longer) = TrackedRows(TrackedMarketsFromEvents(events), e)
<1> DEFINE N == Len(events)
           long == TrackedHistory(longer)
           short == TrackedHistory(events)
           T == {n \in Nat : n <= N => long[n] = short[n]}
<1>1. /\ N \in Nat /\ Len(longer) = N + 1 /\ longer[N + 1] = e
      /\ \A n \in 1 .. N : longer[n] = events[n]
  BY Appended
<1>2. /\ \A n \in 0 .. N + 1 : long[n] = IF n = 0 THEN << >> ELSE TrackedRows(long[n - 1], longer[n])
      /\ \A n \in 0 .. N : short[n] = IF n = 0 THEN << >> ELSE TrackedRows(short[n - 1], events[n])
  <2>1. long = [n \in 0 .. Len(longer) |-> IF n = 0 THEN << >> ELSE TrackedRows(long[n - 1], longer[n])]
    BY <1>1, TrackedRecursion
  <2>2. short = [n \in 0 .. Len(events) |-> IF n = 0 THEN << >> ELSE TrackedRows(short[n - 1], events[n])]
    BY <1>1, TrackedRecursion
  <2> HIDE DEF long, short
  <2>3. QED
    BY <1>1, <2>1, <2>2
<1> HIDE DEF long, short, N
<1>3. 0 \in T
  BY <1>1, <1>2
<1>4. ASSUME NEW n \in T PROVE n + 1 \in T
  <2>1. CASE n + 1 <= N
    <3>1. n \in Nat /\ n + 1 \in 1 .. N /\ n + 1 \in 0 .. N /\ n + 1 \in 0 .. N + 1 /\ n + 1 # 0 /\ (n + 1) - 1 = n
      BY <1>1, <2>1
    <3>2. long[n + 1] = TrackedRows(long[n], longer[n + 1]) /\ short[n + 1] = TrackedRows(short[n], events[n + 1])
      BY <1>2, <3>1
    <3>3. long[n] = short[n] /\ longer[n + 1] = events[n + 1]
      BY <1>1, <3>1
    <3>4. QED
      BY <3>1, <3>2, <3>3
  <2>2. CASE ~ n + 1 <= N
    BY <2>2
  <2>3. QED
    BY <2>1, <2>2
<1>5. T = Nat
  <2> HIDE DEF T
  <2>1. T \in SUBSET Nat
    BY DEF T
  <2>2. QED
    BY <1>3, <1>4, <2>1, Induction
<1>6. long[N] = short[N]
  BY <1>1, <1>5
<1>7. long[N + 1] = TrackedRows(long[N], e)
  <2>1. N + 1 \in 0 .. N + 1 /\ N + 1 # 0 /\ (N + 1) - 1 = N
    BY <1>1
  <2>2. QED
    BY <1>1, <1>2, <2>1
<1>8. QED
  BY <1>1, <1>6, <1>7 DEF TrackedMarketsFromEvents, long, short, N

\* The folds of nothing
LEMMA NothingLogged ==
    /\ ReservationsFromEvents(<<>>) = << >>
    /\ TrackedMarketsFromEvents(<<>>) = << >>
<1>1. Len(<<>>) = 0 /\ 0 \in Nat /\ 0 \in 0 .. 0
  OBVIOUS
<1>2. ReservationHistory(<<>>)[0] = << >>
  <2>1. ReservationHistory(<<>>) =
          [n \in 0 .. Len(<<>>) |-> IF n = 0 THEN << >>
                                    ELSE ReservationRows(ReservationHistory(<<>>)[n - 1], <<>>, <<>>[n])]
    BY <1>1, ReservationRecursion
  <2>2. QED
    BY <1>1, <2>1
<1>3. TrackedHistory(<<>>)[0] = << >>
  <2>1. TrackedHistory(<<>>) =
          [n \in 0 .. Len(<<>>) |-> IF n = 0 THEN << >> ELSE TrackedRows(TrackedHistory(<<>>)[n - 1], <<>>[n])]
    BY <1>1, TrackedRecursion
  <2>2. QED
    BY <1>1, <2>1
<1>4. QED
  BY <1>1, <1>2, <1>3 DEF ReservationsFromEvents, TrackedMarketsFromEvents
-----------------------------------------------------------------------------
(* The inductive invariant: the log tells the contract's records, its      *)
(* lists and its settings.                                                 *)

OrderRows    == ReservationsFromEvents(log)
Tracked == TrackedMarketsFromEvents(log)

RowTypes == [agent : Agents, market : Markets, domain : Domains, kind : Kinds, qtyOpen : Nat]

\* The logs that name an intent
Hashed(events) == {n \in DOMAIN events : events[n].name \in {"IntentAdmitted", "IntentReconciled"}}

\* No intent is in the log that its agent's watermark does not cover, so that
\* the next one is new to it.
HashesUsed(events, nonces) == \A n \in Hashed(events) : events[n].intent[2] <= nonces[events[n].intent[1]]

AdmittedOnce(events) ==
  \A b, c \in Named(events, "IntentAdmitted") : b.intent = c.intent => b = c

RowsTyped(rows) == DOMAIN rows \subseteq OrderKeys /\ rows \in [DOMAIN rows -> RowTypes]

RowOf(rows, key) ==
  /\ orderRec[key].qtyOpen = IF key \in DOMAIN rows THEN rows[key].qtyOpen ELSE 0
  /\ orderRec[key].qtyOpen # 0 =>
       /\ rows[key].agent = orderRec[key].agent /\ rows[key].market = orderRec[key].market
       /\ rows[key].kind = orderRec[key].kind /\ rows[key].domain = DomainOf[orderRec[key].market]

RowsMatch == RowsTyped(OrderRows) /\ \A key \in OrderKeys : RowOf(OrderRows, key)

TrackedMatch ==
  /\ DOMAIN Tracked = {m \in Markets : marketState[m].tracked}
  /\ Tracked \in [DOMAIN Tracked -> [domain : Domains, redeemed : BOOLEAN]]
  /\ \A m \in DOMAIN Tracked : Tracked[m].domain = DomainOf[m]

SettingsMatch ==
  /\ ConfiguredDomains(log) = {d \in Domains : domainPolicy[d].configured}
  /\ \A a \in Agents : agentPolicy[a].enabled \/ agentNonce[a] # 0 => a \in AgentsFromEvents(log)

\* A request that has seen all of the log has read the total it explains.
AskMatch ==
  /\ ask \in [pc : {"idle", "total", "rows", "answered"}, seen : Nat, reserved : Nat, mismatch : BOOLEAN]
  /\ ask.seen \in 0 .. Len(log)
  /\ ask.pc = "rows" /\ ask.seen = Len(log) => ask.reserved = reservedCollateral
  /\ AlarmOnlyWhileMoving

LogInv == /\ log \in Seq(Logs) /\ HashesUsed(log, agentNonce) /\ AdmittedOnce(log)
          /\ RowsMatch /\ TrackedMatch /\ SettingsMatch /\ AskMatch

-----------------------------------------------------------------------------
(* One more log and what the invariant says of the log alone.              *)

\* The last policy of a domain decides.
LEMMA ConfiguredStep ==
    ASSUME NEW events, NEW e, NEW longer, OneMore(events, e, longer), NEW d \in Domains
    PROVE  d \in ConfiguredDomains(longer) <=>
             IF e.name = "DomainPolicySet" /\ e.domain = d THEN e.configured
             ELSE d \in ConfiguredDomains(events)
<1> DEFINE N == Len(events)
           Sets(ev, n) == ev[n].name = "DomainPolicySet" /\ ev[n].domain = d
           Deciding(ev, n) == Sets(ev, n) /\ \A k \in DOMAIN ev : k > n => ~ Sets(ev, k)
<1>1. /\ N \in Nat /\ DOMAIN events = 1 .. N /\ DOMAIN longer = 1 .. N + 1
      /\ longer[N + 1] = e /\ \A n \in 1 .. N : longer[n] = events[n]
  BY Appended
<1>2. \A ev : d \in ConfiguredDomains(ev) <=> \E n \in DOMAIN ev : Deciding(ev, n) /\ ev[n].configured
  BY DEF ConfiguredDomains
<1>3. CASE e.name = "DomainPolicySet" /\ e.domain = d
  <2>1. Sets(longer, N + 1)
    BY <1>1, <1>3
  <2>2. \A n \in 1 .. N : ~ Deciding(longer, n)
    BY <1>1, <2>1
  <2>3. Deciding(longer, N + 1)
    BY <1>1, <2>1
  <2> HIDE DEF Deciding, Sets
  <2>4. QED
    BY <1>1, <1>2, <1>3, <2>2, <2>3
<1>4. CASE ~ (e.name = "DomainPolicySet" /\ e.domain = d)
  <2>1. ~ Sets(longer, N + 1) /\ \A n \in 1 .. N : Sets(longer, n) <=> Sets(events, n)
    BY <1>1, <1>4
  <2> HIDE DEF Sets
  <2>2. ~ Deciding(longer, N + 1) /\ \A n \in 1 .. N : Deciding(longer, n) <=> Deciding(events, n)
    BY <1>1, <2>1
  <2> HIDE DEF Deciding
  <2>3. QED
    BY <1>1, <1>2, <1>4, <2>2
<1>5. QED
  BY <1>3, <1>4

\* A named log is at some place of the history.
LEMMA NamedAt ==
    ASSUME NEW events \in Seq(Logs), NEW name, NEW b \in Named(events, name)
    PROVE  b \in Logs /\ b.name = name /\ \E n \in DOMAIN events : events[n] = b
BY DEF Named, Seqs!ToSet

\* The watermarks cover the log when they cover its last entry and have not
\* been lowered.
LEMMA HashStep ==
    ASSUME NEW events, NEW e, NEW longer, OneMore(events, e, longer),
           NEW nonces \in [Agents -> Nat], NEW raised \in [Agents -> Nat], HashesUsed(events, nonces),
           \A a \in Agents : nonces[a] <= raised[a],
           e.name \in {"IntentAdmitted", "IntentReconciled"} => e.intent[2] <= raised[e.intent[1]]
    PROVE  HashesUsed(longer, raised)
<1>1. /\ Len(events) \in Nat /\ DOMAIN events = 1 .. Len(events) /\ DOMAIN longer = 1 .. Len(events) + 1
      /\ longer[Len(events) + 1] = e
      /\ \A n \in 1 .. Len(events) : longer[n] = events[n] /\ events[n] \in Logs
  BY Appended
<1>2. ASSUME NEW n \in Hashed(longer) PROVE longer[n].intent[2] <= raised[longer[n].intent[1]]
  <2>1. CASE n = Len(events) + 1
    BY <1>1, <1>2, <2>1 DEF Hashed
  <2>2. CASE n \in 1 .. Len(events)
    <3>1. n \in Hashed(events) /\ longer[n] = events[n] /\ events[n] \in Logs
      BY <1>1, <1>2, <2>2 DEF Hashed
    <3>2. events[n].intent \in Hashes
      BY <3>1, LogKinds DEF Hashed, Admissions, Reconciliations
    <3>3. events[n].intent[1] \in Agents /\ events[n].intent[2] \in Nat
      BY <3>2 DEF Hashes
    <3>4. events[n].intent[2] <= nonces[events[n].intent[1]]
      BY <3>1 DEF HashesUsed
    <3> DEFINE a == events[n].intent[1]
               x == events[n].intent[2]
    <3>5. a \in Agents /\ x \in Nat /\ x <= nonces[a] /\ nonces[a] <= raised[a]
      BY <3>3, <3>4
    <3>6. nonces[a] \in Nat /\ raised[a] \in Nat
      BY <3>5
    <3> HIDE DEF a, x
    <3>7. x <= raised[a]
      BY <3>5, <3>6
    <3>8. QED
      BY <3>1, <3>7 DEF a, x
  <2>3. QED
    BY <1>1, <1>2, <2>1, <2>2 DEF Hashed
<1>3. QED
  BY <1>2 DEF HashesUsed

\* A log that admits nothing keeps the admissions distinct, and so does one of
\* a new intent.
LEMMA AdmittedStep ==
    ASSUME NEW events, NEW e, NEW longer, OneMore(events, e, longer), AdmittedOnce(events),
           e.name = "IntentAdmitted" => \A b \in Named(events, "IntentAdmitted") : b.intent # e.intent
    PROVE  AdmittedOnce(longer)
<1>1. CASE e.name = "IntentAdmitted"
  <2>1. Named(longer, "IntentAdmitted") = Named(events, "IntentAdmitted") \cup {e}
    BY <1>1, NamedAppended
  <2>2. QED
    BY <1>1, <2>1 DEF AdmittedOnce
<1>2. CASE e.name # "IntentAdmitted"
  <2>1. Named(longer, "IntentAdmitted") = Named(events, "IntentAdmitted")
    BY <1>2, NamedAppended
  <2>2. QED
    BY <2>1 DEF AdmittedOnce
<1>3. QED
  BY <1>1, <1>2

\* An intent above its agent's watermark is new to the log.
LEMMA NewHash ==
    ASSUME NEW events \in Seq(Logs), NEW nonces \in [Agents -> Nat], HashesUsed(events, nonces),
           NEW hash \in Hashes, nonces[hash[1]] < hash[2]
    PROVE  /\ \A n \in Hashed(events) : hash # events[n].intent
           /\ \A n \in Settlements(events) : hash # events[n].intent
           /\ \A b \in Named(events, "IntentAdmitted") : b.intent # hash
<1>1. nonces[hash[1]] \in Nat /\ hash[2] \in Nat
  BY DEF Hashes
<1>2. \A n \in Hashed(events) : hash # events[n].intent
  <2> SUFFICES ASSUME NEW n \in Hashed(events), hash = events[n].intent PROVE FALSE
    OBVIOUS
  <2>1. hash[2] <= nonces[hash[1]]
    BY DEF HashesUsed
  <2>2. QED
    BY <1>1, <2>1
<1>3. \A n \in Settlements(events) : n \in Hashed(events)
  BY DEF Settlements, Hashed
<1>4. \A b \in Named(events, "IntentAdmitted") : b.intent # hash
  <2> SUFFICES ASSUME NEW b \in Named(events, "IntentAdmitted") PROVE b.intent # hash
    OBVIOUS
  <2>1. PICK n \in DOMAIN events : events[n] = b /\ b.name = "IntentAdmitted"
    BY NamedAt
  <2>2. n \in Hashed(events)
    BY <2>1 DEF Hashed
  <2>3. QED
    BY <1>2, <2>1, <2>2
<1>5. QED
  BY <1>2, <1>3, <1>4

\* A log that names no intent moves no watermark and admits nothing.
LEMMA PlainStep ==
    ASSUME NEW events, NEW e, NEW longer, OneMore(events, e, longer),
           NEW nonces \in [Agents -> Nat], HashesUsed(events, nonces), AdmittedOnce(events),
           e.name \notin {"IntentAdmitted", "IntentReconciled"}
    PROVE  /\ longer \in Seq(Logs) /\ Len(longer) = Len(events) + 1
           /\ HashesUsed(longer, nonces) /\ AdmittedOnce(longer)
           /\ ReservationsFromEvents(longer) =
                IF e.name = "ReservationReleased" THEN Released(ReservationsFromEvents(events), e)
                ELSE ReservationsFromEvents(events)
           /\ TrackedMarketsFromEvents(longer) = TrackedRows(TrackedMarketsFromEvents(events), e)
           /\ AgentsFromEvents(events) \subseteq AgentsFromEvents(longer)
           /\ e.name = "AgentSet" => e.agent \in AgentsFromEvents(longer)
           /\ e.name # "DomainPolicySet" => ConfiguredDomains(longer) = ConfiguredDomains(events)
<1>1. longer \in Seq(Logs) /\ Len(longer) = Len(events) + 1
  BY Appended
<1>2. HashesUsed(longer, nonces)
  <2>1. \A a \in Agents : nonces[a] <= nonces[a]
    OBVIOUS
  <2>2. QED
    BY <2>1, HashStep
<1>3. AdmittedOnce(longer)
  BY AdmittedStep
<1>4. ReservationsFromEvents(longer) = ReservationRows(ReservationsFromEvents(events), longer, e)
  <2>1. \A n \in Settlements(events) : e.name = "IntentAdmitted" => e.intent # events[n].intent
    OBVIOUS
  <2>2. QED
    BY <2>1, ReservationStep
<1>5. TrackedMarketsFromEvents(longer) = TrackedRows(TrackedMarketsFromEvents(events), e)
  BY TrackedStep
<1>6. /\ AgentsFromEvents(events) \subseteq AgentsFromEvents(longer)
      /\ e.name = "AgentSet" => e.agent \in AgentsFromEvents(longer)
  <2>1. Named(events, "AgentSet") \subseteq Named(longer, "AgentSet")
    BY NamedAppended
  <2>2. e.name = "AgentSet" => e \in Named(longer, "AgentSet")
    BY NamedAppended
  <2>3. QED
    BY <2>1, <2>2 DEF AgentsFromEvents
<1>7. ASSUME e.name # "DomainPolicySet" PROVE ConfiguredDomains(longer) = ConfiguredDomains(events)
  <2>1. \A d \in Domains : d \in ConfiguredDomains(longer) <=> d \in ConfiguredDomains(events)
    BY <1>7, ConfiguredStep
  <2>2. ConfiguredDomains(longer) \subseteq Domains /\ ConfiguredDomains(events) \subseteq Domains
    BY DEF ConfiguredDomains
  <2>3. QED
    BY <2>1, <2>2
<1>8. QED
  BY <1>1, <1>2, <1>3, <1>4, <1>5, <1>6, <1>7 DEF ReservationRows

\* An admission and its reconciliation, for an intent above its agent's
\* watermark, open the row of what rests.
LEMMA OrderLogged ==
    ASSUME NEW events, NEW adm, NEW rec, NEW mid, NEW longer,
           OneMore(events, adm, mid), OneMore(mid, rec, longer),
           NEW nonces \in [Agents -> Nat], HashesUsed(events, nonces), AdmittedOnce(events),
           NEW raised \in [Agents -> Nat], \A a \in Agents : nonces[a] <= raised[a],
           adm.name = "IntentAdmitted", rec.name = "IntentReconciled", adm.intent = rec.intent,
           nonces[adm.intent[1]] < adm.intent[2], adm.intent[2] <= raised[adm.intent[1]]
    PROVE  /\ longer \in Seq(Logs) /\ Len(longer) = Len(events) + 2
           /\ HashesUsed(longer, raised) /\ AdmittedOnce(longer)
           /\ AdmissionOf(longer, rec.intent) = adm
           /\ ReservationsFromEvents(longer) = Opened(ReservationsFromEvents(events), longer, rec)
           /\ TrackedMarketsFromEvents(longer) = TrackedMarketsFromEvents(events)
           /\ AgentsFromEvents(longer) = AgentsFromEvents(events)
           /\ ConfiguredDomains(longer) = ConfiguredDomains(events)
<1>1. /\ mid \in Seq(Logs) /\ longer \in Seq(Logs) /\ events \in Seq(Logs)
      /\ Len(events) \in Nat /\ Len(mid) = Len(events) + 1 /\ Len(longer) = Len(mid) + 1
  BY Appended DEF OneMore
<1>2. adm \in Admissions /\ rec \in Reconciliations /\ adm.intent \in Hashes
  <2>1. adm \in Logs /\ rec \in Logs
    BY DEF OneMore
  <2>2. QED
    BY <2>1, LogKinds DEF Admissions
<1>3. /\ \A n \in Settlements(events) : adm.intent # events[n].intent
      /\ \A b \in Named(events, "IntentAdmitted") : b.intent # adm.intent
  <2> DEFINE hash == adm.intent
  <2>1. hash \in Hashes /\ nonces[hash[1]] < hash[2]
    BY <1>2
  <2> HIDE DEF hash
  <2>2. /\ \A n \in Settlements(events) : hash # events[n].intent
        /\ \A b \in Named(events, "IntentAdmitted") : b.intent # hash
    BY <1>1, <2>1, NewHash
  <2>3. QED
    BY <2>2 DEF hash
<1>4. HashesUsed(mid, raised)
  BY HashStep
<1>5. HashesUsed(longer, raised)
  <2>1. \A a \in Agents : raised[a] <= raised[a]
    OBVIOUS
  <2>2. rec.intent[2] <= raised[rec.intent[1]]
    OBVIOUS
  <2>3. QED
    BY <1>4, <2>1, <2>2, HashStep
<1>6. AdmittedOnce(longer)
  <2>1. AdmittedOnce(mid)
    BY <1>3, AdmittedStep
  <2>2. QED
    BY <2>1, AdmittedStep
<1>7. Named(longer, "IntentAdmitted") = Named(events, "IntentAdmitted") \cup {adm}
  <2>1. Named(mid, "IntentAdmitted") = Named(events, "IntentAdmitted") \cup {adm}
    BY NamedAppended
  <2>2. Named(longer, "IntentAdmitted") = Named(mid, "IntentAdmitted")
    BY NamedAppended
  <2>3. QED
    BY <2>1, <2>2
<1>8. AdmissionOf(longer, rec.intent) = adm
  <2>1. {b \in Named(longer, "IntentAdmitted") : b.intent = rec.intent} = {adm}
    BY <1>3, <1>7
  <2>2. QED
    BY <2>1 DEF AdmissionOf
<1>9. ReservationsFromEvents(longer) = Opened(ReservationsFromEvents(events), longer, rec)
  <2>1. ReservationsFromEvents(mid) = ReservationRows(ReservationsFromEvents(events), mid, adm)
    BY <1>3, ReservationStep
  <2>2. ReservationsFromEvents(mid) = ReservationsFromEvents(events)
    BY <2>1 DEF ReservationRows
  <2>3. ReservationsFromEvents(longer) = ReservationRows(ReservationsFromEvents(mid), longer, rec)
    <3>1. \A n \in Settlements(mid) : rec.name = "IntentAdmitted" => rec.intent # mid[n].intent
      OBVIOUS
    <3>2. QED
      BY <3>1, ReservationStep
  <2>4. QED
    BY <2>2, <2>3 DEF ReservationRows
<1>10. TrackedMarketsFromEvents(longer) = TrackedMarketsFromEvents(events)
  <2>1. TrackedMarketsFromEvents(mid) = TrackedRows(TrackedMarketsFromEvents(events), adm)
    BY TrackedStep
  <2>2. TrackedMarketsFromEvents(longer) = TrackedRows(TrackedMarketsFromEvents(mid), rec)
    BY TrackedStep
  <2>3. QED
    BY <2>1, <2>2 DEF TrackedRows
<1>11. AgentsFromEvents(longer) = AgentsFromEvents(events)
  <2>1. Named(mid, "AgentSet") = Named(events, "AgentSet")
    BY NamedAppended
  <2>2. Named(longer, "AgentSet") = Named(mid, "AgentSet")
    BY NamedAppended
  <2>3. QED
    BY <2>1, <2>2 DEF AgentsFromEvents
<1>12. ConfiguredDomains(longer) = ConfiguredDomains(events)
  <2>1. \A d \in Domains : d \in ConfiguredDomains(mid) <=> d \in ConfiguredDomains(events)
    BY ConfiguredStep
  <2>2. \A d \in Domains : d \in ConfiguredDomains(longer) <=> d \in ConfiguredDomains(mid)
    BY ConfiguredStep
  <2>3. ConfiguredDomains(longer) \subseteq Domains /\ ConfiguredDomains(events) \subseteq Domains
    BY DEF ConfiguredDomains
  <2>4. QED
    BY <2>1, <2>2, <2>3
<1>13. QED
  BY <1>1, <1>5, <1>6, <1>8, <1>9, <1>10, <1>11, <1>12

-----------------------------------------------------------------------------
(* The steps of the contract under the log, and what a step leaves alone.  *)

\* A step of the portfolio with its log is a step of the portfolio.
LEMMA ViewsAreSteps ==
    ASSUME ViewsNext
    PROVE  [Next]_vars
<1>1. CASE PortfolioTransaction
  <2>1. ASSUME NEW a \in Agents, NEW i \in Intents, NEW n \in 1 .. MaxNonce, Executed(a, WithNonce(i, n))
        PROVE  Next
    BY <2>1 DEF Executed, Execute, AgentNext, Next
  <2>2. ASSUME NEW key \in OrderKeys, ReleasedOrder(key) PROVE Next
    BY <2>2 DEF ReleasedOrder, LifecycleNext, Next
  <2>3. ASSUME NEW m \in Markets, ReleaseSettled(m) \/ PruneMarket(m) PROVE Next
    BY <2>3 DEF LifecycleNext, Next
  <2>4. ASSUME OwnerNext PROVE Next
    BY <2>4 DEF Next
  <2>5. QED
    BY <1>1, <2>1, <2>2, <2>3, <2>4 DEF PortfolioTransaction, OwnerNext
<1>2. CASE VenueTransaction
  BY <1>2 DEF VenueTransaction, Next, OwnerNext
<1>3. CASE ViewNext
  BY <1>3 DEF ViewNext, AskIntegrity, ReadTotal, AnswerIntegrity
<1>4. QED
  BY <1>1, <1>2, <1>3 DEF ViewsNext, ChainStep

\* A log that names no intent is appended.
LEMMA PlainEmission ==
    ASSUME TypeOK, LogInv, NEW e \in Logs, log' = Append(log, e), UNCHANGED <<agentNonce, ask>>,
           e.name \notin {"IntentAdmitted", "IntentReconciled"}
    PROVE  /\ log' \in Seq(Logs) /\ HashesUsed(log', agentNonce') /\ AdmittedOnce(log') /\ AskMatch'
           /\ OrderRows' = IF e.name = "ReservationReleased" THEN Released(OrderRows, e) ELSE OrderRows
           /\ Tracked' = TrackedRows(Tracked, e)
           /\ AgentsFromEvents(log) \subseteq AgentsFromEvents(log')
           /\ e.name = "AgentSet" => e.agent \in AgentsFromEvents(log')
           /\ e.name # "DomainPolicySet" => ConfiguredDomains(log') = ConfiguredDomains(log)
<1> DEFINE longer == log'
           nonces == agentNonce
<1>1. OneMore(log, e, longer) /\ Len(log) \in Nat
  BY DEF OneMore, LogInv
<1>2. nonces \in [Agents -> Nat] /\ HashesUsed(log, nonces) /\ AdmittedOnce(log)
  BY DEF TypeOK, LogInv
<1> HIDE DEF longer, nonces
<1>3. /\ longer \in Seq(Logs) /\ Len(longer) = Len(log) + 1
      /\ HashesUsed(longer, nonces) /\ AdmittedOnce(longer)
      /\ ReservationsFromEvents(longer) =
           IF e.name = "ReservationReleased" THEN Released(ReservationsFromEvents(log), e)
           ELSE ReservationsFromEvents(log)
      /\ TrackedMarketsFromEvents(longer) = TrackedRows(TrackedMarketsFromEvents(log), e)
      /\ AgentsFromEvents(log) \subseteq AgentsFromEvents(longer)
      /\ e.name = "AgentSet" => e.agent \in AgentsFromEvents(longer)
      /\ e.name # "DomainPolicySet" => ConfiguredDomains(longer) = ConfiguredDomains(log)
  BY <1>1, <1>2, PlainStep
<1>4. AskMatch'
  <2>1. Len(log') = Len(log) + 1
    BY <1>3 DEF longer
  <2>2. ask.seen \in 0 .. Len(log)
    BY DEF LogInv, AskMatch
  <2>3. ask'.seen \in 0 .. Len(log') /\ ask'.seen < Len(log')
    BY <1>1, <2>1, <2>2
  <2>4. QED
    BY <1>1, <2>3 DEF LogInv, AskMatch, AlarmOnlyWhileMoving
<1>5. QED
  BY <1>3, <1>4 DEF longer, nonces, OrderRows, Tracked

LEMMA RowsKept ==
    ASSUME RowsMatch, OrderRows' = OrderRows, UNCHANGED orderRec
    PROVE  RowsMatch'
BY DEF RowsMatch, RowsTyped, RowOf

LEMMA TrackedKept ==
    ASSUME TrackedMatch, Tracked' = Tracked, \A m \in Markets : marketState'[m].tracked = marketState[m].tracked
    PROVE  TrackedMatch'
<1>1. {m \in Markets : marketState'[m].tracked} = {m \in Markets : marketState[m].tracked}
  OBVIOUS
<1>2. QED
  BY <1>1 DEF TrackedMatch

LEMMA SettingsKept ==
    ASSUME SettingsMatch, UNCHANGED <<domainPolicy, agentPolicy, agentNonce>>,
           ConfiguredDomains(log') = ConfiguredDomains(log), AgentsFromEvents(log) \subseteq AgentsFromEvents(log')
    PROVE  SettingsMatch'
BY DEF SettingsMatch

\* A transaction whose log no fold reads, and that moves nothing they fold.
LEMMA UnreadStep ==
    ASSUME TypeOK, LogInv, NEW e \in Logs, log' = Append(log, e), UNCHANGED ask,
           UNCHANGED <<domainPolicy, agentPolicy, agentNonce, orderRec, reservedCollateral>>,
           e.name \notin {"IntentAdmitted", "IntentReconciled", "ReservationReleased", "DomainPolicySet"},
           Tracked' = TrackedRows(Tracked, e) => TrackedMatch'
    PROVE  LogInv'
<1>1. /\ log' \in Seq(Logs) /\ HashesUsed(log', agentNonce') /\ AdmittedOnce(log') /\ AskMatch'
      /\ OrderRows' = OrderRows /\ Tracked' = TrackedRows(Tracked, e)
      /\ AgentsFromEvents(log) \subseteq AgentsFromEvents(log')
      /\ ConfiguredDomains(log') = ConfiguredDomains(log)
  BY PlainEmission
<1>2. RowsMatch'
  BY <1>1, RowsKept DEF LogInv
<1>3. SettingsMatch'
  BY <1>1, SettingsKept DEF LogInv
<1>4. QED
  BY <1>1, <1>2, <1>3 DEF LogInv

\* A transaction with a single log
LEMMA EmitsOne ==
    ASSUME LogInv, NEW e, Emit(<<e>>)
    PROVE  log' = Append(log, e)
<1>1. log' = log \o <<e>> /\ log \in Seq(Logs)
  BY DEF Emit, LogInv
<1>2. QED
  BY <1>1

-----------------------------------------------------------------------------
(* One step for each of the contract's transactions.                       *)

\* A release takes from the row what it takes from the record.
LEMMA ReleasedOrderStep ==
    ASSUME CeilingInv, LogInv, NEW key \in OrderKeys, ReleasedOrder(key), UNCHANGED ask
    PROVE  LogInv'
<1> DEFINE o == orderRec[key]
           gone == o.qtyOpen - StillOpen(key)
           coll == CollateralReleased(o, gone)
           e == ReservationReleased(key, o.market, gone, coll)
<1>1. TypeInv /\ TypeOK /\ ReleaseOrder(key) /\ Emit(<<e>>)
  BY DEF CeilingInv, BooksInv, TypeInv, ReleasedOrder
<1>2. /\ key \in Records /\ gone \in 1 .. o.qtyOpen /\ o.market \in Markets
      /\ \A k \in OrderKeys \ {key} : orderRec'[k] = orderRec[k]
      /\ orderRec'[key].qtyOpen = o.qtyOpen - gone
      /\ gone # o.qtyOpen => /\ orderRec'[key].agent = o.agent
                             /\ orderRec'[key].market = o.market
                             /\ orderRec'[key].kind = o.kind
      /\ \A n \in Markets : marketState'[n].tracked = marketState[n].tracked
      /\ coll \in Nat
  BY <1>1, ReleaseEffects
<1>3. o.qtyOpen \in Nat \ {0}
  BY <1>1, <1>2, RecordFields DEF Records
<1>4. UNCHANGED <<domainPolicy, agentPolicy, agentNonce>>
  BY <1>1 DEF ReleaseOrder, policyVars, agentVars
<1> HIDE DEF gone, coll
<1>5. e \in Logs /\ e.name = "ReservationReleased" /\ e.key = key /\ e.qty = gone
  BY <1>2, <1>3 DEF ReservationReleased, Releases, Logs
<1> HIDE DEF e
<1>6. log' = Append(log, e)
  BY <1>1, EmitsOne
<1>7. /\ log' \in Seq(Logs) /\ HashesUsed(log', agentNonce') /\ AdmittedOnce(log') /\ AskMatch'
      /\ OrderRows' = Released(OrderRows, e) /\ Tracked' = TrackedRows(Tracked, e)
      /\ AgentsFromEvents(log) \subseteq AgentsFromEvents(log')
      /\ ConfiguredDomains(log') = ConfiguredDomains(log)
  BY <1>1, <1>4, <1>5, <1>6, PlainEmission
<1>8. TrackedMatch'
  BY <1>2, <1>5, <1>7, TrackedKept DEF LogInv, TrackedRows
<1>9. SettingsMatch'
  BY <1>4, <1>7, SettingsKept DEF LogInv
<1>10. RowsMatch'
  <2>1. /\ RowsTyped(OrderRows) /\ \A k \in OrderKeys : RowOf(OrderRows, k)
    BY DEF LogInv, RowsMatch
  <2>2. key \in DOMAIN OrderRows /\ OrderRows[key].qtyOpen = o.qtyOpen /\ OrderRows[key] \in RowTypes
    BY <1>3, <2>1 DEF RowOf, RowsTyped
  <2>3. OrderRows' = [OrderRows EXCEPT ![key].qtyOpen = o.qtyOpen - gone]
    <3>1. OrderRows' = [OrderRows EXCEPT ![key].qtyOpen = Less(@, gone)]
      BY <1>5, <1>7, <2>2 DEF Released
    <3>2. Less(OrderRows[key].qtyOpen, gone) = o.qtyOpen - gone
      BY <1>2, <1>3, <2>2 DEF Less
    <3>3. QED
      BY <3>1, <3>2
  <2>4. RowsTyped(OrderRows')
    BY <1>2, <1>3, <2>1, <2>2, <2>3 DEF RowsTyped, RowTypes
  <2>5. /\ DOMAIN OrderRows' = DOMAIN OrderRows
        /\ \A k \in DOMAIN OrderRows \ {key} : OrderRows'[k] = OrderRows[k]
        /\ OrderRows'[key].qtyOpen = o.qtyOpen - gone
        /\ OrderRows'[key].agent = OrderRows[key].agent /\ OrderRows'[key].market = OrderRows[key].market
        /\ OrderRows'[key].kind = OrderRows[key].kind /\ OrderRows'[key].domain = OrderRows[key].domain
    BY <2>1, <2>2, <2>3 DEF RowsTyped, RowTypes
  <2>6. ASSUME NEW k \in OrderKeys PROVE RowOf(OrderRows, k)'
    <3>1. CASE k = key
      BY <1>2, <1>3, <2>1, <2>2, <2>5, <3>1 DEF RowOf
    <3>2. CASE k # key
      <4>1. orderRec'[k] = orderRec[k] /\ (k \in DOMAIN OrderRows' <=> k \in DOMAIN OrderRows)
            /\ (k \in DOMAIN OrderRows => OrderRows'[k] = OrderRows[k]) /\ RowOf(OrderRows, k)
        BY <1>2, <2>1, <2>5, <3>2
      <4>2. orderRec[k].qtyOpen # 0 => k \in DOMAIN OrderRows
        BY <4>1 DEF RowOf
      <4>3. QED
        BY <4>1, <4>2 DEF RowOf
    <3>3. QED
      BY <3>1, <3>2
  <2>7. QED
    BY <2>4, <2>6 DEF RowsMatch
<1>11. QED
  BY <1>7, <1>8, <1>9, <1>10 DEF LogInv

\* A market's end, or its redemption, moves no list.
LEMMA MarketEndStep ==
    ASSUME CeilingInv, LogInv, NEW m \in Markets, UNCHANGED ask,
           \/ ReleaseSettled(m) /\ Emit(<<SettledExposureReleased(m)>>)
           \/ \E side \in Sides, n \in Amounts : Redeem(m, side, n) /\ Emit(<<Redeemed(m)>>)
    PROVE  LogInv'
<1>1. TypeOK /\ marketState \in [Markets -> MarketStates]
  BY DEF CeilingInv, BooksInv, TypeInv, TypeOK
<1>2. PICK e \in {SettledExposureReleased(m), Redeemed(m)} : Emit(<<e>>)
  OBVIOUS
<1>3. e \in Logs /\ e.name \in {"SettledExposureReleased", "Redeemed"} /\ e.market = m
  BY DEF SettledExposureReleased, Redeemed, Logs, MarketChanges
<1>4. log' = Append(log, e)
  BY <1>2, EmitsOne
<1>5. /\ UNCHANGED <<domainPolicy, agentPolicy, agentNonce, orderRec, reservedCollateral>>
      /\ \A n \in Markets : marketState'[n].tracked = marketState[n].tracked
  <2>1. CASE ReleaseSettled(m)
    <3>1. /\ UNCHANGED <<domainPolicy, agentPolicy, agentNonce, orderRec, reservedCollateral>>
          /\ marketState' = [marketState EXCEPT ![m] =
                [marketState[m] EXCEPT !.open = NoReservation, !.settled = TRUE]]
      BY <2>1 DEF ReleaseSettled, policyVars, agentVars, bookVars
    <3>2. QED
      BY <1>1, <3>1 DEF MarketStates
  <2>2. CASE \E side \in Sides, n \in Amounts : Redeem(m, side, n)
    BY <2>2 DEF Redeem, portfolioVars, policyVars, agentVars, marketVars, bookVars
  <2>3. QED
    BY <2>1, <2>2
<1>6. ASSUME Tracked' = TrackedRows(Tracked, e) PROVE TrackedMatch'
  <2>1. TrackedMatch
    BY DEF LogInv
  <2>2. \/ Tracked' = Tracked
        \/ m \in DOMAIN Tracked /\ Tracked' = [Tracked EXCEPT ![m].redeemed = TRUE]
    BY <1>3, <1>6 DEF TrackedRows
  <2>3. /\ DOMAIN Tracked' = DOMAIN Tracked
        /\ Tracked' \in [DOMAIN Tracked -> [domain : Domains, redeemed : BOOLEAN]]
        /\ \A n \in DOMAIN Tracked : Tracked'[n].domain = Tracked[n].domain
    BY <2>1, <2>2 DEF TrackedMatch
  <2>4. {n \in Markets : marketState'[n].tracked} = {n \in Markets : marketState[n].tracked}
    BY <1>5
  <2>5. QED
    BY <2>1, <2>3, <2>4 DEF TrackedMatch
<1>7. QED
  BY <1>1, <1>3, <1>4, <1>5, <1>6, UnreadStep

\* A pruned market leaves the list.
LEMMA PrunedStep ==
    ASSUME CeilingInv, LogInv, NEW m \in Markets, PruneMarket(m), Emit(<<MarketPruned(m)>>), UNCHANGED ask
    PROVE  LogInv'
<1> DEFINE e == MarketPruned(m)
<1>1. TypeOK /\ marketState \in [Markets -> MarketStates]
  BY DEF CeilingInv, BooksInv, TypeInv, TypeOK
<1>2. e \in Logs /\ e.name = "MarketPruned" /\ e.market = m /\ log' = Append(log, e)
  BY EmitsOne DEF MarketPruned, Logs, MarketChanges
<1>3. /\ UNCHANGED <<domainPolicy, agentPolicy, agentNonce, orderRec, reservedCollateral>>
      /\ marketState' = [marketState EXCEPT ![m] = [marketState[m] EXCEPT !.tracked = FALSE]]
  BY DEF PruneMarket, policyVars, agentVars, bookVars
<1> HIDE DEF e
<1>4. ASSUME Tracked' = TrackedRows(Tracked, e) PROVE TrackedMatch'
  <2>1. TrackedMatch
    BY DEF LogInv
  <2>2. Tracked' = [n \in DOMAIN Tracked \ {m} |-> Tracked[n]]
    BY <1>2, <1>4 DEF TrackedRows
  <2>3. {n \in Markets : marketState'[n].tracked} = {n \in Markets : marketState[n].tracked} \ {m}
    BY <1>1, <1>3 DEF MarketStates
  <2>4. QED
    BY <2>1, <2>2, <2>3 DEF TrackedMatch
<1>5. QED
  BY <1>1, <1>2, <1>3, <1>4, UnreadStep

\* The owner's settings and the lists of them
LEMMA PolicyStep ==
    ASSUME CeilingInv, LogInv, NEW d \in Domains, NEW dp \in DomainPolicies,
           SetDomainPolicy(d, dp), Emit(<<DomainPolicySet(d, dp.configured)>>), UNCHANGED ask
    PROVE  LogInv'
<1> DEFINE e == DomainPolicySet(d, dp.configured)
<1>1. TypeOK /\ domainPolicy \in [Domains -> DomainPolicyType] /\ dp \in DomainPolicyType
  BY PortfolioAssumption DEF CeilingInv, BooksInv, TypeInv, TypeOK
<1>2. /\ e \in Logs /\ e.name = "DomainPolicySet" /\ e.domain = d /\ e.configured = dp.configured
      /\ log' = Append(log, e)
  BY <1>1, EmitsOne DEF DomainPolicySet, Logs, PolicyChanges, DomainPolicyType
<1>3. /\ UNCHANGED <<agentPolicy, agentNonce, orderRec, reservedCollateral, marketState>>
      /\ domainPolicy' = [domainPolicy EXCEPT ![d] = dp]
  BY DEF SetDomainPolicy, agentVars, bookVars, marketVars
<1> HIDE DEF e
<1>4. /\ log' \in Seq(Logs) /\ HashesUsed(log', agentNonce') /\ AdmittedOnce(log') /\ AskMatch'
      /\ OrderRows' = OrderRows /\ Tracked' = TrackedRows(Tracked, e)
      /\ AgentsFromEvents(log) \subseteq AgentsFromEvents(log')
  BY <1>1, <1>2, <1>3, PlainEmission
<1>5. RowsMatch'
  BY <1>3, <1>4, RowsKept DEF LogInv
<1>6. TrackedMatch'
  <2>1. Tracked' = Tracked
    BY <1>2, <1>4 DEF TrackedRows
  <2>2. QED
    BY <1>3, <2>1, TrackedKept DEF LogInv
<1>7. ConfiguredDomains(log') = {c \in Domains : domainPolicy'[c].configured}
  <2> DEFINE longer == log'
  <2>1. OneMore(log, e, longer)
    BY <1>2 DEF OneMore, LogInv
  <2> HIDE DEF longer
  <2>2. \A c \in Domains : c \in ConfiguredDomains(longer) <=>
           IF c = d THEN dp.configured ELSE c \in ConfiguredDomains(log)
    BY <1>2, <2>1, ConfiguredStep
  <2>3. ConfiguredDomains(log) = {c \in Domains : domainPolicy[c].configured}
    BY DEF LogInv, SettingsMatch
  <2>4. \A c \in Domains : domainPolicy'[c] = IF c = d THEN dp ELSE domainPolicy[c]
    BY <1>1, <1>3
  <2>5. ConfiguredDomains(longer) \subseteq Domains
    BY DEF ConfiguredDomains
  <2>6. QED
    BY <2>2, <2>3, <2>4, <2>5 DEF longer
<1>8. SettingsMatch'
  BY <1>3, <1>4, <1>7 DEF LogInv, SettingsMatch
<1>9. QED
  BY <1>4, <1>5, <1>6, <1>8 DEF LogInv

LEMMA AgentStep ==
    ASSUME CeilingInv, LogInv, NEW a \in Agents, UNCHANGED ask,
           \/ \E ap \in AgentPolicies : SetAgent(a, ap) /\ Emit(<<AgentSet(a)>>)
           \/ RevokeAgent(a) /\ Emit(<<AgentRevoked(a)>>)
    PROVE  LogInv'
<1>1. TypeOK /\ agentPolicy \in [Agents -> AgentPolicyType]
  BY DEF CeilingInv, BooksInv, TypeInv, TypeOK
<1>2. PICK e \in {AgentSet(a), AgentRevoked(a)} :
        /\ Emit(<<e>>)
        /\ e = AgentRevoked(a) => RevokeAgent(a)
        /\ \E ap \in AgentPolicyType : SetAgent(a, ap)
  <2>1. CASE RevokeAgent(a) /\ Emit(<<AgentRevoked(a)>>)
    <3>1. [agentPolicy[a] EXCEPT !.enabled = FALSE] \in AgentPolicyType
      BY <1>1 DEF AgentPolicyType
    <3>2. QED
      BY <2>1, <3>1 DEF RevokeAgent
  <2>2. CASE \E ap \in AgentPolicies : SetAgent(a, ap) /\ Emit(<<AgentSet(a)>>)
    <3>1. AgentPolicies \subseteq AgentPolicyType /\ AgentSet(a) # AgentRevoked(a)
      BY PortfolioAssumption DEF AgentSet, AgentRevoked
    <3>2. QED
      BY <2>2, <3>1
  <2>3. QED
    BY <2>1, <2>2
<1>3. /\ e \in Logs /\ e.name \in {"AgentSet", "AgentRevoked"} /\ e.agent = a
      /\ e.name = "AgentRevoked" => e = AgentRevoked(a)
      /\ log' = Append(log, e)
  BY <1>2, EmitsOne DEF AgentSet, AgentRevoked, Logs, AgentChanges
<1>4. /\ UNCHANGED <<domainPolicy, agentNonce, orderRec, reservedCollateral, marketState>>
      /\ \A b \in Agents \ {a} : agentPolicy'[b] = agentPolicy[b]
  BY <1>1, <1>2 DEF SetAgent, agentVars, bookVars, marketVars
<1>5. ASSUME e.name = "AgentRevoked" PROVE ~ agentPolicy'[a].enabled
  <2>1. agentPolicy' = [agentPolicy EXCEPT ![a] =
           [[agentPolicy[a] EXCEPT !.enabled = FALSE] EXCEPT !.registered = TRUE]]
    BY <1>2, <1>3, <1>5 DEF RevokeAgent, SetAgent
  <2>2. QED
    BY <1>1, <2>1 DEF AgentPolicyType
<1>6. /\ log' \in Seq(Logs) /\ HashesUsed(log', agentNonce') /\ AdmittedOnce(log') /\ AskMatch'
      /\ OrderRows' = OrderRows /\ Tracked' = TrackedRows(Tracked, e)
      /\ AgentsFromEvents(log) \subseteq AgentsFromEvents(log')
      /\ e.name = "AgentSet" => a \in AgentsFromEvents(log')
      /\ ConfiguredDomains(log') = ConfiguredDomains(log)
  BY <1>1, <1>3, <1>4, PlainEmission
<1>7. RowsMatch'
  BY <1>4, <1>6, RowsKept DEF LogInv
<1>8. TrackedMatch'
  <2>1. Tracked' = Tracked
    BY <1>3, <1>6 DEF TrackedRows
  <2>2. QED
    BY <1>4, <2>1, TrackedKept DEF LogInv
<1>9. SettingsMatch'
  <2>1. ASSUME NEW b \in Agents, agentPolicy'[b].enabled \/ agentNonce'[b] # 0
        PROVE  b \in AgentsFromEvents(log')
    <3>1. CASE agentPolicy[b].enabled \/ agentNonce[b] # 0
      BY <1>6, <3>1 DEF LogInv, SettingsMatch
    <3>2. CASE ~ (agentPolicy[b].enabled \/ agentNonce[b] # 0)
      <4>1. b = a /\ agentPolicy'[a].enabled
        BY <1>4, <2>1, <3>2
      <4>2. QED
        BY <1>3, <1>5, <1>6, <4>1
    <3>3. QED
      BY <3>1, <3>2
  <2>2. QED
    BY <1>4, <1>6, <2>1 DEF LogInv, SettingsMatch
<1>10. QED
  BY <1>6, <1>7, <1>8, <1>9 DEF LogInv

\* What the owner sets or moves besides, no fold reads.
LEMMA FundsStep ==
    ASSUME CeilingInv, LogInv, UNCHANGED ask,
           NEW e \in Unreads, Emit(<<e>>),
           \/ \E gp \in GlobalPolicies : SetGlobalPolicy(gp)
           \/ \E n \in Amounts : Fund(n) \/ SetCapitalBase(n) \/ Withdraw(n)
           \/ \E t \in TokenIds, n \in Amounts : WithdrawOutcome(t, n)
    PROVE  LogInv'
<1>1. TypeOK
  BY DEF CeilingInv, BooksInv, TypeInv
<1>2. e \in Logs /\ log' = Append(log, e)
      /\ e.name \in {"GlobalPolicySet", "Funded", "CapitalBaseSet", "Withdrawn", "OutcomeWithdrawn"}
  BY EmitsOne DEF Logs, Unreads
<1>3. UNCHANGED <<domainPolicy, agentPolicy, agentNonce, orderRec, reservedCollateral, marketState>>
  BY DEF SetGlobalPolicy, Fund, SetCapitalBase, Withdraw, WithdrawOutcome,
     portfolioVars, policyVars, agentVars, marketVars, bookVars
<1>4. ASSUME Tracked' = TrackedRows(Tracked, e) PROVE TrackedMatch'
  <2>1. Tracked' = Tracked
    BY <1>2, <1>4 DEF TrackedRows
  <2>2. QED
    BY <1>3, <2>1, TrackedKept DEF LogInv
<1>5. QED
  BY <1>1, <1>2, <1>3, <1>4, UnreadStep

\* The logs before an order's own: the market's, when it was not tracked.
LogBefore(m) == IF marketState[m].tracked THEN log ELSE Append(log, MarketTracked(m, DomainOf[m]))

LEMMA TrackingLogged ==
    ASSUME TypeOK, LogInv, NEW m \in Markets, DomainOf[m] \in Domains, NEW base, base = LogBefore(m)
    PROVE  /\ base \in Seq(Logs) /\ Len(base) \in Nat /\ Len(log) <= Len(base)
           /\ HashesUsed(base, agentNonce) /\ AdmittedOnce(base)
           /\ ReservationsFromEvents(base) = OrderRows
           /\ TrackedMarketsFromEvents(base) =
                IF marketState[m].tracked THEN Tracked
                ELSE Put(Tracked, m, [domain |-> DomainOf[m], redeemed |-> FALSE])
           /\ AgentsFromEvents(log) \subseteq AgentsFromEvents(base)
           /\ ConfiguredDomains(base) = ConfiguredDomains(log)
<1>1. /\ log \in Seq(Logs) /\ HashesUsed(log, agentNonce) /\ AdmittedOnce(log)
      /\ Len(log) \in Nat /\ agentNonce \in [Agents -> Nat]
  BY DEF LogInv, TypeOK
<1>2. CASE marketState[m].tracked
  BY <1>1, <1>2 DEF OrderRows, Tracked, LogBefore
<1>3. CASE ~ marketState[m].tracked
  <2> DEFINE e == MarketTracked(m, DomainOf[m])
  <2>1. e \in Logs /\ e.name = "MarketTracked" /\ e.market = m /\ e.domain = DomainOf[m]
    BY DEF MarketTracked, Logs, Trackings
  <2>2. OneMore(log, e, base)
    BY <1>1, <1>3, <2>1 DEF OneMore, LogBefore
  <2> HIDE DEF e
  <2>3. /\ base \in Seq(Logs) /\ Len(base) = Len(log) + 1
        /\ HashesUsed(base, agentNonce) /\ AdmittedOnce(base)
        /\ ReservationsFromEvents(base) = OrderRows
        /\ TrackedMarketsFromEvents(base) = TrackedRows(Tracked, e)
        /\ AgentsFromEvents(log) \subseteq AgentsFromEvents(base)
        /\ ConfiguredDomains(base) = ConfiguredDomains(log)
    BY <1>1, <2>1, <2>2, PlainStep DEF OrderRows, Tracked
  <2>4. TrackedRows(Tracked, e) = Put(Tracked, m, [domain |-> DomainOf[m], redeemed |-> FALSE])
    BY <2>1 DEF TrackedRows
  <2>5. QED
    BY <1>1, <1>3, <2>3, <2>4
<1>4. QED
  BY <1>2, <1>3

\* What an admitted order reads, and what its placement leaves.
LEMMA AdmittedFacts ==
    ASSUME CeilingInv, NEW a \in Agents, NEW i \in NoncedIntents,
           NEW filled \in 0 .. i.quantity, NEW resting \in 0 .. i.quantity,
           NEW collOut \in 0 .. ReserveRequired(i),
           Admissible(a, i), PlaceAndReconcile(a, i, filled, resting, collOut)
    PROVE  /\ TypeOK /\ i.market \in Markets /\ i.pool \in Pools /\ i.marketNonce \in Gens /\ i.kind \in Kinds
           /\ DomainOf[i.market] \in Domains /\ nextId[i.pool] \in OrderIds
           /\ <<a, i.nonce>> \in Hashes /\ agentNonce[a] < i.nonce
           /\ agentNonce' = [agentNonce EXCEPT ![a] = i.nonce] /\ agentPolicy[a].enabled
           /\ ReserveRequired(i) \in Nat /\ resting \in Nat
           /\ UNCHANGED <<domainPolicy, agentPolicy>>
           /\ marketState'[i.market].tracked
           /\ \A n \in Markets \ {i.market} : marketState'[n].tracked = marketState[n].tracked
<1>1. /\ TypeOK /\ PastMarketsOver /\ PinnedToItsGeneration
      /\ marketState \in [Markets -> MarketStates] /\ agentNonce \in [Agents -> Nat]
  BY DEF CeilingInv, BooksInv, TypeInv, TypeOK
<1>2. /\ i.market \in Markets /\ i.pool \in Pools /\ i.marketNonce \in Gens /\ i.kind \in Kinds
      /\ i.nonce \in Nat /\ i.quantity \in Nat /\ resting \in Nat
  BY IntentFields
<1>3. DomainOf[i.market] \in Domains
  BY <1>2, PortfolioAssumption DEF Admissible, MarketGates
<1>4. agentNonce[a] < i.nonce /\ agentPolicy[a].enabled /\ agentNonce[a] \in Nat
  BY <1>1 DEF Admissible, AgentGates
<1>5. <<a, i.nonce>> \in Hashes
  BY <1>2, <1>4 DEF Hashes
<1>6. nextId[i.pool] \in OrderIds
  BY <1>1, PlacedVenue
<1>7. ReserveRequired(i) \in Nat
  BY <1>1, OrderTyped
<1>8. /\ agentNonce' = [agentNonce EXCEPT ![a] = i.nonce]
      /\ UNCHANGED <<domainPolicy, agentPolicy>>
      /\ marketState' = [marketState EXCEPT ![i.market] = [Pinned(i) EXCEPT !.open = ReservedOpen(i, resting)]]
  BY DEF PlaceAndReconcile, policyVars
<1>9. /\ marketState'[i.market].tracked
      /\ \A n \in Markets \ {i.market} : marketState'[n] = marketState[n]
  BY <1>1, <1>2, <1>8 DEF Pinned, MarketStates
<1>10. QED
  BY <1>1, <1>2, <1>3, <1>4, <1>5, <1>6, <1>7, <1>8, <1>9

\* An executed intent's row is its record, and its market is listed.
LEMMA ExecutedStep ==
    ASSUME CeilingInv, LogInv, NEW a \in Agents, NEW i \in NoncedIntents, Executed(a, i), UNCHANGED ask
    PROVE  LogInv'
<1>1. PICK filled \in 0 .. i.quantity, resting \in 0 .. i.quantity, collOut \in 0 .. ReserveRequired(i) :
        /\ Admissible(a, i)
        /\ PlaceAndReconcile(a, i, filled, resting, collOut)
        /\ LET tracking == IF marketState[i.market].tracked THEN <<>> ELSE <<MarketTracked(i.market, DomainOf[i.market])>>
           IN Emit(tracking \o <<IntentAdmitted(<<a, i.nonce>>, i, nextId[i.pool]),
                                 IntentReconciled(<<a, i.nonce>>, ReserveRequired(i), resting)>>)
  BY DEF Executed
<1> DEFINE m == i.market
           adm == IntentAdmitted(<<a, i.nonce>>, i, nextId[i.pool])
           rec == IntentReconciled(<<a, i.nonce>>, ReserveRequired(i), resting)
           trk == MarketTracked(m, DomainOf[m])
           base == LogBefore(m)
           mid == Append(base, adm)
           key == NewKey(i)
<1>2. /\ TypeOK /\ m \in Markets /\ i.pool \in Pools /\ i.marketNonce \in Gens /\ i.kind \in Kinds
      /\ DomainOf[m] \in Domains /\ nextId[i.pool] \in OrderIds
      /\ <<a, i.nonce>> \in Hashes /\ agentNonce[a] < i.nonce
      /\ agentNonce' = [agentNonce EXCEPT ![a] = i.nonce] /\ agentPolicy[a].enabled
      /\ ReserveRequired(i) \in Nat /\ resting \in Nat
      /\ UNCHANGED <<domainPolicy, agentPolicy>>
      /\ marketState'[m].tracked
      /\ \A n \in Markets \ {m} : marketState'[n].tracked = marketState[n].tracked
  BY <1>1, AdmittedFacts
<1>3. /\ adm \in Logs /\ adm.name = "IntentAdmitted" /\ adm.intent = <<a, i.nonce>>
      /\ adm.market = m /\ adm.domain = DomainOf[m] /\ adm.kind = i.kind
      /\ OrderKey(adm.pool, adm.marketNonce, adm.orderId) = key
  BY <1>2 DEF IntentAdmitted, Logs, Admissions, NewKey
<1>4. /\ rec \in Logs /\ rec.name = "IntentReconciled" /\ rec.intent = <<a, i.nonce>> /\ rec.restingQty = resting
  BY <1>2 DEF IntentReconciled, Logs, Reconciliations
<1>5. trk \in Logs
  BY <1>2 DEF MarketTracked, Logs, Trackings
<1>6. log' = Append(mid, rec)
  <2>1. log \in Seq(Logs)
    BY DEF LogInv
  <2>2. log' = log \o ((IF marketState[m].tracked THEN <<>> ELSE <<trk>>) \o <<adm, rec>>)
    BY <1>1 DEF Emit
  <2> HIDE DEF adm, rec, trk, m
  <2>3. CASE marketState[m].tracked
    <3>1. log' = log \o <<adm, rec>>
      BY <1>3, <1>4, <2>2, <2>3
    <3>2. QED
      BY <1>3, <1>4, <2>1, <2>3, <3>1 DEF LogBefore
  <2>4. CASE ~ marketState[m].tracked
    <3>1. log' = log \o <<trk, adm, rec>>
      BY <1>3, <1>4, <1>5, <2>2, <2>4
    <3>2. QED
      BY <1>3, <1>4, <1>5, <2>1, <2>4, <3>1 DEF LogBefore, trk
  <2>5. QED
    BY <2>3, <2>4
<1>7. /\ base \in Seq(Logs) /\ Len(base) \in Nat /\ Len(log) <= Len(base)
      /\ HashesUsed(base, agentNonce) /\ AdmittedOnce(base)
      /\ ReservationsFromEvents(base) = OrderRows
      /\ TrackedMarketsFromEvents(base) =
           IF marketState[m].tracked THEN Tracked
           ELSE Put(Tracked, m, [domain |-> DomainOf[m], redeemed |-> FALSE])
      /\ AgentsFromEvents(log) \subseteq AgentsFromEvents(base)
      /\ ConfiguredDomains(base) = ConfiguredDomains(log)
  <2> HIDE DEF m
  <2>1. QED
    BY <1>2, TrackingLogged
<1>8. /\ agentNonce \in [Agents -> Nat] /\ i.nonce \in Nat /\ agentNonce' \in [Agents -> Nat]
      /\ agentNonce'[a] = i.nonce /\ \A b \in Agents : agentNonce[b] <= agentNonce'[b]
      /\ \A b \in Agents \ {a} : agentNonce'[b] = agentNonce[b]
  <2>1. agentNonce \in [Agents -> Nat] /\ i.nonce \in Nat
    BY <1>2 DEF TypeOK, Hashes
  <2>2. agentNonce' \in [Agents -> Nat] /\ agentNonce'[a] = i.nonce
        /\ \A b \in Agents \ {a} : agentNonce'[b] = agentNonce[b]
    BY <1>2, <2>1
  <2>3. agentNonce[a] <= i.nonce /\ \A b \in Agents : agentNonce[b] <= agentNonce[b]
    BY <1>2, <2>1
  <2>4. QED
    BY <2>1, <2>2, <2>3
<1> HIDE DEF adm, rec, trk, base, m, key
<1>9. OneMore(base, adm, mid) /\ OneMore(mid, rec, log')
  BY <1>3, <1>4, <1>6, <1>7 DEF OneMore
<1> HIDE DEF mid
<1>10. /\ log' \in Seq(Logs) /\ Len(log') = Len(base) + 2
       /\ HashesUsed(log', agentNonce') /\ AdmittedOnce(log')
       /\ AdmissionOf(log', rec.intent) = adm
       /\ ReservationsFromEvents(log') = Opened(OrderRows, log', rec)
       /\ TrackedMarketsFromEvents(log') = TrackedMarketsFromEvents(base)
       /\ AgentsFromEvents(log') = AgentsFromEvents(base)
       /\ ConfiguredDomains(log') = ConfiguredDomains(log)
  <2> DEFINE longer == log'
             raised == agentNonce'
  <2>1. /\ OneMore(base, adm, mid) /\ OneMore(mid, rec, longer)
        /\ raised \in [Agents -> Nat] /\ \A b \in Agents : agentNonce[b] <= raised[b]
        /\ adm.intent = rec.intent /\ agentNonce[adm.intent[1]] < adm.intent[2]
        /\ adm.intent[2] <= raised[adm.intent[1]]
        /\ adm.name = "IntentAdmitted" /\ rec.name = "IntentReconciled"
        /\ HashesUsed(base, agentNonce) /\ AdmittedOnce(base) /\ agentNonce \in [Agents -> Nat]
    BY <1>2, <1>3, <1>4, <1>7, <1>8, <1>9
  <2> HIDE DEF longer, raised
  <2>2. /\ longer \in Seq(Logs) /\ Len(longer) = Len(base) + 2
        /\ HashesUsed(longer, raised) /\ AdmittedOnce(longer)
        /\ AdmissionOf(longer, rec.intent) = adm
        /\ ReservationsFromEvents(longer) = Opened(ReservationsFromEvents(base), longer, rec)
        /\ TrackedMarketsFromEvents(longer) = TrackedMarketsFromEvents(base)
        /\ AgentsFromEvents(longer) = AgentsFromEvents(base)
        /\ ConfiguredDomains(longer) = ConfiguredDomains(base)
    BY <2>1, OrderLogged, SMTT(60)
  <2>3. QED
    BY <1>7, <2>2 DEF longer, raised
<1>11. AskMatch'
  <2>1. ask.seen \in 0 .. Len(log) /\ Len(log) \in Nat
    BY DEF LogInv, AskMatch
  <2>2. ask'.seen \in 0 .. Len(log') /\ ask'.seen < Len(log')
    BY <1>7, <1>10, <2>1
  <2>3. QED
    BY <2>2 DEF LogInv, AskMatch, AlarmOnlyWhileMoving
<1>12. SettingsMatch'
  <2>1. \A b \in Agents : agentPolicy[b].enabled \/ agentNonce[b] # 0 => b \in AgentsFromEvents(log)
    BY DEF LogInv, SettingsMatch
  <2>2. ConfiguredDomains(log) = {d \in Domains : domainPolicy[d].configured}
    BY DEF LogInv, SettingsMatch
  <2>3. \A b \in Agents : agentPolicy'[b].enabled \/ agentNonce'[b] # 0 => b \in AgentsFromEvents(log')
    BY <1>2, <1>7, <1>8, <1>10, <2>1
  <2>4. QED
    BY <1>2, <1>10, <2>2, <2>3 DEF SettingsMatch
<1>13. TrackedMatch'
  <2>1. /\ DOMAIN Tracked = {n \in Markets : marketState[n].tracked}
        /\ Tracked \in [DOMAIN Tracked -> [domain : Domains, redeemed : BOOLEAN]]
        /\ \A n \in DOMAIN Tracked : Tracked[n].domain = DomainOf[n]
    BY DEF LogInv, TrackedMatch
  <2>2. {n \in Markets : marketState'[n].tracked} = {n \in Markets : marketState[n].tracked} \cup {m}
    BY <1>2
  <2>3. Tracked' = TrackedMarketsFromEvents(base)
    BY <1>10 DEF Tracked
  <2>4. CASE marketState[m].tracked
    BY <1>2, <1>7, <2>1, <2>2, <2>3, <2>4 DEF TrackedMatch
  <2>5. CASE ~ marketState[m].tracked
    <3> DEFINE new == Tracked'
               v == [domain |-> DomainOf[m], redeemed |-> FALSE]
    <3>1. new = Put(Tracked, m, v)
      BY <1>7, <2>3, <2>5
    <3>2. v \in [domain : Domains, redeemed : BOOLEAN] /\ v.domain = DomainOf[m]
      BY <1>2
    <3> HIDE DEF new, v
    <3>3. /\ DOMAIN new = DOMAIN Tracked \cup {m} /\ new \in [DOMAIN Tracked \cup {m} -> [domain : Domains, redeemed : BOOLEAN]]
          /\ new[m] = v /\ \A x \in DOMAIN Tracked \ {m} : new[x] = Tracked[x]
      BY <2>1, <3>1, <3>2 DEF Put
    <3>4. \A n \in DOMAIN new : new[n].domain = DomainOf[n]
      BY <2>1, <3>2, <3>3
    <3>5. QED
      BY <2>1, <2>2, <3>3, <3>4 DEF TrackedMatch, new
  <2>6. QED
    BY <2>4, <2>5
<1>14. RowsMatch'
  <2>1. /\ key \in OrderKeys \ Records
        /\ resting = 0 => UNCHANGED orderRec
        /\ resting # 0 => orderRec'[key] = NewRecord(a, i, resting)
        /\ \A k \in OrderKeys \ {key} : orderRec'[k] = orderRec[k]
    BY <1>1, <1>2, PlacedRecord DEF CeilingInv, BooksInv, key
  <2>2. CASE resting = 0
    <3>1. OrderRows' = OrderRows
      BY <1>4, <1>10, <2>2 DEF OrderRows, Opened
    <3>2. QED
      BY <2>1, <2>2, <3>1, RowsKept DEF LogInv
  <2>3. CASE resting # 0
    <3> DEFINE new == OrderRows'
               v == [agent |-> a, market |-> m, domain |-> DomainOf[m], kind |-> i.kind, qtyOpen |-> resting]
    <3>1. new = Put(OrderRows, key, v)
      BY <1>3, <1>4, <1>10, <2>3 DEF OrderRows, Opened
    <3>2. v \in RowTypes /\ v.agent = a /\ v.market = m /\ v.domain = DomainOf[m] /\ v.kind = i.kind /\ v.qtyOpen = resting
      BY <1>2 DEF RowTypes
    <3>3. /\ orderRec'[key].qtyOpen = resting /\ orderRec'[key].agent = a
          /\ orderRec'[key].market = m /\ orderRec'[key].kind = i.kind
      BY <2>1, <2>3 DEF NewRecord, m
    <3> HIDE DEF new, v
    <3>4. RowsTyped(OrderRows) /\ \A k \in OrderKeys : RowOf(OrderRows, k)
      BY DEF LogInv, RowsMatch
    <3>5. /\ DOMAIN new = DOMAIN OrderRows \cup {key} /\ new \in [DOMAIN OrderRows \cup {key} -> RowTypes]
          /\ new[key] = v /\ \A x \in DOMAIN OrderRows \ {key} : new[x] = OrderRows[x]
      BY <3>1, <3>2, <3>4 DEF Put, RowsTyped
    <3>6. RowsTyped(new)
      BY <2>1, <3>2, <3>5, <3>4 DEF RowsTyped
    <3>7. ASSUME NEW k \in OrderKeys PROVE RowOf(OrderRows, k)'
      <4>1. CASE k = key
        BY <3>2, <3>3, <3>5, <4>1 DEF RowOf, new
      <4>2. CASE k # key
        <5>1. /\ orderRec'[k] = orderRec[k] /\ (k \in DOMAIN new <=> k \in DOMAIN OrderRows)
              /\ (k \in DOMAIN OrderRows => new[k] = OrderRows[k]) /\ RowOf(OrderRows, k)
          BY <2>1, <3>5, <3>4, <4>2
        <5>2. orderRec[k].qtyOpen # 0 => k \in DOMAIN OrderRows
          BY <5>1 DEF RowOf
        <5>3. QED
          BY <5>1, <5>2 DEF RowOf, new
      <4>3. QED
        BY <4>1, <4>2
    <3>8. QED
      BY <3>6, <3>7 DEF RowsMatch, new
  <2>4. QED
    BY <2>2, <2>3
<1>15. QED
  BY <1>10, <1>11, <1>12, <1>13, <1>14 DEF LogInv

-----------------------------------------------------------------------------
(* What the rows that are open add up to.                                  *)

\* The open rows are the records, with their agents, markets and kinds.
LEMMA OpenRowsAreRecords ==
    ASSUME TypeOK, RowsMatch
    PROVE  /\ OpenRows(log) = Records /\ Records \subseteq OrderKeys /\ IsFiniteSet(Records)
           /\ DOMAIN OrderRows \subseteq OrderKeys
           /\ \A k \in DOMAIN OrderRows :
                /\ OrderRows[k].qtyOpen = orderRec[k].qtyOpen /\ orderRec[k].qtyOpen \in Nat
                /\ OrderRows[k].qtyOpen > 0 <=> k \in Records
           /\ \A k \in Records :
                /\ k \in DOMAIN OrderRows
                /\ OrderRows[k].agent = orderRec[k].agent /\ OrderRows[k].market = orderRec[k].market
                /\ OrderRows[k].kind = orderRec[k].kind /\ OrderRows[k].domain = DomainOf[orderRec[k].market]
<1>1. RowsTyped(OrderRows) /\ \A k \in OrderKeys : RowOf(OrderRows, k)
  BY DEF RowsMatch
<1>2. DOMAIN OrderRows \subseteq OrderKeys
  BY <1>1 DEF RowsTyped
<1>3. \A k \in OrderKeys : orderRec[k].qtyOpen \in Nat
  BY RecordValues
<1>4. \A k \in DOMAIN OrderRows :
        /\ OrderRows[k].qtyOpen = orderRec[k].qtyOpen /\ orderRec[k].qtyOpen \in Nat
        /\ OrderRows[k].qtyOpen > 0 <=> k \in Records
  BY <1>1, <1>2, <1>3 DEF RowOf, Records
<1>5. \A k \in Records :
        /\ k \in DOMAIN OrderRows
        /\ OrderRows[k].agent = orderRec[k].agent /\ OrderRows[k].market = orderRec[k].market
        /\ OrderRows[k].kind = orderRec[k].kind /\ OrderRows[k].domain = DomainOf[orderRec[k].market]
  BY <1>1 DEF RowOf, Records
<1>6. OpenRows(log) = Records
  <2>1. OpenRows(log) = {k \in DOMAIN OrderRows : OrderRows[k].qtyOpen > 0}
    BY DEF OpenRows, OrderRows
  <2>2. \A k \in OpenRows(log) : k \in Records
    BY <1>4, <2>1
  <2>3. \A k \in Records : k \in OpenRows(log)
    BY <1>4, <1>5, <2>1
  <2>4. QED
    BY <2>2, <2>3
<1>7. Records \subseteq OrderKeys
  BY DEF Records
<1>8. IsFiniteSet(Records)
  BY <1>7, KeysFinite, FS_Subset
<1>9. QED
  BY <1>2, <1>4, <1>5, <1>6, <1>7, <1>8

\* The collateral behind the open rows is the contract's total.
LEMMA ExplainedIsReserved ==
    ASSUME CeilingInv, RowsMatch
    PROVE  Explained(log) = reservedCollateral
<1>1. TypeOK /\ ReservedMatchesRecords
  BY DEF CeilingInv, BooksInv, TypeInv
<1>2. OpenRows(log) = Records /\ Records \subseteq OrderKeys
  BY <1>1, OpenRowsAreRecords
<1> DEFINE f == [k \in Records |-> OverlayReservation(k, {}).collReserved]
<1>3. Explained(log) = Sum(f, Records)
  BY <1>2 DEF Explained
<1>4. \A k \in Records : f[k] = CollReserved[k]
  BY <1>2 DEF OverlayReservation, CollReserved
<1> HIDE DEF f
<1>5. Sum(f, Records) = Sum(CollReserved, Records)
  BY <1>4, SumSame
<1>6. QED
  BY <1>1, <1>3, <1>5 DEF ReservedMatchesRecords

-----------------------------------------------------------------------------
(* The invariant holds.                                                    *)

\* The venue's transactions move nothing that the log tells.
LEMMA VenueStep ==
    ASSUME LogInv, VenueTransaction, UNCHANGED ask
    PROVE  LogInv'
<1>1. UNCHANGED <<log, orderRec, reservedCollateral, agentNonce, domainPolicy, agentPolicy, marketState, ask>>
  BY DEF VenueTransaction, CancelOrder, portfolioVars, policyVars, agentVars, marketVars, bookVars
<1>2. OrderRows' = OrderRows /\ Tracked' = Tracked
  BY <1>1 DEF OrderRows, Tracked
<1>3. RowsMatch' /\ TrackedMatch'
  BY <1>1, <1>2, RowsKept, TrackedKept DEF LogInv
<1>4. SettingsMatch'
  BY <1>1, SettingsKept DEF LogInv
<1>5. AskMatch'
  BY <1>1 DEF LogInv, AskMatch, AlarmOnlyWhileMoving
<1>6. QED
  BY <1>1, <1>3, <1>4, <1>5 DEF LogInv

\* The request's own steps: what it answers from all of the log explains the
\* total it read.
LEMMA AskStep ==
    ASSUME CeilingInv, LogInv, ViewNext
    PROVE  LogInv'
<1>1. UNCHANGED <<log, orderRec, reservedCollateral, agentNonce, domainPolicy, agentPolicy, marketState>>
  BY DEF ViewNext, AskIntegrity, ReadTotal, AnswerIntegrity,
     vars, portfolioVars, policyVars, agentVars, marketVars, bookVars
<1>2. OrderRows' = OrderRows /\ Tracked' = Tracked
  BY <1>1 DEF OrderRows, Tracked
<1>3. RowsMatch' /\ TrackedMatch'
  BY <1>1, <1>2, RowsKept, TrackedKept DEF LogInv
<1>4. SettingsMatch'
  BY <1>1, SettingsKept DEF LogInv
<1>5. AskMatch'
  <2>1. /\ ask \in [pc : {"idle", "total", "rows", "answered"}, seen : Nat, reserved : Nat, mismatch : BOOLEAN]
        /\ ask.seen \in 0 .. Len(log) /\ log \in Seq(Logs) /\ Len(log) \in Nat
        /\ ask.pc = "rows" /\ ask.seen = Len(log) => ask.reserved = reservedCollateral
        /\ reservedCollateral \in Nat
    BY DEF LogInv, AskMatch, CeilingInv, BooksInv, TypeInv, TypeOK
  <2>2. CASE AskIntegrity
    <3>1. PICK n \in 0 .. Len(log) : ask' = [NoRequest EXCEPT !.pc = "total", !.seen = n]
      BY <2>2 DEF AskIntegrity, Cuts
    <3>2. ask' = [pc |-> "total", seen |-> n, reserved |-> 0, mismatch |-> FALSE]
      BY <3>1 DEF NoRequest
    <3>3. ask'.pc = "total" /\ ask'.seen = n /\ n \in Nat
      BY <2>1, <3>2
    <3>4. ask' \in [pc : {"idle", "total", "rows", "answered"}, seen : Nat, reserved : Nat, mismatch : BOOLEAN]
      BY <3>2, <3>3
    <3>5. QED
      BY <1>1, <3>3, <3>4 DEF AskMatch, AlarmOnlyWhileMoving
  <2>3. CASE ReadTotal
    <3>1. ask' = [ask EXCEPT !.pc = "rows", !.reserved = reservedCollateral]
      BY <2>3 DEF ReadTotal
    <3>2. QED
      BY <1>1, <2>1, <3>1 DEF AskMatch, AlarmOnlyWhileMoving
  <2>4. CASE AnswerIntegrity
    <3> DEFINE wrong == Explained(EventsThrough(ask.seen)) # ask.reserved
    <3>1. ask.pc = "rows" /\ ask' = [ask EXCEPT !.pc = "answered", !.mismatch = wrong]
      BY <2>4 DEF AnswerIntegrity
    <3>2. wrong \in BOOLEAN
      OBVIOUS
    <3>3. ASSUME ask.seen = Len(log) PROVE wrong = FALSE
      <4>1. EventsThrough(ask.seen) = log
        BY <2>1, <3>3 DEF EventsThrough
      <4>2. Explained(log) = reservedCollateral
        BY ExplainedIsReserved DEF LogInv
      <4>3. QED
        BY <2>1, <3>1, <3>3, <4>1, <4>2
    <3> HIDE DEF wrong
    <3>4. /\ ask'.pc = "answered" /\ ask'.mismatch = wrong /\ ask'.seen = ask.seen
          /\ ask' \in [pc : {"idle", "total", "rows", "answered"}, seen : Nat, reserved : Nat, mismatch : BOOLEAN]
      BY <2>1, <3>1, <3>2
    <3>5. ask'.mismatch => ask'.seen < Len(log)
      <4>1. CASE ask.seen = Len(log)
        BY <3>3, <3>4, <4>1
      <4>2. CASE ask.seen # Len(log)
        BY <2>1, <3>4, <4>2
      <4>3. QED
        BY <4>1, <4>2
    <3>6. QED
      BY <1>1, <2>1, <3>4, <3>5 DEF AskMatch, AlarmOnlyWhileMoving
  <2>5. QED
    BY <2>2, <2>3, <2>4 DEF ViewNext
<1>6. QED
  BY <1>1, <1>3, <1>4, <1>5 DEF LogInv

LEMMA LogInit == ViewsInit => LogInv
<1> SUFFICES ASSUME ViewsInit PROVE LogInv
  OBVIOUS
<1>1. log = <<>> /\ ask = NoRequest /\ Init
  BY DEF ViewsInit
<1>2. OrderRows = << >> /\ Tracked = << >>
  BY <1>1, NothingLogged DEF OrderRows, Tracked
<1>3. log \in Seq(Logs) /\ Len(log) = 0 /\ DOMAIN log = {} /\ DOMAIN << >> = {}
  BY <1>1
<1>4. HashesUsed(log, agentNonce)
  BY <1>3 DEF HashesUsed, Hashed
<1>5. \A name : Named(log, name) = {}
  BY <1>3 DEF Named, Seqs!ToSet
<1>6. AdmittedOnce(log)
  BY <1>5 DEF AdmittedOnce
<1>7. RowsMatch
  BY <1>1, <1>2, <1>3 DEF RowsMatch, RowsTyped, RowOf, Init, Fresh, NoRecord
<1>8. TrackedMatch
  BY <1>1, <1>2, <1>3 DEF TrackedMatch, Init, Fresh, Untouched
<1>9. SettingsMatch
  <2>1. ConfiguredDomains(log) = {}
    BY <1>3 DEF ConfiguredDomains
  <2>2. /\ \A d \in Domains : ~ domainPolicy[d].configured
        /\ \A a \in Agents : ~ agentPolicy[a].enabled /\ agentNonce[a] = 0
    BY <1>1 DEF Init, Fresh, ZeroDomainPolicy, ZeroAgentPolicy
  <2>3. QED
    BY <2>1, <2>2 DEF SettingsMatch
<1>10. AskMatch
  BY <1>1, <1>3 DEF AskMatch, AlarmOnlyWhileMoving, NoRequest
<1>11. QED
  BY <1>3, <1>4, <1>6, <1>7, <1>8, <1>9, <1>10 DEF LogInv

LEMMA LogStep ==
    ASSUME CeilingInv, LogInv, [ViewsNext]_viewVars
    PROVE  LogInv'
<1>1. CASE UNCHANGED viewVars
  <2>1. UNCHANGED <<log, orderRec, reservedCollateral, agentNonce, domainPolicy, agentPolicy, marketState, ask>>
    BY <1>1 DEF viewVars, vars, portfolioVars, policyVars, agentVars, marketVars, bookVars
  <2>2. OrderRows' = OrderRows /\ Tracked' = Tracked
    BY <2>1 DEF OrderRows, Tracked
  <2>3. RowsMatch' /\ TrackedMatch' /\ SettingsMatch'
    BY <2>1, <2>2, RowsKept, TrackedKept, SettingsKept DEF LogInv
  <2>4. QED
    BY <2>1, <2>3 DEF LogInv, AskMatch, AlarmOnlyWhileMoving
<1>2. CASE PortfolioTransaction /\ UNCHANGED ask
  <2>1. ASSUME NEW a \in Agents, NEW i \in Intents, NEW n \in 1 .. MaxNonce, Executed(a, WithNonce(i, n))
        PROVE  LogInv'
    BY <1>2, <2>1, IntentsTyped, ExecutedStep
  <2>2. ASSUME NEW key \in OrderKeys, ReleasedOrder(key) PROVE LogInv'
    BY <1>2, <2>2, ReleasedOrderStep
  <2>3. ASSUME NEW m \in Markets,
               \/ ReleaseSettled(m) /\ Emit(<<SettledExposureReleased(m)>>)
               \/ PruneMarket(m) /\ Emit(<<MarketPruned(m)>>)
               \/ \E side \in Sides, n \in Amounts : Redeem(m, side, n) /\ Emit(<<Redeemed(m)>>)
        PROVE  LogInv'
    BY <1>2, <2>3, MarketEndStep, PrunedStep
  <2>4. ASSUME NEW d \in Domains, NEW dp \in DomainPolicies,
               SetDomainPolicy(d, dp) /\ Emit(<<DomainPolicySet(d, dp.configured)>>)
        PROVE  LogInv'
    BY <1>2, <2>4, PolicyStep
  <2>5. ASSUME NEW a \in Agents,
               \/ \E ap \in AgentPolicies : SetAgent(a, ap) /\ Emit(<<AgentSet(a)>>)
               \/ RevokeAgent(a) /\ Emit(<<AgentRevoked(a)>>)
        PROVE  LogInv'
    BY <1>2, <2>5, AgentStep
  <2>6. ASSUME NEW e \in Unreads, Emit(<<e>>),
               \/ \E gp \in GlobalPolicies : SetGlobalPolicy(gp)
               \/ \E n \in Amounts : Fund(n) \/ SetCapitalBase(n) \/ Withdraw(n)
               \/ \E t \in TokenIds, n \in Amounts : WithdrawOutcome(t, n)
        PROVE  LogInv'
    BY <1>2, <2>6, FundsStep
  <2>7. \A name \in {"GlobalPolicySet", "Funded", "CapitalBaseSet", "Withdrawn", "OutcomeWithdrawn"} :
          Unread(name) \in Unreads
    BY DEF Unread, Unreads
  <2>8. QED
    <3>1. CASE \E gp \in GlobalPolicies : SetGlobalPolicy(gp) /\ Emit(<<Unread("GlobalPolicySet")>>)
      BY <2>6, <2>7, <3>1
    <3>2. CASE \E n \in Amounts : \/ Fund(n) /\ Emit(<<Unread("Funded")>>)
                                  \/ SetCapitalBase(n) /\ Emit(<<Unread("CapitalBaseSet")>>)
                                  \/ Withdraw(n) /\ Emit(<<Unread("Withdrawn")>>)
                                  \/ \E t \in TokenIds : WithdrawOutcome(t, n) /\ Emit(<<Unread("OutcomeWithdrawn")>>)
      BY <2>6, <2>7, <3>2
    <3>3. QED
      BY <1>2, <2>1, <2>2, <2>3, <2>4, <2>5, <3>1, <3>2 DEF PortfolioTransaction
<1>3. CASE VenueTransaction /\ UNCHANGED ask
  BY <1>3, VenueStep
<1>4. CASE ViewNext
  BY <1>4, AskStep
<1>5. QED
  BY <1>1, <1>2, <1>3, <1>4 DEF ViewsNext, ChainStep

\* The invariant with the contract's own.
THEOREM ViewsInvariant == ViewsSpec => [](CeilingInv /\ LogInv)
<1>1. ViewsInit => CeilingInv /\ LogInv
  BY LogInit, CeilingInit DEF ViewsInit
<1>2. CeilingInv /\ LogInv /\ [ViewsNext]_viewVars => (CeilingInv /\ LogInv)'
  <2> SUFFICES ASSUME CeilingInv, LogInv, [ViewsNext]_viewVars PROVE CeilingInv' /\ LogInv'
    OBVIOUS
  <2>1. [Next]_vars
    BY ViewsAreSteps DEF viewVars
  <2>2. CeilingInv'
    BY <2>1, CeilingStep
  <2>3. LogInv'
    BY LogStep
  <2>4. QED
    BY <2>2, <2>3
<1>3. QED
  BY <1>1, <1>2, PTL DEF ViewsSpec

\* A mismatch is only ever reported of a history that the portfolio's logs have
\* moved past (the integrity view, history-status).
THEOREM AlarmCorrect == ViewsSpec => []AlarmOnlyWhileMoving
<1>1. CeilingInv /\ LogInv => AlarmOnlyWhileMoving
  BY DEF LogInv, AskMatch
<1>2. QED
  BY <1>1, ViewsInvariant, PTL

-----------------------------------------------------------------------------
(* Sums by parts.                                                          *)

\* A sum over two sets without a common element is the sum of both sums.
LEMMA SumOfDisjoint ==
    ASSUME NEW S, IsFiniteSet(S), NEW T, IsFiniteSet(T), S \cap T = {},
           NEW f, \A x \in S \cup T : f[x] \in Nat
    PROVE  Sum(f, S \cup T) = Sum(f, S) + Sum(f, T)
<1> DEFINE F == UNION {Column(f, x) : x \in S}
           G == UNION {Column(f, x) : x \in T}
<1>1. UNION {Column(f, x) : x \in S \cup T} = F \cup G
  OBVIOUS
<1>2. IsFiniteSet(F) /\ IsFiniteSet(G)
  BY GraphFinite
<1>3. Cardinality(F \cup G) = Cardinality(F) + Cardinality(G) - Cardinality(F \cap G)
  BY <1>2, FS_Union
<1>4. F \cap G = {}
  <2>1. \A p \in F : p[1] \in S
    BY DEF Column
  <2>2. \A p \in G : p[1] \in T
    BY DEF Column
  <2> HIDE DEF F, G
  <2>3. QED
    BY <2>1, <2>2
<1>5. Cardinality(F) \in Nat /\ Cardinality(G) \in Nat /\ Cardinality(F \cap G) = 0
  BY <1>2, <1>4, FS_CardinalityType, FS_EmptySet
<1>6. Cardinality(F \cup G) = Cardinality(F) + Cardinality(G)
  BY <1>3, <1>5
<1>7. Sum(f, S) = Cardinality(F) /\ Sum(f, T) = Cardinality(G)
  BY DEF Sum
<1>8. Sum(f, S \cup T) = Cardinality(F \cup G)
  <2>1. Sum(f, S \cup T) = Cardinality(UNION {Column(f, x) : x \in S \cup T})
    BY DEF Sum
  <2> HIDE DEF F, G
  <2>2. QED
    BY <1>1, <2>1
<1> HIDE DEF F, G
<1>9. QED
  BY <1>6, <1>7, <1>8

\* The elements of a set that belong to a part
In(S, part, D) == {x \in S : part[x] \in D}

\* A sum is the sum of the sums over the parts.
SumsOfParts(F, D, f, S, part) ==
  /\ IsFiniteSet(D) /\ IsFiniteSet(S)
  /\ \A x \in S : part[x] \in D /\ f[x] \in Nat
  /\ \A d \in D : F[d] = Sum(f, In(S, part, {d}))

LEMMA SumOfParts ==
    ASSUME NEW F, NEW D, NEW f, NEW S, NEW part, SumsOfParts(F, D, f, S, part)
    PROVE  Sum(F, D) = Sum(f, S)
<1>0. /\ IsFiniteSet(D) /\ IsFiniteSet(S)
      /\ \A x \in S : part[x] \in D /\ f[x] \in Nat
      /\ \A d \in D : F[d] = Sum(f, In(S, part, {d}))
  BY DEF SumsOfParts
<1> DEFINE Adds(E) == Sum(F, E) = Sum(f, In(S, part, E))
           T == {n \in Nat : \A E \in SUBSET D : Cardinality(E) = n => Adds(E)}
<1>1. \A E : /\ In(S, part, E) \in SUBSET S /\ IsFiniteSet(In(S, part, E))
             /\ \A x \in In(S, part, E) : f[x] \in Nat
  BY <1>0, FS_Subset DEF In
<1>2. \A d \in D : F[d] \in Nat
  BY <1>0, <1>1, SumType
<1>3. 0 \in T
  <2> SUFFICES ASSUME NEW E \in SUBSET D, Cardinality(E) = 0 PROVE Adds(E)
    OBVIOUS
  <2>1. E = {}
    BY <1>0, FS_Subset, FS_EmptySet
  <2>2. In(S, part, E) = {}
    BY <2>1 DEF In
  <2>3. QED
    BY <2>1, <2>2, SumEmpty
<1>4. ASSUME NEW n \in T PROVE n + 1 \in T
  <2> SUFFICES ASSUME NEW E \in SUBSET D, Cardinality(E) = n + 1 PROVE Adds(E)
    OBVIOUS
  <2>1. IsFiniteSet(E) /\ n \in Nat
    BY <1>0, FS_Subset
  <2>2. PICK e \in E : TRUE
    BY <2>1, FS_EmptySet
  <2>3. E \ {e} \in SUBSET D /\ IsFiniteSet(E \ {e}) /\ Cardinality(E \ {e}) = n
    <3>1. IsFiniteSet(E \ {e}) /\ Cardinality(E \ {e}) = Cardinality(E) - 1
      BY <2>1, <2>2, FS_RemoveElement
    <3>2. E \ {e} \in SUBSET D
      OBVIOUS
    <3>3. (n + 1) - 1 = n
      BY <2>1
    <3>4. QED
      BY <3>1, <3>2, <3>3
  <2>4. Sum(F, E \ {e}) = Sum(f, In(S, part, E \ {e}))
    BY <2>3
  <2>5. Sum(F, E) = Sum(F, E \ {e}) + F[e]
    BY <1>2, <2>1, <2>2, SumRemove
  <2> DEFINE A == In(S, part, E \ {e})
             B == In(S, part, {e})
  <2>6. In(S, part, E) = A \cup B /\ A \cap B = {}
    BY <2>2 DEF In
  <2>7. IsFiniteSet(A) /\ IsFiniteSet(B) /\ \A x \in A \cup B : f[x] \in Nat
    BY <1>1
  <2> HIDE DEF A, B
  <2>8. Sum(f, A \cup B) = Sum(f, A) + Sum(f, B)
    BY <2>6, <2>7, SumOfDisjoint
  <2>9. F[e] = Sum(f, B)
    BY <1>0, <2>2 DEF B
  <2>10. QED
    BY <2>4, <2>5, <2>6, <2>8, <2>9 DEF A
<1>5. T = Nat
  <2> HIDE DEF T
  <2>1. T \in SUBSET Nat
    BY DEF T
  <2>2. QED
    BY <1>3, <1>4, <2>1, Induction
<1>6. Cardinality(D) \in T /\ D \in SUBSET D
  BY <1>0, <1>5, FS_CardinalityType
<1>7. In(S, part, D) = S
  BY <1>0 DEF In
<1>8. Adds(D)
  BY <1>6
<1>9. QED
  BY <1>7, <1>8

-----------------------------------------------------------------------------
(* The rows explain the contract.                                          *)

\* A row is open when its record is, whatever reads fail.
LEMMA OpenState ==
    ASSUME TypeOK, NEW k \in OrderKeys, NEW failed
    PROVE  /\ OverlayReservation(k, failed).state \in OpenStates <=> orderRec[k].qtyOpen # 0
           /\ OverlayReservation(k, failed).qtyOpen = orderRec[k].qtyOpen
<1> DEFINE q == orderRec[k].qtyOpen
           more == Less(q, StillOpenRead(k, failed))
           o == OverlayReservation(k, failed)
<1>1. o.qtyOpen = q
  BY DEF OverlayReservation
<1>2. o.state = CASE q = 0 -> "FINALIZED" [] more > 0 -> "NEEDS_RECONCILIATION" [] OTHER -> "RESTING"
  BY DEF OverlayReservation
<1>3. q \in Nat /\ more \in Nat /\ (q = 0 => more = 0)
  <2>1. q \in Nat
    BY RecordValues
  <2>2. StillOpenRead(k, failed) \in Nat
    BY StillOpenType DEF TypeOK, StillOpenRead
  <2> HIDE DEF q
  <2>3. QED
    BY <2>1, <2>2 DEF Less
<1> HIDE DEF q, more, o
<1>4. o.state \in OpenStates <=> q # 0
  BY <1>2, <1>3 DEF OpenStates
<1>5. QED
  BY <1>1, <1>4 DEF q, o

\* One answer has rows of the history, and all of them when they are few.
LEMMA LatestAreRows == LatestRows \subseteq DOMAIN OrderRows
BY DEF LatestRows, OrderRows

LEMMA FewAreShown ==
    ASSUME TypeOK, RowsMatch, Cardinality(DOMAIN OrderRows) <= MaxRows
    PROVE  AllShown
<1> DEFINE D == DOMAIN OrderRows
           newer(k) == {j \in D \ {k} : [i \in D |-> Touched(i)][j] > [i \in D |-> Touched(i)][k]}
<1>1. OpenRows(log) = Records /\ \A k \in Records : k \in D
  BY OpenRowsAreRecords
<1>2. IsFiniteSet(D) /\ Cardinality(D) \in Nat /\ MaxRows \in Nat
  <2>1. IsFiniteSet(D)
    BY KeysFinite, FS_Subset, OpenRowsAreRecords
  <2>2. QED
    BY <2>1, FS_CardinalityType, ViewsAssumption
<1>3. LatestRows = {k \in D : Cardinality(newer(k)) < MaxRows}
  BY DEF LatestRows, OrderRows
<1>4. ASSUME NEW k \in D PROVE Cardinality(newer(k)) < MaxRows
  <2>1. IsFiniteSet(D \ {k}) /\ Cardinality(D \ {k}) = Cardinality(D) - 1
    BY <1>2, FS_RemoveElement
  <2>2. newer(k) \in SUBSET (D \ {k})
    OBVIOUS
  <2> HIDE DEF newer, D
  <2>3. Cardinality(newer(k)) <= Cardinality(D \ {k}) /\ Cardinality(newer(k)) \in Nat
    BY <2>1, <2>2, FS_Subset, FS_CardinalityType
  <2>4. Cardinality(D) <= MaxRows
    BY DEF D
  <2>5. QED
    BY <1>2, <2>1, <2>3, <2>4
<1> HIDE DEF newer, D
<1>5. \A k \in D : k \in LatestRows
  BY <1>3, <1>4
<1>6. QED
  BY <1>1, <1>5 DEF AllShown

\* What is attributed to an agent in a domain is what its records hold there,
\* of the rows that are shown.
ShownOf(a)       == OfAgent(a) \cap LatestRows
AgentParts(a, d) == {k \in ShownOf(a) : DomainOf[orderRec[k].market] = d}

LEMMA AttributedIs ==
    ASSUME TypeOK, RowsMatch, NEW d, NEW a
    PROVE  Attributed(d, a) = Sum(QtyOpen, AgentParts(a, d))
<1>1. /\ Records \subseteq OrderKeys /\ DOMAIN OrderRows \subseteq OrderKeys
      /\ \A k \in DOMAIN OrderRows : orderRec[k].qtyOpen \in Nat
      /\ \A k \in Records : /\ k \in DOMAIN OrderRows /\ OrderRows[k].agent = orderRec[k].agent
                            /\ OrderRows[k].domain = DomainOf[orderRec[k].market]
  BY OpenRowsAreRecords
<1> DEFINE own == {k \in LatestRows : /\ OrderRows[k].domain = d /\ OrderRows[k].agent = a
                                       /\ OverlayReservation(k, {}).state \in OpenStates}
           f == [k \in own |-> OverlayReservation(k, {}).qtyOpen]
<1>0. LatestRows \subseteq DOMAIN OrderRows
  BY LatestAreRows
<1>2. Attributed(d, a) = Sum(f, own)
  BY DEF Attributed, OrderRows
<1>3. \A k \in DOMAIN OrderRows : OverlayReservation(k, {}).state \in OpenStates <=> k \in Records
  BY <1>1, OpenState DEF Records
<1>4. \A k \in own : k \in AgentParts(a, d)
  BY <1>0, <1>1, <1>3 DEF AgentParts, ShownOf, OfAgent
<1>5. \A k \in AgentParts(a, d) : k \in own
  BY <1>0, <1>1, <1>3 DEF AgentParts, ShownOf, OfAgent
<1>6. own = AgentParts(a, d)
  BY <1>4, <1>5
<1>7. \A k \in own : f[k] = orderRec[k].qtyOpen
  BY <1>0, <1>1, OpenState
<1>8. \A k \in own : QtyOpen[k] = orderRec[k].qtyOpen
  BY <1>0, <1>1 DEF QtyOpen
<1> HIDE DEF own, f
<1>9. Sum(f, own) = Sum(QtyOpen, own)
  BY <1>7, <1>8, SumSame
<1>10. QED
  BY <1>2, <1>6, <1>9

\* The card of an agent: what is shown of it in all domains
LEMMA CardIsRecords ==
    ASSUME TypeOK, RowsMatch, NEW a
    PROVE  Sum([d \in Domains |-> Attributed(d, a)], Domains) = Sum(QtyOpen, ShownOf(a))
<1> DEFINE S == ShownOf(a)
           part == [k \in OrderKeys |-> DomainOf[orderRec[k].market]]
           F == [d \in Domains |-> Attributed(d, a)]
<1>1. S \subseteq Records /\ Records \subseteq OrderKeys /\ IsFiniteSet(Records)
  BY OpenRowsAreRecords DEF ShownOf, OfAgent
<1>2. IsFiniteSet(S)
  BY <1>1, FS_Subset
<1>3. \A k \in S : part[k] = DomainOf[orderRec[k].market]
  BY <1>1
<1>4. \A k \in S : part[k] \in Domains
  <2>1. \A k \in S : k \in DOMAIN OrderRows /\ OrderRows[k].domain = DomainOf[orderRec[k].market]
    BY <1>1, OpenRowsAreRecords
  <2>2. \A k \in DOMAIN OrderRows : OrderRows[k].domain \in Domains
    BY DEF RowsMatch, RowsTyped, RowTypes
  <2> HIDE DEF part, S
  <2>3. QED
    BY <1>3, <2>1, <2>2
<1>5. \A k \in S : QtyOpen[k] \in Nat
  BY <1>1, RecordValues
<1>6. \A d \in Domains : F[d] = Sum(QtyOpen, In(S, part, {d}))
  <2> SUFFICES ASSUME NEW d \in Domains PROVE F[d] = Sum(QtyOpen, In(S, part, {d}))
    OBVIOUS
  <2>1. F[d] = Sum(QtyOpen, AgentParts(a, d))
    BY AttributedIs
  <2>2. AgentParts(a, d) = In(S, part, {d})
    <3> HIDE DEF part
    <3>1. QED
      BY <1>3 DEF AgentParts, In
  <2>3. QED
    BY <2>1, <2>2
<1>7. IsFiniteSet(Domains)
  BY ViewsAssumption
<1> HIDE DEF S, part, F
<1>8. SumsOfParts(F, Domains, QtyOpen, S, part)
  BY <1>2, <1>4, <1>5, <1>6, <1>7 DEF SumsOfParts
<1>9. Sum(F, Domains) = Sum(QtyOpen, S)
  BY <1>8, SumOfParts
<1>10. QED
  BY <1>9 DEF F, S

\* A set that maps one to one into a finite set is no larger.
LEMMA OneToOne ==
    ASSUME NEW S, NEW T, IsFiniteSet(T), NEW h \in [S -> T], \A x, y \in S : h[x] = h[y] => x = y
    PROVE  IsFiniteSet(S) /\ Cardinality(S) <= Cardinality(T)
<1>1. h \in Injection(S, T)
  BY DEF Injection, IsInjective
<1>2. QED
  BY <1>1, FS_Injection

\* The quantities counted from the logs are the contract's, row by row and in
\* total; the card of an agent never shows more than its records hold, and all
\* of it while every open row is among those of one answer; and no agent that
\* may trade or has, and no ceiling in force, is missing from the lists
\* (reservationsFromEvents, agentsFromEvents, configuredDomainsFromEvents).
THEOREM HistoryCorrect == ViewsSpec => []HistoryExplainsTheContract
<1>1. CeilingInv /\ LogInv => HistoryExplainsTheContract
  <2> SUFFICES ASSUME CeilingInv, LogInv PROVE HistoryExplainsTheContract
    OBVIOUS
  <2>1. TypeOK /\ RowsMatch /\ SettingsMatch
    BY DEF CeilingInv, BooksInv, TypeInv, LogInv
  <2> DEFINE Own(a) == {k \in OrderKeys : orderRec[k].agent = a}
             g(a) == [k \in Own(a) |-> orderRec[k].qtyOpen]
  <2>2. \A k \in OrderKeys : orderRec[k].qtyOpen = IF k \in DOMAIN OrderRows THEN OrderRows[k].qtyOpen ELSE 0
    BY <2>1 DEF RowsMatch, RowOf
  <2>3. Explained(log) = reservedCollateral
    BY <2>1, ExplainedIsReserved
  <2>4. ASSUME NEW a \in Agents
        PROVE  /\ ActivityOf(a).reservedQty <= Sum(g(a), Own(a))
               /\ AllShown => ActivityOf(a).reservedQty = Sum(g(a), Own(a))
    <3>1. ActivityOf(a).reservedQty = Sum(QtyOpen, ShownOf(a))
      BY <2>1, CardIsRecords DEF ActivityOf
    <3>2. \A k \in Own(a) : g(a)[k] = QtyOpen[k]
      BY DEF QtyOpen
    <3>3. Sum(g(a), Own(a)) = Sum(QtyOpen, Own(a))
      <4> HIDE DEF g
      <4>1. QED
        BY <3>2, SumSame
    <3>4. {k \in Own(a) : QtyOpen[k] # 0} = OfAgent(a)
      BY DEF QtyOpen, OfAgent, Records
    <3>5. Sum(QtyOpen, Own(a)) = Sum(QtyOpen, OfAgent(a))
      <4> HIDE DEF Own
      <4>1. Sum(QtyOpen, Own(a)) = Sum(QtyOpen, {k \in Own(a) : QtyOpen[k] # 0})
        BY SumWithoutZeros
      <4>2. QED
        BY <3>4, <4>1
    <3>6. OfAgent(a) \subseteq Records /\ OfAgent(a) \in SUBSET OrderKeys /\ OpenRows(log) = Records
      BY <2>1, OpenRowsAreRecords DEF OfAgent
    <3>7. Sum(QtyOpen, ShownOf(a)) <= Sum(QtyOpen, OfAgent(a))
      <4>1. IsFiniteSet(OfAgent(a)) /\ \A k \in OfAgent(a) : QtyOpen[k] \in Nat
        BY <2>1, <3>6, KeysFinite, FS_Subset, RecordValues
      <4>2. ShownOf(a) \in SUBSET OfAgent(a)
        BY DEF ShownOf
      <4>3. \A k \in ShownOf(a) : QtyOpen[k] \in Nat /\ QtyOpen[k] <= QtyOpen[k]
        BY <4>1, <4>2
      <4>4. QED
        BY <4>1, <4>2, <4>3, SumMonotone
    <3>8. AllShown => ShownOf(a) = OfAgent(a)
      BY <3>6 DEF AllShown, ShownOf
    <3> HIDE DEF g, Own
    <3>9. QED
      BY <3>1, <3>3, <3>5, <3>7, <3>8
  <2>5. Cardinality(DOMAIN OrderRows) <= MaxRows => AllShown
    BY <2>1, FewAreShown
  <2>6. QED
    BY <2>1, <2>2, <2>3, <2>4, <2>5 DEF HistoryExplainsTheContract, SettingsMatch, OrderRows
<1>2. QED
  BY <1>1, ViewsInvariant, PTL

-----------------------------------------------------------------------------
(* The second implementation of the exposure.                              *)

\* No open order has been left behind by its market.
NoneLeftBehind == \A k \in OrderKeys : orderRec[k].qtyOpen > 0 => ~ marketState[orderRec[k].market].settled

\* A market with an open order is tracked.
LEMMA OpenIsTracked ==
    ASSUME CeilingInv, NoneLeftBehind, NEW k \in Records
    PROVE  LET m == orderRec[k].market
           IN  m \in Markets /\ orderRec[k].kind \in Kinds /\ ~ marketState[m].settled /\ marketState[m].tracked
<1> DEFINE m == orderRec[k].market
           kind == orderRec[k].kind
<1>1. TypeOK /\ ReservationsMatchRecords /\ UntrackedEmpty
  BY DEF CeilingInv, BooksInv, TypeInv
<1>2. k \in OrderKeys /\ orderRec[k].qtyOpen \in Nat /\ orderRec[k].qtyOpen # 0
  BY <1>1, RecordValues DEF Records
<1>3. m \in Markets /\ kind \in Kinds
  BY <1>1, <1>2, RecordFields
<1>4. ~ marketState[m].settled
  BY <1>2 DEF NoneLeftBehind
<1> DEFINE S == RecordsOf(m, kind)
<1>5. k \in S /\ S \in SUBSET OrderKeys
  BY DEF RecordsOf, Records
<1>6. IsFiniteSet(S) /\ \A x \in S : QtyOpen[x] \in Nat
  BY <1>1, <1>5, KeysFinite, FS_Subset, RecordValues
<1> HIDE DEF S
<1>7. Sum(QtyOpen, S) = Sum(QtyOpen, S \ {k}) + QtyOpen[k]
  BY <1>5, <1>6, SumRemove
<1>8. Sum(QtyOpen, S \ {k}) \in Nat
  <2>1. IsFiniteSet(S \ {k}) /\ \A x \in S \ {k} : QtyOpen[x] \in Nat
    BY <1>6, FS_RemoveElement
  <2>2. QED
    BY <2>1, SumType
<1>9. QtyOpen[k] = orderRec[k].qtyOpen
  BY <1>2 DEF QtyOpen
<1>10. Sum(QtyOpen, S) # 0
  BY <1>2, <1>7, <1>8, <1>9
<1>11. marketState[m].open[kind] = Sum(QtyOpen, S)
  BY <1>1, <1>3, <1>4 DEF ReservationsMatchRecords, S
<1> HIDE DEF m, kind
<1>12. marketState[m].tracked
  BY <1>1, <1>3, <1>4, <1>10, <1>11 DEF UntrackedEmpty
<1>13. QED
  BY <1>3, <1>4, <1>12 DEF m, kind

\* A domain's open rows and its listed markets
RowsOfDomain(d) == {k \in DOMAIN OrderRows : OrderRows[k].domain = d /\ OrderRows[k].qtyOpen > 0}
Positions(d)    == {m \in DOMAIN Tracked : Tracked[m].domain = d}

PendingOf(d, m, kind) ==
  LET of == {k \in RowsOfDomain(d) : OrderRows[k].market = m /\ OrderRows[k].kind = kind}
  IN Sum([k \in of |-> orderRec[k].qtyOpen], of)

LEMMA DomainRows ==
    ASSUME CeilingInv, LogInv, NoneLeftBehind, NEW d
    PROVE  /\ RowsOfDomain(d) = {k \in Records : DomainOf[orderRec[k].market] = d}
           /\ Positions(d) = {m \in Markets : marketState[m].tracked /\ DomainOf[m] = d}
           /\ \A k \in RowsOfDomain(d) : OrderRows[k].market \in Positions(d)
<1>1. /\ \A k \in DOMAIN OrderRows : OrderRows[k].qtyOpen > 0 <=> k \in Records
      /\ \A k \in Records :
           /\ k \in DOMAIN OrderRows /\ OrderRows[k].market = orderRec[k].market
           /\ OrderRows[k].domain = DomainOf[orderRec[k].market]
  BY OpenRowsAreRecords DEF CeilingInv, BooksInv, TypeInv, LogInv
<1>2. RowsOfDomain(d) = {k \in Records : DomainOf[orderRec[k].market] = d}
  <2>1. \A k \in RowsOfDomain(d) : k \in Records /\ DomainOf[orderRec[k].market] = d
    BY <1>1 DEF RowsOfDomain
  <2>2. \A k \in Records : DomainOf[orderRec[k].market] = d => k \in RowsOfDomain(d)
    BY <1>1 DEF RowsOfDomain
  <2>3. QED
    BY <2>1, <2>2
<1>3. Positions(d) = {m \in Markets : marketState[m].tracked /\ DomainOf[m] = d}
  <2>1. /\ DOMAIN Tracked = {m \in Markets : marketState[m].tracked}
        /\ \A m \in DOMAIN Tracked : Tracked[m].domain = DomainOf[m]
    BY DEF LogInv, TrackedMatch
  <2>2. QED
    BY <2>1 DEF Positions
<1>4. ASSUME NEW k \in RowsOfDomain(d) PROVE OrderRows[k].market \in Positions(d)
  <2>1. k \in Records /\ DomainOf[orderRec[k].market] = d /\ OrderRows[k].market = orderRec[k].market
    BY <1>1, <1>2
  <2>2. orderRec[k].market \in Markets /\ marketState[orderRec[k].market].tracked
    BY <2>1, OpenIsTracked
  <2>3. QED
    BY <1>3, <2>1, <2>2
<1>5. QED
  BY <1>2, <1>3, <1>4

\* What a domain's rows say is pending on a market is its counter.
LEMMA PendingIsOpen ==
    ASSUME CeilingInv, LogInv, NoneLeftBehind, NEW d, NEW m \in Positions(d), ~ marketState[m].settled, NEW kind \in Kinds
    PROVE  PendingOf(d, m, kind) = marketState[m].open[kind]
<1> DEFINE of == {k \in RowsOfDomain(d) : OrderRows[k].market = m /\ OrderRows[k].kind = kind}
           f == [k \in of |-> orderRec[k].qtyOpen]
<1>1. TypeOK /\ RowsMatch /\ ReservationsMatchRecords
  BY DEF CeilingInv, BooksInv, TypeInv, LogInv
<1>2. m \in Markets /\ DomainOf[m] = d
  BY DomainRows
<1>3. /\ Records \subseteq OrderKeys
      /\ \A k \in Records : OrderRows[k].market = orderRec[k].market /\ OrderRows[k].kind = orderRec[k].kind
  BY <1>1, OpenRowsAreRecords
<1>4. of = RecordsOf(m, kind)
  <2>1. RowsOfDomain(d) = {k \in Records : DomainOf[orderRec[k].market] = d}
    BY DomainRows
  <2>2. \A k \in of : k \in RecordsOf(m, kind)
    BY <1>3, <2>1 DEF RecordsOf
  <2>3. \A k \in RecordsOf(m, kind) : k \in of
    BY <1>2, <1>3, <2>1 DEF RecordsOf
  <2> HIDE DEF of
  <2>4. QED
    BY <2>2, <2>3
<1>5. \A k \in of : f[k] = QtyOpen[k]
  BY <1>3, <1>4 DEF QtyOpen, RecordsOf
<1>6. PendingOf(d, m, kind) = Sum(f, of)
  BY DEF PendingOf
<1> HIDE DEF of, f
<1>7. Sum(f, of) = Sum(QtyOpen, of)
  BY <1>5, SumSame
<1>8. marketState[m].open[kind] = Sum(QtyOpen, RecordsOf(m, kind))
  BY <1>1, <1>2 DEF ReservationsMatchRecords
<1>9. QED
  BY <1>4, <1>6, <1>7, <1>8

OpenOf(d, m) == [BUY_YES |-> PendingOf(d, m, "BUY_YES"), SELL_YES |-> PendingOf(d, m, "SELL_YES"),
                 BUY_NO |-> PendingOf(d, m, "BUY_NO"), SELL_NO |-> PendingOf(d, m, "SELL_NO")]

\* What a position is charged is what the contract charges.
LEMMA PositionIsMarket ==
    ASSUME CeilingInv, LogInv, NoneLeftBehind, NEW d, NEW m \in Positions(d)
    PROVE  PositionRisk(OverlayPosition(m), OpenOf(d, m)) = MarketWorstCaseExposure(m)
<1>1. m \in Markets /\ marketState[m].tracked
  BY DomainRows
<1> DEFINE p == OverlayPosition(m)
           open == OpenOf(d, m)
<1>2. p.yes = Balance(m, "YES") /\ p.no = Balance(m, "NO") /\ p.settled = marketState[m].settled
  BY <1>1 DEF OverlayPosition
<1>3. p.yes - p.no = Realized(m)
  BY <1>2 DEF Balance, Realized
<1>4. CASE marketState[m].settled
  BY <1>2, <1>4 DEF PositionRisk, MarketWorstCaseExposure
<1>5. CASE ~ marketState[m].settled
  <2>1. "BUY_YES" \in Kinds /\ "SELL_YES" \in Kinds /\ "BUY_NO" \in Kinds /\ "SELL_NO" \in Kinds
    BY DEF Kinds
  <2>2. /\ open["BUY_YES"] = marketState[m].open["BUY_YES"] /\ open["SELL_YES"] = marketState[m].open["SELL_YES"]
        /\ open["BUY_NO"] = marketState[m].open["BUY_NO"] /\ open["SELL_NO"] = marketState[m].open["SELL_NO"]
    BY <1>5, <2>1, PendingIsOpen DEF OpenOf
  <2> HIDE DEF open, p
  <2>3. /\ UpperBound(p.yes - p.no, open) = Up(m)
        /\ LowerBound(p.yes - p.no, open) = Dn(m)
    BY <1>3, <2>2 DEF Up, Dn, UpperBound, LowerBound
  <2>4. QED
    BY <1>1, <1>2, <1>5, <2>3 DEF PositionRisk, MarketWorstCaseExposure, open, p
<1>6. QED
  BY <1>4, <1>5

\* The reconstruction is the sum of the exposures of a domain's positions.
LEMMA ReconstructionIs ==
    ASSUME CeilingInv, LogInv, NoneLeftBehind, NEW d
    PROVE  ReconstructedWorstCase(d, log)
             = Sum([m \in Positions(d) |-> MarketWorstCaseExposure(m)], Positions(d))
<1> DEFINE keys == RowsOfDomain(d)
           positions == Positions(d)
           markets == positions \cup {OrderRows[k].market : k \in keys}
           Position(m) == IF m \in positions THEN OverlayPosition(m) ELSE Nothing
           f == [m \in markets |-> PositionRisk(Position(m), OpenOf(d, m))]
           g == [m \in positions |-> MarketWorstCaseExposure(m)]
<1>1. ReconstructedWorstCase(d, log) = Sum(f, markets)
  BY DEF ReconstructedWorstCase, RowsOfDomain, Positions, OrderRows, Tracked, OpenOf, PendingOf
<1>2. markets = positions
  BY DomainRows
<1>3. \A m \in markets : f[m] = g[m]
  BY <1>2, PositionIsMarket
<1> HIDE DEF markets, f, g
<1>4. Sum(f, markets) = Sum(g, markets)
  BY <1>3, SumSame
<1>5. QED
  BY <1>1, <1>2, <1>4 DEF g

\* ... and that sum is the contract's usage of the domain.
LEMMA PositionsAreUsage ==
    ASSUME CeilingInv, LogInv, NoneLeftBehind, NEW d \in Domains
    PROVE  Sum([m \in Positions(d) |-> MarketWorstCaseExposure(m)], Positions(d)) = DomainRiskUsage(d)
<1> DEFINE g == [m \in Positions(d) |-> MarketWorstCaseExposure(m)]
           h == Accounted(d)
           A == {m \in Positions(d) : g[m] # 0}
           B == {m \in Sampled(d) : h[m] # 0}
<1>1. TypeInv /\ DomainListsMatchTracking /\ PinnedToItsGeneration
  BY DEF CeilingInv, BooksInv, TypeInv
<1>2. Positions(d) = {m \in Markets : marketState[m].tracked /\ DomainOf[m] = d}
  BY DomainRows
<1>3. ASSUME NEW m \in Markets PROVE m \in Sampled(d) <=> Charged(m) /\ DomainOf[m] = d
  <2>1. ASSUME m \in Sampled(d) PROVE Charged(m) /\ DomainOf[m] = d
    <3>1. PICK k \in 1 .. Len(domainMarkets[d]) : domainMarkets[d][k] = m
      BY <2>1 DEF Sampled
    <3>2. marketState[m].domain = d
      BY <1>1, <3>1 DEF DomainListsMatchTracking
    <3>3. QED
      BY <1>1, <2>1, <3>2 DEF Sampled, Charged, PinnedToItsGeneration
  <2>2. ASSUME Charged(m), DomainOf[m] = d PROVE m \in Sampled(d)
    <3>1. marketState[m].tracked /\ marketState[m].domain = d
      BY <1>1, <2>2 DEF Charged, PinnedToItsGeneration
    <3>2. marketSlot[m] \in 1 .. Len(domainMarkets[d]) /\ domainMarkets[d][marketSlot[m]] = m
      BY <1>1, <3>1 DEF DomainListsMatchTracking
    <3>3. QED
      BY <2>2, <3>2 DEF Sampled
  <2>3. QED
    BY <2>1, <2>2
<1>4. A = {m \in Markets : Charged(m) /\ DomainOf[m] = d /\ MarketWorstCaseExposure(m) # 0}
  BY <1>2 DEF MarketWorstCaseExposure, Charged
<1>5. B = {m \in Markets : Charged(m) /\ DomainOf[m] = d /\ MarketWorstCaseExposure(m) # 0}
  <2>1. \A m \in Sampled(d) : m \in Markets /\ h[m] = MarketWorstCaseExposure(m)
    BY DEF Accounted, Sampled
  <2> HIDE DEF h
  <2>2. QED
    BY <1>3, <2>1
<1>6. \A m \in A : g[m] = MarketWorstCaseExposure(m)
  OBVIOUS
<1>7. \A m \in B : h[m] = MarketWorstCaseExposure(m)
  BY DEF Accounted
<1>8. Sum(g, Positions(d)) = Sum(g, A) /\ Sum(h, Sampled(d)) = Sum(h, B)
  BY SumWithoutZeros
<1> HIDE DEF A, B, g, h
<1>9. A = B
  BY <1>4, <1>5
<1>10. Sum(g, A) = Sum(h, A)
  BY <1>6, <1>7, <1>9, SumSame
<1>11. DomainRiskUsage(d) = Sum(h, Sampled(d))
  BY <1>1, UsageIsAccounted DEF h
<1>12. QED
  BY <1>8, <1>9, <1>10, <1>11 DEF g

\* The line of the control room adds up to at least the usage.
LEMMA LineCovers ==
    ASSUME CeilingInv, LogInv, NEW d \in Domains
    PROVE  Sum(Segments(d).reserved, Agents) + Segments(d).pooled >= DomainRiskUsage(d)
<1> DEFINE r == [a \in Agents |-> Attributed(d, a)]
<1>1. TypeOK /\ TypeInv /\ RowsMatch
  BY DEF CeilingInv, BooksInv, TypeInv, LogInv
<1>2. \A a \in Agents : r[a] \in Nat
  <2> SUFFICES ASSUME NEW a \in Agents PROVE Attributed(d, a) \in Nat
    OBVIOUS
  <2>1. Attributed(d, a) = Sum(QtyOpen, AgentParts(a, d))
    BY <1>1, AttributedIs
  <2>2. AgentParts(a, d) \in SUBSET OrderKeys
    BY DEF AgentParts, ShownOf, OfAgent, Records
  <2>3. IsFiniteSet(AgentParts(a, d)) /\ \A k \in AgentParts(a, d) : QtyOpen[k] \in Nat
    BY <1>1, <2>2, KeysFinite, FS_Subset, RecordValues
  <2>4. QED
    BY <2>1, <2>3, SumType
<1>3. Segments(d).reserved = r /\ Segments(d).pooled = Less(DomainRiskUsage(d), Sum(r, Agents))
  BY DEF Segments
<1> HIDE DEF r
<1>4. Sum(r, Agents) \in Nat
  BY <1>2, SumType, ViewsAssumption
<1>5. DomainRiskUsage(d) \in Nat
  <2>1. IsFiniteSet(Sampled(d)) /\ \A m \in Sampled(d) : Accounted(d)[m] \in Nat
    BY <1>1, SampledSlots, UsageIsAccounted
  <2>2. QED
    BY <1>1, <2>1, UsageIsAccounted, SumType
<1>6. QED
  BY <1>3, <1>4, <1>5 DEF Less

\* The API's second implementation of the risk of a domain gives the contract's
\* number while no order has been left behind by its market, and the control
\* room's segments cover it (reconstructDomainWorstCase, domain line).
THEOREM SecondOpinionCorrect == ViewsSpec => []IndependentAgrees
<1>1. CeilingInv /\ LogInv => IndependentAgrees
  <2> SUFFICES ASSUME CeilingInv, LogInv, NEW d \in Domains, NoneLeftBehind
               PROVE  /\ ReconstructedWorstCase(d, log) = DomainRiskUsage(d)
                      /\ Sum(Segments(d).reserved, Agents) + Segments(d).pooled >= DomainRiskUsage(d)
    BY DEF IndependentAgrees, NoneLeftBehind
  <2>1. QED
    BY ReconstructionIs, PositionsAreUsage, LineCovers
<1>2. QED
  BY <1>1, ViewsInvariant, PTL

-----------------------------------------------------------------------------
(* Lists.  Whoever pages through one sees each of its rows.                *)

\* A finite set can be listed: the list has its elements and no others.
LEMMA Listing ==
    ASSUME NEW S, IsFiniteSet(S)
    PROVE  /\ Seqs!SetToSeq(S) \in Seq(S)
           /\ {Seqs!SetToSeq(S)[i] : i \in 1 .. Len(Seqs!SetToSeq(S))} = S
<1> DEFINE N == Cardinality(S)
           f == Seqs!SetToSeq(S)
<1>1. N \in Nat /\ ExistsBijection(1 .. N, S)
  BY FS_CardinalityType
<1>2. \E g \in [1 .. N -> S] : IsInjective(g)
  BY <1>1 DEF ExistsBijection, Bijection, Injection
<1>3. \A T : Seqs!Cardinality(T) = Cardinality(T)
  BY Zenon DEF Cardinality, Seqs!Cardinality
<1>4. f \in [1 .. N -> S] /\ IsInjective(f)
  BY <1>2, <1>3 DEF Seqs!SetToSeq, IsInjective, Seqs!IsInjective
<1> HIDE DEF f
<1>5. f \in Seq(S) /\ Len(f) = N
  BY <1>1, <1>4
<1>6. f \in Surjection(1 .. N, S)
  <2>1. f \in Injection(1 .. N, S)
    BY <1>4 DEF Injection
  <2>2. Cardinality(1 .. N) = N
    BY <1>1, FS_Interval
  <2>3. QED
    BY <2>1, <2>2, FS_Injection
<1>7. QED
  <2>1. \A x \in S : \E i \in 1 .. N : f[i] = x
    BY <1>6 DEF Surjection
  <2>2. \A i \in 1 .. N : f[i] \in S
    BY <1>4
  <2>3. {f[i] : i \in 1 .. Len(f)} = S
    BY <1>5, <2>1, <2>2
  <2>4. QED
    BY <1>5, <2>3 DEF f

\* The offset of the page that a row is on
LEMMA OffsetOf ==
    ASSUME NEW P \in Nat \ {0}, NEW n \in Nat
    PROVE  \E offset \in 0 .. n : offset % P = 0 /\ n < offset + P
<1> DEFINE q == n \div P
<1>1. q \in Nat /\ P * q <= n /\ n < P * q + P
  BY DivBounds
<1> HIDE DEF q
<1>2. PICK x \in Nat : x = P * q
  BY <1>1
<1>3. x % P = 0
  BY <1>1, <1>2, SMT
<1>4. x \in 0 .. n /\ n < x + P
  BY <1>1, <1>2
<1>5. QED
  BY <1>3, <1>4

\* A page has the rows from its offset on.
LEMMA PageRows ==
    ASSUME NEW S, NEW rows \in Seq(S), NEW offset \in Nat, offset <= Len(rows)
    PROVE  /\ \A x \in Seqs!ToSet(Page(rows, offset)) : x \in S
           /\ \A i \in 1 .. Len(rows) :
                offset < i /\ i <= offset + PageSize => rows[i] \in Seqs!ToSet(Page(rows, offset))
<1> DEFINE e == IF offset + PageSize < Len(rows) THEN offset + PageSize ELSE Len(rows)
           page == SubSeq(rows, offset + 1, e)
<1>1. PageSize \in Nat \ {0} /\ Len(rows) \in Nat
  BY ViewsAssumption
<1>2. e \in Nat /\ offset <= e /\ e <= Len(rows) /\ offset + 1 \in Int
  BY <1>1
<1>3. \A i \in 1 .. Len(rows) : offset < i /\ i <= offset + PageSize => i <= e
  BY <1>1
<1> HIDE DEF e
<1>4. \A i \in offset + 1 .. e : rows[i] \in S
  BY <1>1, <1>2
<1>5. page \in Seq(S) /\ Len(page) = e - offset /\ \A i \in 1 .. e - offset : page[i] = rows[offset + i]
  <2>1. /\ page \in Seq(S)
        /\ Len(page) = IF offset + 1 <= e THEN e - (offset + 1) + 1 ELSE 0
        /\ \A i \in 1 .. e - (offset + 1) + 1 : page[i] = rows[(offset + 1) + i - 1]
    BY <1>2, <1>4, SubSeqProperties
  <2> HIDE DEF page
  <2>2. e - (offset + 1) + 1 = e - offset /\ \A i \in 1 .. e - offset : (offset + 1) + i - 1 = offset + i
    BY <1>2
  <2>3. QED
    BY <1>2, <2>1, <2>2
<1>6. Page(rows, offset) = page
  BY DEF Page, e
<1> HIDE DEF page
<1>7. \A x \in Seqs!ToSet(page) : x \in S
  BY <1>5 DEF Seqs!ToSet
<1>8. ASSUME NEW i \in 1 .. Len(rows), offset < i, i <= offset + PageSize PROVE rows[i] \in Seqs!ToSet(page)
  <2>1. i - offset \in 1 .. e - offset /\ offset + (i - offset) = i
    BY <1>1, <1>2, <1>3, <1>8
  <2>2. i - offset \in DOMAIN page /\ page[i - offset] = rows[i]
    BY <1>2, <1>5, <2>1
  <2>3. QED
    BY <2>2 DEF Seqs!ToSet
<1>9. QED
  BY <1>6, <1>7, <1>8

\* The pages of a list have its rows and no others.
LEMMA PagesShowAll ==
    ASSUME NEW S, NEW rows \in Seq(S), {rows[i] : i \in 1 .. Len(rows)} = S
    PROVE  PagedRows(rows) = S
<1>1. PageSize \in Nat \ {0} /\ Len(rows) \in Nat
  BY ViewsAssumption
<1>2. \A offset \in Offsets(Len(rows)) : offset \in Nat /\ offset <= Len(rows)
  BY <1>1 DEF Offsets
<1>3. \A x \in PagedRows(rows) : x \in S
  <2> SUFFICES ASSUME NEW offset \in Offsets(Len(rows)), NEW x \in Seqs!ToSet(Page(rows, offset)) PROVE x \in S
    BY DEF PagedRows
  <2>1. QED
    BY <1>2, PageRows
<1>4. ASSUME NEW x \in S PROVE x \in PagedRows(rows)
  <2>1. PICK i \in 1 .. Len(rows) : rows[i] = x
    OBVIOUS
  <2>2. i - 1 \in Nat
    BY <1>1
  <2>3. PICK offset \in 0 .. i - 1 : offset % PageSize = 0 /\ i - 1 < offset + PageSize
    BY <1>1, <2>2, OffsetOf
  <2>4. offset \in Offsets(Len(rows))
    BY <1>1, <2>3 DEF Offsets
  <2>5. offset \in Nat /\ offset <= Len(rows) /\ offset < i /\ i <= offset + PageSize
    BY <1>1, <2>3
  <2>6. rows[i] \in Seqs!ToSet(Page(rows, offset))
    BY <2>5, PageRows
  <2>7. QED
    BY <2>1, <2>4, <2>6 DEF PagedRows
<1>5. QED
  BY <1>3, <1>4

\* A listed market has a domain and a slot of its own.
LEMMA TrackedFinite ==
    ASSUME TypeInv
    PROVE  IsFiniteSet({m \in Markets : marketState[m].tracked})
<1> DEFINE T == {m \in Markets : marketState[m].tracked}
           R == Domains \X (1 .. MaxMarkets)
           h == [m \in T |-> <<marketState[m].domain, marketSlot[m]>>]
<1>1. DomainListsMatchTracking /\ \A d \in Domains : domainMarkets[d] \in Seq(Markets)
  BY DEF TypeInv, TypeOK
<1>2. IsFiniteSet(R)
  <2>1. 1 \in Int /\ MaxMarkets \in Int
    BY PortfolioAssumption
  <2>2. IsFiniteSet(1 .. MaxMarkets)
    BY <2>1, FS_Interval
  <2>3. QED
    BY <2>2, FS_Product, ViewsAssumption
<1>3. ASSUME NEW m \in T
      PROVE  /\ marketState[m].domain \in Domains /\ marketSlot[m] \in 1 .. MaxMarkets
             /\ domainMarkets[marketState[m].domain][marketSlot[m]] = m
  <2>1. /\ marketState[m].domain \in Domains
        /\ marketSlot[m] \in 1 .. Len(domainMarkets[marketState[m].domain])
        /\ domainMarkets[marketState[m].domain][marketSlot[m]] = m
    BY <1>1 DEF DomainListsMatchTracking
  <2>2. Len(domainMarkets[marketState[m].domain]) <= MaxMarkets /\ Len(domainMarkets[marketState[m].domain]) \in Nat
    BY <1>1, <2>1 DEF DomainListsMatchTracking
  <2>3. QED
    BY <2>1, <2>2, PortfolioAssumption
<1>4. h \in [T -> R]
  <2>1. \A m \in T : <<marketState[m].domain, marketSlot[m]>> \in R
    BY <1>3
  <2> HIDE DEF T, R
  <2>2. QED
    BY <2>1
<1>5. \A x, y \in T : h[x] = h[y] => x = y
  <2> SUFFICES ASSUME NEW x \in T, NEW y \in T, h[x] = h[y] PROVE x = y
    OBVIOUS
  <2>1. marketState[x].domain = marketState[y].domain /\ marketSlot[x] = marketSlot[y]
    OBVIOUS
  <2>2. QED
    BY <1>3, <2>1
<1> HIDE DEF T, R, h
<1>6. IsFiniteSet(T)
  BY <1>2, <1>4, <1>5, OneToOne
<1>7. QED
  BY <1>6 DEF T

\* The pages of the exposure view show each row, and each tracked market.
LEMMA AllListed ==
    ASSUME TypeInv, RowsMatch, TrackedMatch
    PROVE  /\ ReservationsListed = DOMAIN OrderRows
           /\ PositionsListed = DOMAIN Tracked /\ DOMAIN Tracked \subseteq Markets
<1>1. IsFiniteSet(DOMAIN OrderRows)
  BY KeysFinite, FS_Subset DEF RowsMatch, RowsTyped
<1>2. IsFiniteSet(DOMAIN Tracked) /\ DOMAIN Tracked \subseteq Markets
  BY TrackedFinite DEF TrackedMatch
<1>3. PagedRows(Seqs!SetToSeq(DOMAIN OrderRows)) = DOMAIN OrderRows
  BY <1>1, Listing, PagesShowAll
<1>4. PagedRows(Seqs!SetToSeq(DOMAIN Tracked)) = DOMAIN Tracked
  BY <1>2, Listing, PagesShowAll
<1>5. QED
  BY <1>2, <1>3, <1>4 DEF ReservationsListed, PositionsListed, OrderRows, Tracked

\* What the redeem button redeems is worth something, but for one base unit of
\* a void (RedeemButton, the payout of the settlement module).
THEOREM RedeemCorrect == ViewsSpec => []OfferedRedeemPays
<1>1. CeilingInv /\ LogInv => OfferedRedeemPays
  <2> DEFINE side(m) == WinningSide(m)
             held(m) == bal[TokenId(PoolOf[m], GenOf[m], side(m))]
  <2> SUFFICES ASSUME CeilingInv, LogInv, NEW m \in RedeemOffered
               PROVE  Payout(m, side(m), held(m)) > 0 \/ (phase[m] = "voided" /\ held(m) = 1)
    BY DEF OfferedRedeemPays
  <2>1. TypeInv /\ TypeOK /\ SettledForGood /\ RowsMatch /\ TrackedMatch
    BY DEF CeilingInv, BooksInv, TypeInv, LogInv
  <2>2. m \in RowButtons /\ held(m) > 0
    BY DEF RedeemOffered
  <2>3. m \in Markets /\ marketState[m].settled
    BY <2>1, <2>2, AllListed DEF RowButtons
  <2>4. phase[m] \in Terminal
    BY <2>1, <2>3 DEF SettledForGood, IsSettled
  <2>5. held(m) \in Nat
    <3>1. TokenId(PoolOf[m], GenOf[m], side(m)) \in TokenIds
      BY <2>3, VenueAssumption DEF TokenId, TokenIds, WinningSide, Sides
    <3>2. QED
      BY <2>1, <3>1 DEF TypeOK, VenueTypeOK
  <2> HIDE DEF held
  <2>6. CASE phase[m] = "resolvedNo"
    BY <2>2, <2>6 DEF Payout, WinningSide
  <2>7. CASE phase[m] = "resolvedYes"
    BY <2>2, <2>7 DEF Payout, WinningSide
  <2>8. CASE phase[m] = "voided"
    <3>1. Payout(m, side(m), held(m)) = held(m) \div 2
      BY <2>8 DEF Payout
    <3>2. held(m) = 1 \/ held(m) \div 2 > 0
      BY <2>2, <2>5
    <3>3. QED
      BY <2>8, <3>1, <3>2
  <2>9. QED
    BY <2>4, <2>6, <2>7, <2>8 DEF Terminal
<1>2. QED
  BY <1>1, ViewsInvariant, PTL

-----------------------------------------------------------------------------
(* What is offered.  Whether a step is enabled is beyond the prover; here  *)
(* it is releaseOrder's own guards that are shown to hold.                 *)

Releasable(k) ==
  /\ orderRec[k].qtyOpen # 0 /\ StillOpen(k) < orderRec[k].qtyOpen
  /\ marketState[orderRec[k].market].open[orderRec[k].kind] >= orderRec[k].qtyOpen - StillOpen(k)

OfferedAreReleasable ==
  \A failed \in SUBSET ReservationsListed :
    /\ \A k \in ReleaseOffered(failed) \ failed : marketState[orderRec[k].market].settled \/ Releasable(k)
    /\ \A d \in Domains : /\ PendingReleases(d, {}) \subseteq ReleaseOffered(failed)
                          /\ AllShown /\ PendingReleases(d, {}) # {} => PanelOffers(d, failed)
    /\ {k \in OrderKeys : StillOpen(k) > 0} \subseteq CancelOffered(failed)

\* A row needs reconciliation when the venue holds less than the record, or
\* the venue was not read.
LEMMA NeedsReconciliation ==
    ASSUME TypeOK, NEW k \in OrderKeys, NEW failed
    PROVE  OverlayReservation(k, failed).state = "NEEDS_RECONCILIATION"
             <=> orderRec[k].qtyOpen # 0 /\ (k \in failed \/ StillOpen(k) < orderRec[k].qtyOpen)
<1> DEFINE q == orderRec[k].qtyOpen
           read == StillOpenRead(k, failed)
           more == Less(q, read)
           o == OverlayReservation(k, failed)
<1>1. o.state = CASE q = 0 -> "FINALIZED" [] more > 0 -> "NEEDS_RECONCILIATION" [] OTHER -> "RESTING"
  BY DEF OverlayReservation
<1>2. q \in Nat
  BY RecordValues
<1>3. StillOpen(k) \in Nat /\ read = IF k \in failed THEN 0 ELSE StillOpen(k)
  BY StillOpenType DEF TypeOK, StillOpenRead
<1> HIDE DEF q, read
<1>4. more \in Nat /\ (q = 0 => more = 0) /\ (more > 0 <=> read < q)
  BY <1>2, <1>3 DEF Less
<1>5. q # 0 => (read < q <=> k \in failed \/ StillOpen(k) < q)
  BY <1>2, <1>3
<1> HIDE DEF more, o
<1>6. o.state = "NEEDS_RECONCILIATION" <=> q # 0 /\ more > 0
  BY <1>1, <1>2, <1>4
<1>7. QED
  BY <1>4, <1>5, <1>6 DEF q, o

\* A market's counter covers each of its records.
LEMMA CounterCovers ==
    ASSUME TypeOK, ReservationsMatchRecords, NEW k \in Records, ~ marketState[orderRec[k].market].settled
    PROVE  orderRec[k].qtyOpen <= marketState[orderRec[k].market].open[orderRec[k].kind]
<1> DEFINE m == orderRec[k].market
           kind == orderRec[k].kind
           S == RecordsOf(m, kind)
<1>1. k \in OrderKeys /\ orderRec[k].qtyOpen # 0 /\ QtyOpen[k] = orderRec[k].qtyOpen /\ QtyOpen[k] \in Nat
  BY RecordValues DEF Records
<1>2. m \in Markets /\ kind \in Kinds
  BY <1>1, RecordFields
<1>3. k \in S /\ S \in SUBSET OrderKeys
  BY DEF RecordsOf, Records
<1>4. IsFiniteSet(S) /\ \A x \in S : QtyOpen[x] \in Nat
  BY <1>3, KeysFinite, FS_Subset, RecordValues
<1>5. marketState[m].open[kind] = Sum(QtyOpen, S)
  BY <1>2 DEF ReservationsMatchRecords
<1> HIDE DEF S, m, kind
<1>6. Sum(QtyOpen, S) = Sum(QtyOpen, S \ {k}) + QtyOpen[k]
  BY <1>3, <1>4, SumRemove
<1>7. Sum(QtyOpen, S \ {k}) \in Nat
  <2>1. IsFiniteSet(S \ {k}) /\ \A x \in S \ {k} : QtyOpen[x] \in Nat
    BY <1>4, FS_RemoveElement
  <2>2. QED
    BY <2>1, SumType
<1>8. QED
  BY <1>1, <1>5, <1>6, <1>7 DEF m, kind

\* An order that still rests has an open record.
LEMMA RestingIsRecorded ==
    ASSUME TypeOK, RecordsPay, NEW k \in OrderKeys, StillOpen(k) > 0
    PROVE  k \in Records
<1>1. /\ k[1] \in Pools /\ k[2] \in Gens /\ k[3] \in OrderIds /\ k = <<k[1], k[2], k[3]>>
  BY DEF OrderKeys
<1> DEFINE o == <<k[1], k[3]>>
<1>2. poolNonce[k[1]] = k[2] /\ book[o].quantityRemaining > 0
  BY DEF StillOpen, LiveRemaining
<1>3. o \in Pools \X OrderIds
  BY <1>1
<1>4. book[o].quantityRemaining \in Nat
  BY <1>3 DEF TypeOK, VenueTypeOK, BookOrders
<1>5. o \in Resting
  BY <1>2, <1>3, <1>4 DEF Resting
<1>6. KeyOf(o) = k
  BY <1>1, <1>2 DEF KeyOf, OrderKey
<1>7. orderRec[k].qtyOpen >= book[o].quantityRemaining
  BY <1>5, <1>6 DEF RecordsPay
<1> HIDE DEF o
<1>8. orderRec[k].qtyOpen \in Nat
  BY RecordValues
<1>9. orderRec[k].qtyOpen # 0
  BY <1>2, <1>4, <1>7, <1>8
<1>10. QED
  BY <1>9 DEF Records

\* A reservation whose reads went through is offered for release only when
\* releaseOrder's guards hold for it or its market is settled; whatever reads
\* fail, what is pending is offered, by the pages and, while every open row is
\* shown, by the panel; and an order that still rests can be cancelled.
THEOREM OfferedCorrect == ViewsSpec => []OfferedAreReleasable
<1>1. CeilingInv /\ LogInv => OfferedAreReleasable
  <2> SUFFICES ASSUME CeilingInv, LogInv, NEW failed \in SUBSET ReservationsListed
               PROVE  /\ \A k \in ReleaseOffered(failed) \ failed : marketState[orderRec[k].market].settled \/ Releasable(k)
                      /\ \A d \in Domains : /\ PendingReleases(d, {}) \subseteq ReleaseOffered(failed)
                                            /\ AllShown /\ PendingReleases(d, {}) # {} => PanelOffers(d, failed)
                      /\ {k \in OrderKeys : StillOpen(k) > 0} \subseteq CancelOffered(failed)
    BY DEF OfferedAreReleasable
  <2>1. /\ TypeInv /\ TypeOK /\ RecordsPay /\ ReservationsMatchRecords /\ RowsMatch /\ TrackedMatch
    BY DEF CeilingInv, BooksInv, TypeInv, LogInv
  <2>2. ReservationsListed = DOMAIN OrderRows
    BY <2>1, AllListed
  <2>3. /\ DOMAIN OrderRows \subseteq OrderKeys /\ OpenRows(log) = Records
        /\ \A k \in DOMAIN OrderRows : OrderRows[k].qtyOpen > 0 <=> k \in Records
        /\ \A k \in Records : k \in DOMAIN OrderRows
    BY <2>1, OpenRowsAreRecords
  <2>4. \A k \in DOMAIN OrderRows :
          /\ OverlayReservation(k, failed).state = "NEEDS_RECONCILIATION"
               <=> k \in Records /\ (k \in failed \/ StillOpen(k) < orderRec[k].qtyOpen)
          /\ OverlayReservation(k, {}).state = "NEEDS_RECONCILIATION"
               <=> k \in Records /\ StillOpen(k) < orderRec[k].qtyOpen
    BY <2>1, <2>3, NeedsReconciliation DEF Records
  <2>5. ASSUME NEW k \in ReleaseOffered(failed) \ failed, ~ marketState[orderRec[k].market].settled PROVE Releasable(k)
    <3>1. k \in Records /\ StillOpen(k) < orderRec[k].qtyOpen
      BY <2>2, <2>4 DEF ReleaseOffered
    <3>2. k \in OrderKeys /\ orderRec[k].qtyOpen # 0
      BY <3>1 DEF Records
    <3>3. orderRec[k].qtyOpen <= marketState[orderRec[k].market].open[orderRec[k].kind]
      BY <2>1, <2>5, <3>1, CounterCovers
    <3>4. StillOpen(k) \in Nat /\ orderRec[k].qtyOpen \in Nat
      BY <2>1, <3>2, StillOpenType, RecordValues DEF TypeOK
    <3>5. marketState[orderRec[k].market].open[orderRec[k].kind] \in Nat
      <4>1. orderRec[k].market \in Markets /\ orderRec[k].kind \in Kinds
        BY <2>1, <3>2, RecordFields
      <4>2. QED
        BY <2>1, <4>1 DEF TypeOK, MarketStates
    <3>6. QED
      BY <3>1, <3>2, <3>3, <3>4, <3>5 DEF Releasable
  <2>6. ASSUME NEW d \in Domains
        PROVE  /\ PendingReleases(d, {}) \subseteq ReleaseOffered(failed)
               /\ AllShown /\ PendingReleases(d, {}) # {} => PanelOffers(d, failed)
    <3>1. \A k \in PendingReleases(d, {}) :
            /\ k \in DOMAIN OrderRows /\ k \in OpenRows(log) /\ OrderRows[k].domain = d
            /\ OverlayReservation(k, failed).state = "NEEDS_RECONCILIATION"
      BY <2>3, <2>4 DEF PendingReleases, OrderRows
    <3>2. PendingReleases(d, {}) \subseteq ReleaseOffered(failed)
      BY <2>2, <3>1 DEF ReleaseOffered
    <3>3. ASSUME AllShown, NEW k \in PendingReleases(d, {}) PROVE PanelOffers(d, failed)
      <4>1. k \in LatestRows
        BY <3>1, <3>3 DEF AllShown
      <4>2. QED
        BY <3>1, <4>1 DEF PanelOffers, OrderRows
    <3>4. QED
      BY <3>2, <3>3
  <2>7. ASSUME NEW k \in OrderKeys, StillOpen(k) > 0 PROVE k \in CancelOffered(failed)
    <3>1. k \in Records /\ k \in ReservationsListed
      BY <2>1, <2>2, <2>3, <2>7, RestingIsRecorded
    <3>2. OverlayReservation(k, failed).state \in OpenStates
      BY <2>1, <3>1, OpenState DEF Records
    <3>3. orderRec[k] # NoRecord
      BY <3>1 DEF Records, NoRecord
    <3>4. QED
      BY <3>1, <3>2, <3>3 DEF CancelOffered
  <2>8. QED
    BY <2>5, <2>6, <2>7
<1>2. QED
  BY <1>1, ViewsInvariant, PTL

=============================================================================
