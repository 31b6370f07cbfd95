--------------------------- MODULE IndexerProofs -----------------------------
(***************************************************************************)
(* Theorems about the indexer, for any number of workers, portfolios and   *)
(* orders, any window and chunk, and any number of overlaps, crashes,      *)
(* failed cursor reads and writes, and rewinds: what the cursor has passed *)
(* is recorded, and, where nothing failed, the tables at rest agree with   *)
(* the contract.                                                           *)
(***************************************************************************)
EXTENDS IndexerSafety, TLAPS

-----------------------------------------------------------------------------
(* The chain *)

(* Every log has its block, below the head, and the log of its portfolio's
   creation in that block or an earlier one; only markets of created portfolios
   are tracked. *)
ChainInv ==
  /\ head \in Nat
  /\ market \in [Portfolios \X Markets -> {"untracked", "tracked", "settled", "closed"}]
  /\ \A l \in logs : l.block \in 1 .. head /\ l.portfolio \in Portfolios /\ l.order \in Orders \cup {NoOrder}
  /\ \A l \in logs : \E c \in logs : /\ c.event = "PortfolioCreated" /\ c.portfolio = l.portfolio
                                     /\ c.block <= l.block
  /\ \A p \in Portfolios, m \in Markets : market[<<p, m>>] # "untracked" => p \in Created

(* What a portfolio's own logs are, and the portfolios created up to a block *)
OwnLogs(from, to) == {l \in logs : l.event # "PortfolioCreated" /\ from <= l.block /\ l.block <= to}
CreatedBy(to)     == {l.portfolio : l \in {k \in logs : k.event = "PortfolioCreated" /\ k.block <= to}}

-----------------------------------------------------------------------------
(* The invocations *)

Stages  == {"idle", "cursor", "portfolios", "chunk", "logs", "project", "sync", "syncWrite"}
Ranged  == {"portfolios", "chunk", "logs", "project", "sync", "syncWrite"}
Fetched == {"logs", "project", "sync", "syncWrite"}

RunRecord ==
  [pc : Stages, from : Nat, to : 0 .. head, known : SUBSET portfolios, todo : SUBSET logs,
   log : SUBSET events, admitted : SUBSET (Orders \cup {NoOrder}), settled : BOOLEAN]

RunType == run \in [Workers -> RunRecord]

(* What an invocation goes by is behind it: all logs below the chunk are
   recorded and the portfolios they name are known; those of the chunk are
   recorded or still to do. *)
RunCovers(w) ==
  /\ ~ At(w, "idle") => 1 <= run[w].to
  /\ run[w].pc \in Ranged =>
       /\ 1 <= run[w].from /\ run[w].from <= run[w].to
       /\ OwnLogs(1, run[w].from - 1) \subseteq events
       /\ CreatedBy(run[w].from - 1) \subseteq portfolios
  /\ run[w].pc \in Ranged \ {"portfolios"} => CreatedBy(run[w].from - 1) \subseteq run[w].known
  /\ run[w].pc \in Fetched =>
       /\ \A l \in run[w].todo : l.event # "PortfolioCreated"
       /\ OwnLogs(run[w].from, ChunkEnd(w)) \subseteq events \cup run[w].todo
       /\ CreatedBy(ChunkEnd(w)) \subseteq run[w].known

(* So is what the cursor has passed. *)
CursorCovers ==
  /\ cursor \in NoCursor .. head
  /\ OwnLogs(1, cursor) \subseteq events
  /\ CreatedBy(cursor) \subseteq portfolios

(* A log that is being projected has not been before, and by nobody else. *)
AppliedOnce ==
  /\ events \subseteq logs /\ applied \in [events -> Nat]
  /\ \A w \in Workers : At(w, "project") => \E l \in events : run[w].log = {l} /\ applied[l] = 0
  /\ \A v, w \in Workers : At(v, "project") /\ At(w, "project") /\ run[v].log = run[w].log => v = w

IndexerInv ==
  /\ ChainInv /\ RunType /\ CursorCovers /\ AppliedOnce
  /\ \A w \in Workers : RunCovers(w)

-----------------------------------------------------------------------------
(* The chain's steps *)

\* A mined transaction adds logs of one portfolio in a new block.
LEMMA MineAdds ==
    ASSUME NEW kind, NEW entries, NEW p \in Portfolios, Mine(kind, entries),
           \A i \in DOMAIN entries : entries[i].portfolio = p /\ entries[i].order \in Orders \cup {NoOrder}
    PROVE  /\ head' = head + 1 /\ logs \subseteq logs'
           /\ \A l \in logs' : \/ l \in logs
                               \/ l.block = head + 1 /\ l.portfolio = p /\ l.order \in Orders \cup {NoOrder}
           /\ \A i \in DOMAIN entries : entries[i].event = "PortfolioCreated" =>
                \E c \in logs' : c.event = "PortfolioCreated" /\ c.portfolio = p /\ c.block = head + 1
<1> DEFINE L(i) == [block |-> head + 1, index |-> i, event |-> entries[i].event,
                    portfolio |-> entries[i].portfolio, market |-> entries[i].market,
                    order |-> entries[i].order, qty |-> entries[i].qty]
<1>1. head' = head + 1 /\ logs' = logs \cup {L(i) : i \in DOMAIN entries}
  BY DEF Mine
<1>2. \A i \in DOMAIN entries : /\ L(i).block = head + 1 /\ L(i).portfolio = p
                                /\ L(i).order \in Orders \cup {NoOrder} /\ L(i).event = entries[i].event
  OBVIOUS
<1> HIDE DEF L
<1>3. QED
  BY <1>1, <1>2

\* The portfolios of the logs so far, without the bounds of the search
LEMMA CreatedIs ==
    ASSUME ChainInv
    PROVE  \A p : p \in Created <=> \E c \in logs : c.event = "PortfolioCreated" /\ c.portfolio = p
BY DEF ChainInv, Created, FactoryLogs, Blocks

\* A transaction of a portfolio that exists, or that it creates.
LEMMA MineKeeps ==
    ASSUME ChainInv, NEW kind, NEW entries, NEW p \in Portfolios, Mine(kind, entries),
           \A i \in DOMAIN entries : entries[i].portfolio = p /\ entries[i].order \in Orders \cup {NoOrder},
           p \in Created \/ \E i \in DOMAIN entries : entries[i].event = "PortfolioCreated",
           market' \in [Portfolios \X Markets -> {"untracked", "tracked", "settled", "closed"}],
           \A q \in Portfolios, m \in Markets : market'[<<q, m>>] # "untracked" => q = p \/ market[<<q, m>>] # "untracked"
    PROVE  /\ ChainInv' /\ head' = head + 1 /\ logs \subseteq logs'
           /\ \A l \in logs' : l \in logs \/ l.block = head + 1
<1>1. /\ head' = head + 1 /\ logs \subseteq logs'
      /\ \A l \in logs' : \/ l \in logs
                          \/ l.block = head + 1 /\ l.portfolio = p /\ l.order \in Orders \cup {NoOrder}
      /\ \A i \in DOMAIN entries : entries[i].event = "PortfolioCreated" =>
           \E c \in logs' : c.event = "PortfolioCreated" /\ c.portfolio = p /\ c.block = head + 1
  BY MineAdds
<1>2. PICK c \in logs' : c.event = "PortfolioCreated" /\ c.portfolio = p /\ c.block <= head + 1
  BY <1>1, CreatedIs DEF ChainInv
<1>3. head \in Nat /\ head' \in Nat
  BY <1>1 DEF ChainInv
<1>4. \A l \in logs' : l.block \in 1 .. head' /\ l.portfolio \in Portfolios /\ l.order \in Orders \cup {NoOrder}
  BY <1>1, <1>3 DEF ChainInv
<1>5. \A l \in logs' : \E d \in logs' : /\ d.event = "PortfolioCreated" /\ d.portfolio = l.portfolio
                                        /\ d.block <= l.block
  BY <1>1, <1>2, <1>3 DEF ChainInv
<1>6. \A q : (\E d \in logs' : d.event = "PortfolioCreated" /\ d.portfolio = q) => q \in Created'
  BY <1>4 DEF Created, FactoryLogs, Blocks
<1>7. \A q \in Portfolios, m \in Markets : market'[<<q, m>>] # "untracked" => q \in Created'
  BY <1>1, <1>2, <1>6, CreatedIs DEF ChainInv
<1>8. ChainInv'
  BY <1>3, <1>4, <1>5, <1>7 DEF ChainInv
<1>9. QED
  BY <1>1, <1>8

\* The chain only grows, by one block, and keeps its invariant.
LEMMA ChainKeeps ==
    ASSUME ChainInv, ChainNext
    PROVE  /\ ChainInv' /\ head' = head + 1 /\ logs \subseteq logs'
           /\ \A l \in logs' : l \in logs \/ l.block = head + 1
<1> DEFINE Statuses == {"untracked", "tracked", "settled", "closed"}
           Kept == /\ ChainInv' /\ head' = head + 1 /\ logs \subseteq logs'
                   /\ \A l \in logs' : l \in logs \/ l.block = head + 1
<1>1. ASSUME NEW kind, NEW p \in Portfolios, NEW e, Mine(kind, <<e>>), e.portfolio = p,
             e.order \in Orders \cup {NoOrder}, p \in Created,
             market' \in [Portfolios \X Markets -> Statuses],
             \A q \in Portfolios, m \in Markets : market'[<<q, m>>] # "untracked" => q = p \/ market[<<q, m>>] # "untracked"
      PROVE  Kept
  BY <1>1, MineKeeps
<1>2. market \in [Portfolios \X Markets -> Statuses]
  BY DEF ChainInv
<1>3. \A p \in Portfolios, m \in Markets : market[<<p, m>>] # "untracked" => p \in Created
  BY DEF ChainInv
<1>4. ASSUME NEW p \in Portfolios, NEW m \in Markets, NEW v \in Statuses,
             market' = [market EXCEPT ![<<p, m>>] = v]
      PROVE  /\ market' \in [Portfolios \X Markets -> Statuses]
             /\ \A q \in Portfolios, n \in Markets : market'[<<q, n>>] # "untracked" => q = p \/ market[<<q, n>>] # "untracked"
  BY <1>2, <1>4
<1>5. ASSUME NEW o \in Orders, NEW q \in 0 .. MaxQty, Execute(o, q)
      PROVE  Kept
  <2> DEFINE p == OwnerOf[o]
             m == MarketOf[o]
             a == OfMarket("MarketTracked", p, m)
             b == OfOrder("IntentAdmitted", o, 0)
             c == OfOrder("IntentReconciled", o, q)
             es == (IF market[<<p, m>>] = "untracked" THEN <<a>> ELSE <<>>) \o <<b, c>>
  <2>1. p \in Portfolios /\ m \in Markets
    BY OrdersAssumption
  <2>2. Mine("execute", es) /\ p \in Created /\ market' = [market EXCEPT ![<<p, m>>] = "tracked"]
    BY <1>5 DEF Execute
  <2>3. \A i \in DOMAIN es : es[i] \in {a, b, c}
    <3> DEFINE S == {a, b, c}
               f == IF market[<<p, m>>] = "untracked" THEN <<a>> ELSE <<>>
               g == <<b, c>>
    <3>1. es = f \o g
      OBVIOUS
    <3>2. f \in Seq(S) /\ g \in Seq(S)
      <4> HIDE DEF a, b, c, p, m
      <4>1. a \in S /\ b \in S /\ c \in S
        OBVIOUS
      <4> HIDE DEF S
      <4>2. <<a>> \in Seq(S) /\ <<b, c>> \in Seq(S)
        BY <4>1
      <4>3. f = <<a>> \/ f = <<>>
        OBVIOUS
      <4>4. <<>> \in Seq(S)
        OBVIOUS
      <4>5. QED
        BY <4>2, <4>3, <4>4
    <3> HIDE DEF f, g, S, es
    <3>3. es \in Seq(S)
      BY <3>1, <3>2
    <3>4. \A i \in DOMAIN es : es[i] \in S
      BY <3>3
    <3>5. QED
      BY <3>4 DEF S
  <2>4. /\ a.portfolio = p /\ b.portfolio = p /\ c.portfolio = p
        /\ a.order = NoOrder /\ b.order = o /\ c.order = o
    BY DEF OfMarket, OfOrder, Entry
  <2>5. \A i \in DOMAIN es : es[i].portfolio = p /\ es[i].order \in Orders \cup {NoOrder}
    <3> HIDE DEF a, b, c, es
    <3>1. QED
      BY <2>3, <2>4
  <2> HIDE DEF es, p, m
  <2>6. QED
    BY <1>4, <2>1, <2>2, <2>5, MineKeeps
<1>6. ASSUME NEW o \in Orders, NEW q, ReleaseOrder(o, q)
      PROVE  Kept
  <2>1. OwnerOf[o] \in Portfolios /\ MarketOf[o] \in Markets
    BY OrdersAssumption
  <2> DEFINE e == OfOrder("ReservationReleased", o, record[o] - q)
  <2>2. /\ \E kind : Mine(kind, <<e>>)
        /\ OwnerOf[o] \in Created /\ market' = market
    BY <1>3, <1>6, <2>1 DEF ReleaseOrder
  <2>3. e.portfolio = OwnerOf[o] /\ e.order = o
    BY DEF OfOrder, Entry
  <2> HIDE DEF e
  <2>4. QED
    BY <1>1, <1>2, <2>1, <2>2, <2>3
<1>7. ASSUME NEW p \in Portfolios, NEW m \in Markets, ReleaseSettled(p, m) \/ Redeem(p, m) \/ PruneMarket(p, m)
      PROVE  Kept
  <2>1. PICK name : \E kind : Mine(kind, <<OfMarket(name, p, m)>>)
    BY <1>7 DEF ReleaseSettled, Redeem, PruneMarket
  <2> DEFINE e == OfMarket(name, p, m)
  <2>2. e.portfolio = p /\ e.order = NoOrder
    BY DEF OfMarket, Entry
  <2>3. \E kind : Mine(kind, <<e>>)
    BY <2>1
  <2>4. p \in Created
    BY <1>3, <1>7 DEF ReleaseSettled, Redeem, PruneMarket
  <2>5. \/ market' = market
        \/ \E v \in Statuses : market' = [market EXCEPT ![<<p, m>>] = v]
    BY <1>7 DEF ReleaseSettled, Redeem, PruneMarket
  <2> HIDE DEF e
  <2>6. QED
    BY <1>1, <1>2, <1>4, <2>2, <2>3, <2>4, <2>5
<1>8. ASSUME NEW p \in Portfolios, NEW name, NEW q, Configure(p, name, q)
      PROVE  Kept
  <2> DEFINE e == Entry(name, p, NoMarket, NoOrder, q)
  <2>1. e.portfolio = p /\ e.order = NoOrder
    BY DEF Entry
  <2>2. Mine("configure", <<e>>) /\ p \in Created /\ market' = market
    BY <1>8 DEF Configure
  <2> HIDE DEF e
  <2>3. QED
    BY <1>1, <1>2, <2>1, <2>2
<1>9. ASSUME NEW p \in Portfolios, CreatePortfolio(p)
      PROVE  Kept
  <2> DEFINE a == Of("Initialized", p)
             b == Of("PortfolioCreated", p)
             es == <<a, b>>
  <2>1. Mine("create", es) /\ market' = market
    BY <1>9 DEF CreatePortfolio
  <2>2. /\ a.portfolio = p /\ b.portfolio = p /\ a.order = NoOrder /\ b.order = NoOrder
        /\ b.event = "PortfolioCreated"
    BY DEF Of, Entry
  <2> HIDE DEF a, b
  <2>3. /\ \A i \in DOMAIN es : es[i].portfolio = p /\ es[i].order \in Orders \cup {NoOrder}
        /\ \E i \in DOMAIN es : es[i].event = "PortfolioCreated"
    BY <2>2
  <2> HIDE DEF es
  <2>4. QED
    BY <1>2, <2>1, <2>3, MineKeeps
<1>10. QED
  BY <1>5, <1>6, <1>7, <1>8, <1>9 DEF ChainNext, OrderNext, PortfolioNext, SetAgent, RevokeAgent, SetDomainPolicy

-----------------------------------------------------------------------------
(* Operators *)

\* On a node that keeps its state the search ends at the factory's own block.
LEMMA SearchEnds ==
    ASSUME NEW top \in Nat, top >= Genesis, StateFrom <= Genesis
    PROVE  FindDeploymentBlock(top) = Genesis
<1> DEFINE P(h) == (h = top \/ HasCode(h)) /\ \A k \in 0 .. h - 1 : ~ HasCode(k)
<1>1. Genesis \in 0 .. top /\ P(Genesis) /\ \A h \in 0 .. top : P(h) => h = Genesis
  BY WorkerAssumption DEF HasCode, Genesis
<1>2. FindDeploymentBlock(top) = CHOOSE h \in 0 .. top : P(h)
  BY DEF FindDeploymentBlock
<1> HIDE DEF P
<1>3. (CHOOSE h \in 0 .. top : P(h)) \in 0 .. top /\ P(CHOOSE h \in 0 .. top : P(h))
  BY <1>1, Zenon
<1>4. QED
  BY <1>1, <1>2, <1>3

\* A chunk ends within the range of its invocation.
LEMMA ChunkEnds ==
    ASSUME IndexerInv, NEW w \in Workers, run[w].pc \in Ranged
    PROVE  /\ run[w].from \in Nat /\ run[w].to \in Nat /\ ChunkEnd(w) \in Nat
           /\ 1 <= run[w].from /\ run[w].from <= ChunkEnd(w)
           /\ ChunkEnd(w) <= run[w].to /\ run[w].to <= head
BY WorkerAssumption DEF IndexerInv, ChainInv, RunType, RunRecord, RunCovers, ChunkEnd

-----------------------------------------------------------------------------
(* What a step leaves alone *)

\* An invocation that does not move keeps what it goes by.
LEMMA OthersKeep ==
    ASSUME IndexerInv, NEW v \in Workers, run'[v] = run[v], UNCHANGED logs,
           events \subseteq events', portfolios \subseteq portfolios'
    PROVE  RunCovers(v)'
BY DEF IndexerInv, RunCovers, At, OwnLogs, CreatedBy, ChunkEnd

\* One invocation moves.
LEMMA OneMoves ==
    ASSUME IndexerInv, NEW w \in Workers, UNCHANGED <<head, logs, market>>,
           events \subseteq events', portfolios \subseteq portfolios',
           DOMAIN run' = Workers, run' = [v \in Workers |-> run'[v]], run'[w] \in RunRecord',
           \A v \in Workers \ {w} : run'[v] = run[v],
           RunCovers(w)', CursorCovers', AppliedOnce'
    PROVE  IndexerInv'
<1>1. ChainInv'
  BY DEF IndexerInv, ChainInv, Created, FactoryLogs, Blocks
<1>2. \A v \in Workers : run'[v] \in RunRecord'
  BY DEF IndexerInv, RunType, RunRecord
<1>3. RunType'
  BY <1>2 DEF RunType
<1>4. \A v \in Workers : RunCovers(v)'
  BY OthersKeep
<1>5. QED
  BY <1>1, <1>3, <1>4 DEF IndexerInv

\* Nobody starts to project, and whoever was done has counted its log.
LEMMA NobodyStarts ==
    ASSUME IndexerInv, NEW w \in Workers, UNCHANGED <<logs, events>>, applied' \in [events -> Nat],
           \A v \in Workers \ {w} : run'[v] = run[v], run'[w].pc # "project",
           \A l \in events : applied'[l] = applied[l] \/ (At(w, "project") /\ run[w].log = {l})
    PROVE  AppliedOnce'
<1>1. /\ events \subseteq logs /\ applied \in [events -> Nat]
      /\ \A v \in Workers : At(v, "project") => \E l \in events : run[v].log = {l} /\ applied[l] = 0
      /\ \A u, v \in Workers : At(u, "project") /\ At(v, "project") /\ run[u].log = run[v].log => u = v
  BY DEF IndexerInv, AppliedOnce
<1>2. \A v \in Workers : At(v, "project")' => v # w /\ run'[v] = run[v] /\ At(v, "project")
  BY DEF At
<1>3. ASSUME NEW v \in Workers, At(v, "project")'
      PROVE  \E l \in events : run'[v].log = {l} /\ applied'[l] = 0
  <2>1. PICK l \in events : run[v].log = {l} /\ applied[l] = 0
    BY <1>1, <1>2, <1>3
  <2>2. ~ (At(w, "project") /\ run[w].log = {l})
    BY <1>1, <1>2, <1>3, <2>1
  <2>3. QED
    BY <1>2, <1>3, <2>1, <2>2
<1>4. \A u, v \in Workers : At(u, "project")' /\ At(v, "project")' /\ run'[u].log = run'[v].log => u = v
  BY <1>1, <1>2
<1>5. QED
  BY <1>1, <1>3, <1>4 DEF AppliedOnce

\* The cursor stays.
LEMMA CursorStays ==
    ASSUME IndexerInv, UNCHANGED <<head, logs, cursor>>, events \subseteq events', portfolios \subseteq portfolios'
    PROVE  CursorCovers'
BY DEF IndexerInv, CursorCovers, OwnLogs, CreatedBy

\* A step that moves one invocation, not into a projection, and neither the
\* cursor nor the chain.
LEMMA QuietMove ==
    ASSUME IndexerInv, NEW w \in Workers, UNCHANGED <<head, logs, market, events, applied, cursor>>,
           portfolios \subseteq portfolios', NEW r, run' = [run EXCEPT ![w] = r],
           r \in RunRecord', r.pc # "project", RunCovers(w)'
    PROVE  IndexerInv'
<1>1. run \in [Workers -> RunRecord] /\ applied \in [events -> Nat]
  BY DEF IndexerInv, RunType, AppliedOnce
<1>2. /\ DOMAIN run' = Workers /\ run' = [v \in Workers |-> run'[v]]
      /\ run'[w] = r /\ \A v \in Workers \ {w} : run'[v] = run[v]
  BY <1>1
<1>3. AppliedOnce'
  BY <1>1, <1>2, NobodyStarts
<1>4. CursorCovers'
  BY CursorStays
<1>5. QED
  BY <1>2, <1>3, <1>4, OneMoves

-----------------------------------------------------------------------------
(* The steps *)

\* Nothing runs and nothing is recorded at first.
LEMMA IndexerInit == Init => IndexerInv
<1> SUFFICES ASSUME Init
             PROVE  IndexerInv
  OBVIOUS
<1>1. ChainInv
  BY DEF Init, ChainInit, ChainInv
<1>2. run = [w \in Workers |-> Idle] /\ events = {} /\ applied = [l \in {} |-> 0] /\ cursor = -1
      /\ head = 0 /\ logs = {}
  BY DEF Init, ChainInit, NoCursor
<1>3. Idle \in RunRecord
  BY <1>2 DEF RunRecord, Idle, Stages
<1>4. RunType
  BY <1>2, <1>3 DEF RunType
<1>5. \A w \in Workers : At(w, "idle") /\ ~ At(w, "project") /\ run[w].pc = "idle"
  BY <1>2 DEF At, Idle
<1>6. AppliedOnce
  BY <1>2, <1>5 DEF AppliedOnce
<1>7. CursorCovers
  BY <1>2 DEF CursorCovers, NoCursor, OwnLogs, CreatedBy
<1>8. \A w \in Workers : RunCovers(w)
  BY <1>5 DEF RunCovers, Ranged, Fetched
<1>9. QED
  BY <1>1, <1>4, <1>6, <1>7, <1>8 DEF IndexerInv

\* An invocation and its parts
LEMMA RunFields ==
    ASSUME IndexerInv, NEW w \in Workers
    PROVE  /\ run \in [Workers -> RunRecord] /\ run[w] \in RunRecord
           /\ head \in Nat /\ cursor \in NoCursor .. head /\ applied \in [events -> Nat]
BY DEF IndexerInv, RunType, ChainInv, CursorCovers, AppliedOnce

\* An invocation begins at the head of the chain.
LEMMA BeginKeeps ==
    ASSUME IndexerInv, NEW w \in Workers, Begin(w)
    PROVE  IndexerInv'
<1> DEFINE r == [run[w] EXCEPT !.pc = "cursor", !.to = head]
<1>1. /\ At(w, "idle") /\ 1 <= head
      /\ UNCHANGED <<head, logs, market, events, applied, cursor, portfolios>>
  BY DEF Begin, Genesis, chainVars, ledger
<1>2. run' = [run EXCEPT ![w] = r]
  BY RunFields DEF Begin
<1>3. r \in RunRecord' /\ r.pc = "cursor" /\ r.to = head
  <2>1. run[w] \in RunRecord /\ head \in 0 .. head /\ "cursor" \in Stages
    BY RunFields DEF Stages
  <2>2. r \in RunRecord /\ r.pc = "cursor" /\ r.to = head
    BY <2>1 DEF RunRecord
  <2>3. QED
    BY <1>1, <2>2 DEF RunRecord
<1> HIDE DEF r
<1>4. run'[w] = r
  BY <1>2, RunFields
<1>5. RunCovers(w)'
  BY <1>1, <1>3, <1>4 DEF RunCovers, At, Ranged, Fetched
<1>6. QED
  BY <1>1, <1>2, <1>3, <1>5, QuietMove

\* An invocation that is gone, for whatever reason, leaves the ledger as it is.
LEMMA ExitKeeps ==
    ASSUME IndexerInv, NEW w \in Workers, Exit(w),
           UNCHANGED <<head, logs, market, events, applied, cursor, portfolios>>
    PROVE  IndexerInv'
<1>1. run' = [run EXCEPT ![w] = Idle] /\ Idle.pc = "idle"
  BY DEF Exit, Idle
<1>2. Idle \in RunRecord'
  BY RunFields DEF RunRecord, Idle, Stages
<1>3. run'[w] = Idle
  BY <1>1, RunFields
<1>4. RunCovers(w)'
  BY <1>1, <1>3 DEF RunCovers, At, Ranged, Fetched
<1>5. QED
  BY <1>1, <1>2, <1>4, QuietMove

\* An invocation starts behind what the cursor has passed, or at the first block.
LEMMA ReadCursorKeeps ==
    ASSUME IndexerInv, NEW w \in Workers, ReadCursor(w), StateFrom <= Genesis
    PROVE  IndexerInv'
<1>1. /\ At(w, "cursor") /\ UNCHANGED <<head, logs, market, events, applied, cursor, portfolios>>
      /\ run[w].to \in Nat /\ 1 <= run[w].to /\ run[w].to <= head
  BY RunFields DEF ReadCursor, chainVars, ledger, IndexerInv, RunCovers, At, RunRecord
<1>2. PICK row \in {cursor, NoCursor} :
        LET start == ResumeFrom(row) + 1
            budgetEnd == start + Window - 1
            end == IF budgetEnd > run[w].to THEN run[w].to ELSE budgetEnd
        IN IF start > end THEN Exit(w)
           ELSE run' = [run EXCEPT ![w].pc = "portfolios", ![w].from = start, ![w].to = end]
  BY DEF ReadCursor
<1> DEFINE start == ResumeFrom(row) + 1
           budgetEnd == start + Window - 1
           end == IF budgetEnd > run[w].to THEN run[w].to ELSE budgetEnd
<1>3. \/ row = cursor /\ ResumeFrom(row) = row /\ row > 0
      \/ ResumeFrom(row) = 0
  <2>1. row \in Int /\ head \in Nat /\ head >= Genesis /\ (row > 0 => row = cursor)
    BY <1>1, RunFields DEF NoCursor, Genesis
  <2>2. FindDeploymentBlock(head) = Genesis
    BY <2>1, SearchEnds
  <2>3. QED
    BY <2>1, <2>2 DEF ResumeFrom, Genesis
<1>4. start \in Nat /\ 1 <= start /\ OwnLogs(1, start - 1) \subseteq events /\ CreatedBy(start - 1) \subseteq portfolios
  <2>1. CASE row = cursor /\ ResumeFrom(row) = row /\ row > 0
    BY <2>1, RunFields DEF IndexerInv, CursorCovers, NoCursor
  <2>2. CASE ResumeFrom(row) = 0
    <3>1. OwnLogs(1, 0) = {} /\ CreatedBy(0) = {}
      BY DEF IndexerInv, ChainInv, OwnLogs, CreatedBy
    <3>2. QED
      BY <2>2, <3>1
  <2>3. QED
    BY <1>3, <2>1, <2>2
<1> HIDE DEF start
<1>5. end \in Nat /\ end <= run[w].to
  BY <1>1, <1>4, WorkerAssumption
<1>6. CASE start > end
  BY <1>1, <1>2, <1>6, ExitKeeps DEF start
<1>7. CASE ~ (start > end)
  <2> DEFINE r == [run[w] EXCEPT !.pc = "portfolios", !.from = start, !.to = end]
  <2>1. run' = [run EXCEPT ![w] = r]
    BY <1>2, <1>7, RunFields DEF start
  <2> HIDE DEF end
  <2>2. r \in RunRecord' /\ r.pc = "portfolios" /\ r.from = start /\ r.to = end
    <3>1. run[w] \in RunRecord /\ end \in 0 .. head /\ "portfolios" \in Stages
      BY <1>1, <1>5, RunFields DEF Stages
    <3>2. r \in RunRecord /\ r.pc = "portfolios" /\ r.from = start /\ r.to = end
      BY <1>4, <3>1 DEF RunRecord
    <3>3. QED
      BY <1>1, <3>2 DEF RunRecord
  <2> HIDE DEF r
  <2>3. run'[w] = r
    BY <2>1, RunFields
  <2>4. RunCovers(w)'
    BY <1>1, <1>4, <1>5, <1>7, <2>2, <2>3 DEF RunCovers, At, Ranged, Fetched, OwnLogs, CreatedBy
  <2>5. QED
    BY <1>1, <2>1, <2>2, <2>4, QuietMove
<1>8. QED
  BY <1>6, <1>7

\* Loading the known portfolios finds all that were created below the chunk.
LEMMA LoadKeeps ==
    ASSUME IndexerInv, NEW w \in Workers, LoadPortfolios(w), "loadPortfolios" \notin Faults
    PROVE  IndexerInv'
<1> DEFINE r == [run[w] EXCEPT !.pc = "chunk", !.known = portfolios]
<1>1. /\ run[w].pc = "portfolios"
      /\ UNCHANGED <<head, logs, market, events, applied, cursor, portfolios>>
      /\ run' = [run EXCEPT ![w] = r]
  BY RunFields DEF LoadPortfolios, Strikes, chainVars, ledger, At
<1>2. run[w] \in RunRecord /\ "chunk" \in Stages
  BY RunFields DEF Stages
<1>3. r \in RunRecord' /\ r.pc = "chunk" /\ r.known = portfolios /\ r.from = run[w].from /\ r.to = run[w].to
  BY <1>1, <1>2 DEF RunRecord
<1> HIDE DEF r
<1>4. run'[w] = r
  BY <1>1, RunFields
<1>5. RunCovers(w)
  BY DEF IndexerInv
<1>6. RunCovers(w)'
  BY <1>1, <1>3, <1>4, <1>5 DEF RunCovers, At, Ranged, Fetched, OwnLogs, CreatedBy
<1>7. QED
  BY <1>1, <1>3, <1>6, QuietMove

\* What an invocation that has fetched a chunk has to know
LEMMA FetchedCovers ==
    ASSUME IndexerInv, NEW w \in Workers, NEW r, run'[w] = r, UNCHANGED logs,
           events \subseteq events', portfolios \subseteq portfolios',
           r.pc \in Fetched, NEW from, NEW end, r.from = from, ChunkEnd(w)' = end,
           1 <= r.to, 1 <= from, from <= r.to,
           OwnLogs(1, from - 1) \subseteq events, CreatedBy(from - 1) \subseteq portfolios,
           CreatedBy(from - 1) \subseteq r.known,
           \A l \in r.todo : l.event # "PortfolioCreated",
           OwnLogs(from, end) \subseteq events' \cup r.todo, CreatedBy(end) \subseteq r.known
    PROVE  RunCovers(w)'
<1>1. \A a, b : OwnLogs(a, b)' = OwnLogs(a, b) /\ CreatedBy(b)' = CreatedBy(b)
  BY DEF OwnLogs, CreatedBy
<1>2. OwnLogs(1, r.from - 1)' \subseteq events' /\ CreatedBy(r.from - 1)' \subseteq portfolios'
  BY <1>1
<1>3. QED
  BY <1>1, <1>2 DEF RunCovers, At, Ranged, Fetched

\* The chunk's own creations are known before its logs are fetched, so no log
\* of a portfolio is left out.
LEMMA DiscoverKeeps ==
    ASSUME IndexerInv, NEW w \in Workers, Discover(w), "upsertPortfolio" \notin Faults
    PROVE  IndexerInv'
<1> DEFINE end == ChunkEnd(w)
           from == run[w].from
           created == {l.portfolio : l \in FactoryLogs(from, end)}
           known == run[w].known \cup created
           todo == PortfolioLogs(known, from, end)
           r == [run[w] EXCEPT !.pc = "logs", !.known = known, !.admitted = {}, !.todo = todo]
<1>1. /\ run[w].pc = "chunk" /\ UNCHANGED <<head, logs, market, events, applied, cursor>>
      /\ portfolios' = portfolios \cup created
      /\ run' = [run EXCEPT ![w] = r]
  BY RunFields DEF Discover, UpsertPortfolios, Strikes, chainVars, At
<1>2. run[w] \in RunRecord /\ "logs" \in Stages /\ todo \subseteq logs
  BY RunFields DEF Stages, PortfolioLogs, Blocks
<1>3. /\ r \in RunRecord' /\ r.pc = "logs" /\ r.known = known /\ r.todo = todo
      /\ r.from = from /\ r.to = run[w].to
  <2> HIDE DEF known, todo
  <2>1. known \subseteq portfolios'
    BY <1>1, <1>2 DEF RunRecord, known
  <2>2. QED
    BY <1>1, <1>2, <2>1 DEF RunRecord
<1>4. /\ from \in Nat /\ end \in Nat /\ 1 <= from /\ from <= end /\ end <= run[w].to /\ run[w].to <= head
      /\ RunCovers(w)
  BY <1>1, ChunkEnds DEF IndexerInv, Ranged
<1>5. CreatedBy(end) \subseteq known
  <2>1. CreatedBy(from - 1) \subseteq run[w].known
    BY <1>1, <1>4 DEF RunCovers, Ranged
  <2>2. ASSUME NEW l \in logs, l.event = "PortfolioCreated", l.block <= end
        PROVE  l.portfolio \in known
    <3>1. l.block \in Nat
      BY DEF IndexerInv, ChainInv
    <3>2. CASE l.block <= from - 1
      BY <2>1, <2>2, <3>2 DEF CreatedBy
    <3>3. CASE ~ (l.block <= from - 1)
      <4>1. l.block \in from .. end
        BY <1>4, <2>2, <3>1, <3>3
      <4>2. l \in FactoryLogs(from, end)
        BY <2>2, <4>1 DEF FactoryLogs, Blocks
      <4>3. QED
        BY <4>2
    <3>4. QED
      BY <3>2, <3>3
  <2>3. QED
    BY <2>2 DEF CreatedBy
<1>6. OwnLogs(from, end) \subseteq todo
  <2>1. ASSUME NEW l \in OwnLogs(from, end)
        PROVE  l \in todo
    <3>1. l \in logs /\ l.event # "PortfolioCreated" /\ l.block \in from .. end
      BY <1>4 DEF OwnLogs, IndexerInv, ChainInv
    <3>2. PICK c \in logs : c.event = "PortfolioCreated" /\ c.portfolio = l.portfolio /\ c.block <= l.block
      BY <3>1 DEF IndexerInv, ChainInv
    <3>3. c.block \in Nat
      BY DEF IndexerInv, ChainInv
    <3>4. l.portfolio \in CreatedBy(end)
      BY <1>4, <3>1, <3>2, <3>3 DEF CreatedBy
    <3>5. QED
      BY <1>5, <3>1, <3>4 DEF PortfolioLogs, Blocks
  <2>2. QED
    BY <2>1
<1>7. \A l \in todo : l.event # "PortfolioCreated"
  BY DEF PortfolioLogs
<1>8. run'[w] = r
  BY <1>1, RunFields
<1>9. ChunkEnd(w)' = end
  BY <1>3, <1>8 DEF ChunkEnd
<1> HIDE DEF r, known, todo, end, from, created
<1>10. /\ 1 <= r.to /\ 1 <= from /\ from <= r.to
       /\ OwnLogs(1, from - 1) \subseteq events /\ CreatedBy(from - 1) \subseteq portfolios
       /\ CreatedBy(from - 1) \subseteq known
  BY <1>1, <1>3, <1>4 DEF RunCovers, At, Ranged, from, known
<1>11. RunCovers(w)'
  BY <1>1, <1>3, <1>5, <1>6, <1>7, <1>8, <1>9, <1>10, FetchedCovers DEF Fetched
<1>12. QED
  BY <1>1, <1>3, <1>11, QuietMove

\* Within a chunk, an invocation that keeps its range and its portfolios has
\* recorded, or has still to do, all logs of the chunk.
LEMMA WithinChunk ==
    ASSUME IndexerInv, NEW w \in Workers, NEW r, run'[w] = r, UNCHANGED logs,
           events \subseteq events', portfolios \subseteq portfolios',
           run[w].pc \in Fetched, r.pc \in Fetched,
           r.from = run[w].from, r.to = run[w].to, r.known = run[w].known,
           r.todo \subseteq run[w].todo, run[w].todo \ r.todo \subseteq events'
    PROVE  RunCovers(w)'
<1>1. RunCovers(w) /\ run[w].pc \in Ranged \ {"portfolios"} /\ ~ At(w, "idle")
  BY DEF IndexerInv, Ranged, Fetched, At
<1>2. PICK from, end : from = run[w].from /\ end = ChunkEnd(w)
  OBVIOUS
<1>3. ChunkEnd(w)' = end
  BY <1>2 DEF ChunkEnd
<1>4. /\ 1 <= r.to /\ 1 <= from /\ from <= r.to
      /\ OwnLogs(1, from - 1) \subseteq events /\ CreatedBy(from - 1) \subseteq portfolios
      /\ CreatedBy(from - 1) \subseteq r.known
  BY <1>1, <1>2 DEF RunCovers
<1>5. /\ \A l \in r.todo : l.event # "PortfolioCreated"
      /\ OwnLogs(from, end) \subseteq events' \cup r.todo /\ CreatedBy(end) \subseteq r.known
  BY <1>1, <1>2 DEF RunCovers
<1>6. QED
  BY <1>2, <1>3, <1>4, <1>5, FetchedCovers

\* A log of the chunk is recorded, and from then on this invocation's to project.
LEMMA RecordKeeps ==
    ASSUME IndexerInv, NEW w \in Workers, RecordEvent(w)
    PROVE  /\ IndexerInv'
           /\ UNCHANGED <<logs, cursor>> /\ events \subseteq events' /\ events' \subseteq logs
           /\ applied' = [k \in events' |-> IF k \in events THEN applied[k] ELSE 0]
<1>1. PICK l \in run[w].todo :
        /\ l \notin events /\ events' = events \cup {l}
        /\ applied' = [k \in events \cup {l} |-> IF k \in events THEN applied[k] ELSE 0]
        /\ run' = [run EXCEPT ![w].pc = "project", ![w].todo = @ \ {l}, ![w].log = {l},
                              ![w].admitted = IF l.event = "IntentAdmitted" THEN @ \cup {l.order} ELSE @]
  BY DEF RecordEvent, InsertEvent, Duplicate
<1>2. /\ run[w].pc = "logs" /\ UNCHANGED <<head, logs, market, portfolios, cursor>>
      /\ run[w] \in RunRecord /\ run \in [Workers -> RunRecord] /\ "project" \in Stages
  BY RunFields DEF RecordEvent, At, chainVars, Stages
<1>3. l \in logs /\ l.order \in Orders \cup {NoOrder}
  BY <1>2 DEF RunRecord, IndexerInv, ChainInv
<1> DEFINE admitted == IF l.event = "IntentAdmitted" THEN run[w].admitted \cup {l.order} ELSE run[w].admitted
           r == [run[w] EXCEPT !.pc = "project", !.todo = run[w].todo \ {l}, !.log = {l}, !.admitted = admitted]
<1>4. run' = [run EXCEPT ![w] = r]
  BY <1>1, <1>2 DEF RunRecord
<1>5. admitted \in SUBSET (Orders \cup {NoOrder})
  BY <1>2, <1>3 DEF RunRecord
<1> HIDE DEF admitted
<1>6. /\ r \in RunRecord' /\ r.pc = "project" /\ r.todo = run[w].todo \ {l} /\ r.log = {l}
      /\ r.from = run[w].from /\ r.to = run[w].to /\ r.known = run[w].known
  BY <1>1, <1>2, <1>5 DEF RunRecord
<1> HIDE DEF r
<1>7. /\ DOMAIN run' = Workers /\ run' = [v \in Workers |-> run'[v]]
      /\ run'[w] = r /\ \A v \in Workers \ {w} : run'[v] = run[v]
  BY <1>2, <1>4
<1>8. RunCovers(w)'
  BY <1>1, <1>2, <1>6, <1>7, WithinChunk DEF Fetched
<1>9. CursorCovers'
  BY <1>1, <1>2, CursorStays
<1>10. AppliedOnce'
  <2>1. /\ events \subseteq logs /\ applied \in [events -> Nat]
        /\ \A v \in Workers : At(v, "project") => \E k \in events : run[v].log = {k} /\ applied[k] = 0
        /\ \A u, v \in Workers : At(u, "project") /\ At(v, "project") /\ run[u].log = run[v].log => u = v
    BY DEF IndexerInv, AppliedOnce
  <2>2. applied' \in [events' -> Nat] /\ events' \subseteq logs'
    BY <1>1, <1>2, <1>3, <2>1
  <2>3. \A v \in Workers \ {w} : At(v, "project")' <=> At(v, "project")
    BY <1>7 DEF At
  <2>4. \A v \in Workers : At(v, "project")' => \E k \in events' : run'[v].log = {k} /\ applied'[k] = 0
    <3>1. l \in events' /\ run'[w].log = {l} /\ applied'[l] = 0
      BY <1>1, <1>6, <1>7
    <3>2. ASSUME NEW v \in Workers \ {w}, At(v, "project")'
          PROVE  \E k \in events' : run'[v].log = {k} /\ applied'[k] = 0
      <4>1. PICK k \in events : run[v].log = {k} /\ applied[k] = 0
        BY <2>1, <2>3, <3>2
      <4>2. k \in events' /\ applied'[k] = 0 /\ run'[v].log = {k}
        BY <1>1, <1>7, <4>1
      <4>3. QED
        BY <4>2
    <3>3. QED
      BY <3>1, <3>2
  <2>5. \A v \in Workers \ {w} : At(v, "project")' => run'[v].log # {l}
    BY <1>1, <1>7, <2>1, <2>3
  <2>6. \A u, v \in Workers : At(u, "project")' /\ At(v, "project")' /\ run'[u].log = run'[v].log => u = v
    BY <1>6, <1>7, <2>1, <2>3, <2>5
  <2>7. QED
    BY <2>2, <2>4, <2>6 DEF AppliedOnce
<1>11. IndexerInv'
  BY <1>1, <1>2, <1>6, <1>7, <1>8, <1>9, <1>10, OneMoves
<1>12. QED
  BY <1>1, <1>2, <1>3, <1>11 DEF IndexerInv, AppliedOnce

\* A log that has its row is passed over.
LEMMA SkipKeeps ==
    ASSUME IndexerInv, NEW w \in Workers, SkipDuplicate(w)
    PROVE  IndexerInv'
<1>1. PICK l \in run[w].todo : l \in events /\ run' = [run EXCEPT ![w].todo = @ \ {l}]
  BY DEF SkipDuplicate, Duplicate
<1>2. /\ run[w].pc = "logs" /\ UNCHANGED <<head, logs, market, events, applied, portfolios, cursor>>
      /\ run[w] \in RunRecord /\ run \in [Workers -> RunRecord]
  BY RunFields DEF SkipDuplicate, At, chainVars, ledger
<1> DEFINE r == [run[w] EXCEPT !.todo = run[w].todo \ {l}]
<1>3. run' = [run EXCEPT ![w] = r]
  BY <1>1, <1>2 DEF RunRecord
<1>4. /\ r \in RunRecord' /\ r.pc = "logs" /\ r.todo = run[w].todo \ {l}
      /\ r.from = run[w].from /\ r.to = run[w].to /\ r.known = run[w].known
  BY <1>2 DEF RunRecord
<1> HIDE DEF r
<1>5. run'[w] = r
  BY <1>2, <1>3
<1>6. RunCovers(w)'
  BY <1>1, <1>2, <1>4, <1>5, WithinChunk DEF Fetched
<1>7. QED
  BY <1>2, <1>3, <1>4, <1>6, QuietMove

\* A step that goes on within the chunk and touches nothing else of it.
LEMMA GoesOn ==
    ASSUME IndexerInv, NEW w \in Workers, run[w].pc \in Fetched,
           UNCHANGED <<head, logs, market, events, portfolios, cursor>>,
           NEW pc \in {"logs", "sync", "syncWrite"}, NEW log \in {{}, run[w].log}, NEW settled \in BOOLEAN,
           run' = [run EXCEPT ![w] = [run[w] EXCEPT !.pc = pc, !.log = log, !.settled = settled]],
           applied' \in [events -> Nat],
           \A l \in events : applied'[l] = applied[l] \/ (At(w, "project") /\ run[w].log = {l})
    PROVE  IndexerInv'
<1> DEFINE r == [run[w] EXCEPT !.pc = pc, !.log = log, !.settled = settled]
<1>1. run[w] \in RunRecord /\ run \in [Workers -> RunRecord] /\ pc \in Stages /\ pc # "project"
  BY RunFields DEF Stages
<1>2. /\ r \in RunRecord' /\ r.pc = pc /\ r.todo = run[w].todo
      /\ r.from = run[w].from /\ r.to = run[w].to /\ r.known = run[w].known
  BY <1>1 DEF RunRecord
<1> HIDE DEF r
<1>3. /\ DOMAIN run' = Workers /\ run' = [v \in Workers |-> run'[v]]
      /\ run'[w] = r /\ \A v \in Workers \ {w} : run'[v] = run[v]
  BY <1>1 DEF r
<1>4. RunCovers(w)'
  BY <1>1, <1>2, <1>3, WithinChunk DEF Fetched
<1>5. AppliedOnce'
  BY <1>1, <1>2, <1>3, NobodyStarts
<1>6. CursorCovers'
  BY CursorStays
<1>7. QED
  BY <1>2, <1>3, <1>4, <1>5, <1>6, OneMoves

\* The cursor moves past a chunk of which nothing is left to do.
LEMMA AdvanceKeeps ==
    ASSUME IndexerInv, NEW w \in Workers, AdvanceCursor(w)
    PROVE  IndexerInv' /\ UNCHANGED <<logs, events, applied>>
<1> DEFINE end == ChunkEnd(w)
<1>1. /\ run[w].pc = "logs" /\ run[w].todo = {} /\ WriteCursor(end)
      /\ UNCHANGED <<head, logs, market, events, applied, portfolios>>
      /\ IF end = run[w].to THEN Exit(w) ELSE run' = [run EXCEPT ![w].pc = "chunk", ![w].from = end + 1]
  BY DEF AdvanceCursor, At, chainVars
<1>2. /\ run[w].from \in Nat /\ run[w].to \in Nat /\ end \in Nat /\ 1 <= run[w].from /\ run[w].from <= end
      /\ end <= run[w].to /\ run[w].to <= head /\ head \in Nat
      /\ run[w] \in RunRecord /\ run \in [Workers -> RunRecord] /\ {"chunk", "idle"} \subseteq Stages
  BY <1>1, RunFields, ChunkEnds DEF Ranged, Stages
<1>3. RunCovers(w)
  BY DEF IndexerInv
<1> HIDE DEF end
<1>4. /\ OwnLogs(1, run[w].from - 1) \subseteq events /\ OwnLogs(run[w].from, end) \subseteq events
      /\ CreatedBy(end) \subseteq run[w].known /\ run[w].known \subseteq portfolios
  BY <1>1, <1>2, <1>3 DEF RunCovers, Ranged, Fetched, end, RunRecord
<1>5. OwnLogs(1, end) \subseteq events
  <2>1. \A l \in logs : l.block \in Nat
    BY DEF IndexerInv, ChainInv
  <2>2. OwnLogs(1, end) \subseteq OwnLogs(1, run[w].from - 1) \cup OwnLogs(run[w].from, end)
    BY <1>2, <2>1 DEF OwnLogs
  <2>3. QED
    BY <1>4, <2>2
<1>6. CursorCovers'
  <2>1. CASE cursor' = cursor
    BY <1>1, <2>1, CursorStays
  <2>2. CASE cursor' = end
    <3>1. end \in NoCursor .. head
      BY <1>2 DEF NoCursor
    <3>2. \A a, b : OwnLogs(a, b)' = OwnLogs(a, b) /\ CreatedBy(b)' = CreatedBy(b)
      BY <1>1 DEF OwnLogs, CreatedBy
    <3>3. OwnLogs(1, cursor)' \subseteq events' /\ CreatedBy(cursor)' \subseteq portfolios'
      BY <1>1, <1>4, <1>5, <2>2, <3>2
    <3>4. QED
      BY <1>1, <2>2, <3>1, <3>3 DEF CursorCovers
  <2>3. QED
    BY <1>1, <2>1, <2>2 DEF WriteCursor
<1>7. \E r : /\ run' = [run EXCEPT ![w] = r] /\ r \in RunRecord' /\ r.pc # "project"
             /\ RunCovers(w)'
  <2>1. CASE end = run[w].to
    <3>1. run' = [run EXCEPT ![w] = Idle] /\ Idle.pc = "idle"
      BY <1>1, <2>1 DEF Exit, Idle
    <3>2. Idle \in RunRecord'
      BY <1>1, <1>2 DEF RunRecord, Idle
    <3>3. run'[w] = Idle
      BY <1>2, <3>1
    <3>4. RunCovers(w)'
      BY <3>1, <3>3 DEF RunCovers, At, Ranged, Fetched
    <3>5. QED
      BY <3>1, <3>2, <3>4
  <2>2. CASE end # run[w].to
    <3> DEFINE r == [run[w] EXCEPT !.pc = "chunk", !.from = end + 1]
    <3>1. run' = [run EXCEPT ![w] = r]
      BY <1>1, <1>2, <2>2 DEF RunRecord
    <3>2. /\ r \in RunRecord' /\ r.pc = "chunk" /\ r.from = end + 1 /\ r.to = run[w].to
          /\ r.known = run[w].known
      <4>1. PICK from : from = end + 1 /\ from \in Nat
        BY <1>2
      <4>2. run[w] \in RunRecord /\ "chunk" \in Stages
        BY <1>2
      <4>3. r = [run[w] EXCEPT !.pc = "chunk", !.from = from]
        BY <4>1
      <4> HIDE DEF r
      <4>4. /\ r \in RunRecord /\ r.pc = "chunk" /\ r.from = from /\ r.to = run[w].to
            /\ r.known = run[w].known
        BY <4>1, <4>2, <4>3 DEF RunRecord
      <4>5. QED
        BY <1>1, <4>1, <4>4 DEF RunRecord
    <3> HIDE DEF r
    <3>3. run'[w] = r
      BY <1>2, <3>1
    <3>4. end + 1 <= run[w].to /\ 1 <= end + 1 /\ end + 1 - 1 = end /\ 1 <= run[w].to
      BY <1>2, <2>2
    <3>5. \A a, b : OwnLogs(a, b)' = OwnLogs(a, b) /\ CreatedBy(b)' = CreatedBy(b)
      BY <1>1 DEF OwnLogs, CreatedBy
    <3>6. /\ run'[w].pc = "chunk" /\ run'[w].from - 1 = end /\ run'[w].from = end + 1
          /\ run'[w].to = run[w].to /\ run'[w].known = run[w].known
      <4>1. run'[w].from = end + 1
        BY <3>2, <3>3
      <4>2. run'[w].from - 1 = end
        BY <1>2, <4>1
      <4>3. QED
        BY <3>2, <3>3, <4>1, <4>2
    <3>7. /\ OwnLogs(1, run[w].from - 1)' \subseteq events' /\ CreatedBy(run[w].from - 1)' \subseteq portfolios'
          /\ CreatedBy(run[w].from - 1)' \subseteq run'[w].known
      BY <1>1, <1>4, <1>5, <3>5, <3>6
    <3>8. RunCovers(w)'
      BY <3>4, <3>6, <3>7 DEF RunCovers, At, Ranged, Fetched
    <3>9. QED
      BY <3>1, <3>2, <3>8
  <2>3. QED
    BY <2>1, <2>2
<1>8. PICK r : /\ run' = [run EXCEPT ![w] = r] /\ r \in RunRecord' /\ r.pc # "project"
               /\ RunCovers(w)'
  BY <1>7
<1>9. /\ DOMAIN run' = Workers /\ run' = [v \in Workers |-> run'[v]]
      /\ run'[w] = r /\ \A v \in Workers \ {w} : run'[v] = run[v]
  BY <1>2, <1>8
<1>10. AppliedOnce'
  BY <1>1, <1>8, <1>9, RunFields, NobodyStarts
<1>11. QED
  BY <1>1, <1>6, <1>8, <1>9, <1>10, OneMoves

\* A projection counts its log and moves on.
LEMMA ProjectionKeeps ==
    ASSUME IndexerInv, NEW w \in Workers,
           \/ ProjectConfiguration(w) \/ ProjectAdmission(w) \/ ProjectReconciled(w)
           \/ ProjectReleased(w) \/ ProjectPosition(w)
    PROVE  /\ IndexerInv' /\ UNCHANGED <<logs, events, cursor>>
           /\ \E l \in events : applied[l] = 0 /\ applied' = [applied EXCEPT ![l] = 1]
<1>1. /\ run[w].pc = "project" /\ UNCHANGED <<head, logs, market, events, portfolios, cursor>>
      /\ \E l \in events : run[w].log = {l} /\ applied' = [applied EXCEPT ![l] = @ + 1]
      /\ Continue(w) \/ Goto(w, "sync")
  BY DEF ProjectConfiguration, ProjectAdmission, ProjectReconciled, ProjectReleased, ProjectPosition, Projecting,
         At, Apply, chainVars
<1>2. PICK l \in events : run[w].log = {l} /\ applied' = [applied EXCEPT ![l] = @ + 1]
  BY <1>1
<1>3. run[w] \in RunRecord /\ run \in [Workers -> RunRecord] /\ applied \in [events -> Nat] /\ At(w, "project")
  BY <1>1, RunFields DEF At
<1>4. applied[l] = 0
  BY <1>2, <1>3 DEF IndexerInv, AppliedOnce
<1>5. applied' = [applied EXCEPT ![l] = 1] /\ applied' \in [events -> Nat]
  BY <1>2, <1>3, <1>4
<1>6. \A k \in events : applied'[k] = applied[k] \/ (At(w, "project") /\ run[w].log = {k})
  BY <1>2, <1>3
<1>7. \E pc \in {"logs", "sync", "syncWrite"}, log \in {{}, run[w].log}, settled \in BOOLEAN :
        run' = [run EXCEPT ![w] = [run[w] EXCEPT !.pc = pc, !.log = log, !.settled = settled]]
  <2>1. CASE Continue(w)
    <3>1. run' = [run EXCEPT ![w] = [run[w] EXCEPT !.pc = "logs", !.log = {}, !.settled = FALSE]]
      BY <1>3, <2>1 DEF Continue, RunRecord
    <3>2. QED
      BY <3>1
  <2>2. CASE Goto(w, "sync")
    <3>1. run' = [run EXCEPT ![w] = [run[w] EXCEPT !.pc = "sync", !.log = run[w].log, !.settled = run[w].settled]]
      BY <1>3, <2>2 DEF Goto, RunRecord
    <3>2. run[w].settled \in BOOLEAN
      BY <1>3 DEF RunRecord
    <3>3. QED
      BY <3>1, <3>2
  <2>3. QED
    BY <1>1, <2>1, <2>2
<1>8. IndexerInv'
  BY <1>1, <1>5, <1>6, <1>7, GoesOn DEF Fetched
<1>9. QED
  BY <1>1, <1>4, <1>5, <1>8

\* Reading and writing a position leaves the ledger alone.
LEMMA SyncKeeps ==
    ASSUME IndexerInv, NEW w \in Workers, SyncRead(w) \/ SyncWrite(w)
    PROVE  IndexerInv' /\ UNCHANGED <<logs, events, applied, cursor>>
<1>1. /\ run[w].pc \in {"sync", "syncWrite"}
      /\ UNCHANGED <<head, logs, market, events, applied, portfolios, cursor>>
      /\ \/ Continue(w)
         \/ \E settled \in BOOLEAN : run' = [run EXCEPT ![w].pc = "syncWrite", ![w].settled = settled]
  BY DEF SyncRead, SyncWrite, At, chainVars, ledger
<1>2. run[w] \in RunRecord /\ run \in [Workers -> RunRecord] /\ applied \in [events -> Nat]
  BY RunFields
<1>3. \E pc \in {"logs", "sync", "syncWrite"}, log \in {{}, run[w].log}, settled \in BOOLEAN :
        run' = [run EXCEPT ![w] = [run[w] EXCEPT !.pc = pc, !.log = log, !.settled = settled]]
  <2>1. CASE Continue(w)
    <3>1. run' = [run EXCEPT ![w] = [run[w] EXCEPT !.pc = "logs", !.log = {}, !.settled = FALSE]]
      BY <1>2, <2>1 DEF Continue, RunRecord
    <3>2. QED
      BY <3>1
  <2>2. ASSUME NEW settled \in BOOLEAN, run' = [run EXCEPT ![w].pc = "syncWrite", ![w].settled = settled]
        PROVE  run' = [run EXCEPT ![w] = [run[w] EXCEPT !.pc = "syncWrite", !.log = run[w].log, !.settled = settled]]
    BY <1>2, <2>2 DEF RunRecord
  <2>3. QED
    BY <1>1, <2>1, <2>2
<1>4. IndexerInv'
  BY <1>1, <1>2, <1>3, GoesOn DEF Fetched
<1>5. QED
  BY <1>1, <1>4

\* The operator moves the cursor back.
LEMMA RewindKeeps ==
    ASSUME IndexerInv, Rewind
    PROVE  IndexerInv' /\ UNCHANGED <<logs, events, applied>>
<1>1. /\ UNCHANGED <<head, logs, market, portfolios, events, applied, run>>
      /\ \E blocks \in 1 .. MaxBlock : cursor' = IF cursor > blocks THEN cursor - blocks ELSE 0
  BY DEF Rewind, chainVars
<1>2. cursor \in NoCursor .. head /\ head \in Nat /\ \A l \in logs : l.block \in Nat /\ 1 <= l.block
  BY DEF IndexerInv, CursorCovers, ChainInv
<1>3. /\ cursor' \in NoCursor .. head
      /\ cursor' <= cursor \/ cursor' = 0
  BY <1>1, <1>2, BoundsAssumption DEF NoCursor
<1>4. OwnLogs(1, cursor') \subseteq OwnLogs(1, cursor) /\ CreatedBy(cursor') \subseteq CreatedBy(cursor)
  BY <1>2, <1>3 DEF OwnLogs, CreatedBy, NoCursor
<1>5. \A a, b : OwnLogs(a, b)' = OwnLogs(a, b) /\ CreatedBy(b)' = CreatedBy(b)
  BY <1>1 DEF OwnLogs, CreatedBy
<1>6. CursorCovers'
  <2>1. OwnLogs(1, cursor)' \subseteq events' /\ CreatedBy(cursor)' \subseteq portfolios'
    BY <1>1, <1>4, <1>5 DEF IndexerInv, CursorCovers
  <2>2. QED
    BY <1>1, <1>3, <2>1 DEF CursorCovers
<1>7. ChainInv' /\ RunType' /\ AppliedOnce' /\ \A w \in Workers : RunCovers(w)'
  BY <1>1, OthersKeep DEF IndexerInv, ChainInv, Created, FactoryLogs, Blocks, RunType, RunRecord, AppliedOnce, At
<1>8. QED
  BY <1>1, <1>6, <1>7 DEF IndexerInv

\* A new block is above every chunk and above the cursor.
LEMMA MinedKeeps ==
    ASSUME IndexerInv, Mined
    PROVE  /\ IndexerInv' /\ UNCHANGED <<events, applied, cursor>> /\ logs \subseteq logs'
           /\ \A l \in logs' : l \in logs \/ l.block > cursor
<1>1. ChainNext /\ UNCHANGED <<portfolios, events, applied, cursor, run>>
  BY DEF Mined, indexerVars, ledger
<1>2. /\ ChainInv' /\ head' = head + 1 /\ logs \subseteq logs'
      /\ \A l \in logs' : l \in logs \/ l.block = head + 1
  BY <1>1, ChainKeeps DEF IndexerInv
<1>3. head \in Nat /\ cursor \in NoCursor .. head /\ run \in [Workers -> RunRecord]
  BY DEF IndexerInv, ChainInv, CursorCovers, RunType
<1>4. ASSUME NEW b \in Int, b <= head
      PROVE  \A a : OwnLogs(a, b)' = OwnLogs(a, b) /\ CreatedBy(b)' = CreatedBy(b)
  BY <1>2, <1>3, <1>4 DEF OwnLogs, CreatedBy
<1>5. CursorCovers'
  <2>1. cursor \in Int /\ cursor <= head
    BY <1>3 DEF NoCursor
  <2>2. OwnLogs(1, cursor)' = OwnLogs(1, cursor) /\ CreatedBy(cursor)' = CreatedBy(cursor)
    BY <1>1, <1>4, <2>1
  <2>3. cursor' \in NoCursor .. head'
    BY <1>1, <1>2, <1>3 DEF NoCursor
  <2>4. QED
    BY <1>1, <2>2, <2>3 DEF IndexerInv, CursorCovers
<1>6. RunType'
  <2>1. RunRecord \subseteq RunRecord'
    BY <1>1, <1>2, <1>3 DEF RunRecord
  <2>2. QED
    BY <1>1, <1>3, <2>1 DEF RunType
<1>7. ASSUME NEW w \in Workers
      PROVE  RunCovers(w)'
  <2>1. RunCovers(w)
    BY DEF IndexerInv
  <2>2. CASE run[w].pc \in Ranged
    <3>1. /\ run[w].from \in Nat /\ ChunkEnd(w) \in Nat /\ run[w].from <= ChunkEnd(w) /\ ChunkEnd(w) <= head
      BY <2>2, ChunkEnds, <1>3
    <3>2. PICK from, end : from = run[w].from /\ end = ChunkEnd(w)
      OBVIOUS
    <3>3. /\ OwnLogs(1, from - 1)' = OwnLogs(1, from - 1) /\ CreatedBy(from - 1)' = CreatedBy(from - 1)
          /\ OwnLogs(from, end)' = OwnLogs(from, end) /\ CreatedBy(end)' = CreatedBy(end)
      <4>1. from - 1 \in Int /\ from - 1 <= head /\ end \in Int /\ end <= head
        BY <1>3, <3>1, <3>2
      <4>2. QED
        BY <1>4, <4>1
    <3>4. ChunkEnd(w)' = end /\ run'[w] = run[w]
      BY <1>1, <3>2 DEF ChunkEnd
    <3>5. QED
      BY <1>1, <2>1, <3>2, <3>3, <3>4 DEF RunCovers, At
  <2>3. CASE run[w].pc \notin Ranged
    BY <1>1, <2>1, <2>3 DEF RunCovers, At, Ranged, Fetched
  <2>4. QED
    BY <2>2, <2>3
<1>8. AppliedOnce'
  BY <1>1, <1>2 DEF IndexerInv, AppliedOnce, At
<1>9. \A l \in logs' : l \in logs \/ l.block > cursor
  BY <1>2, <1>3 DEF NoCursor
<1>10. QED
  BY <1>1, <1>2, <1>5, <1>6, <1>7, <1>8, <1>9 DEF IndexerInv

\* An invocation dies.
LEMMA CrashKeeps ==
    ASSUME IndexerInv, NEW w \in Workers, Crash(w)
    PROVE  IndexerInv' /\ UNCHANGED <<logs, events, applied, cursor>>
<1>1. Exit(w) /\ UNCHANGED <<head, logs, market, events, applied, cursor, portfolios>>
  BY DEF Crash, chainVars, ledger
<1>2. QED
  BY <1>1, ExitKeeps

-----------------------------------------------------------------------------
(* The theorems.  They need a node that still answers for the factory's own
   block, and selects and upserts of portfolios that do not fail: an error of
   either is dropped, and the chunk is passed without the portfolio's logs. *)

Dependable == StateFrom <= Genesis /\ Faults \cap {"loadPortfolios", "upsertPortfolio"} = {}

\* What one step does to the ledger.
Published == /\ UNCHANGED <<events, applied, cursor>> /\ logs \subseteq logs'
             /\ \A l \in logs' : l \in logs \/ l.block > cursor
Claimed   == /\ UNCHANGED <<logs, cursor>> /\ events \subseteq events' /\ events' \subseteq logs
             /\ applied' = [k \in events' |-> IF k \in events THEN applied[k] ELSE 0]
Counted   == /\ UNCHANGED <<logs, events, cursor>>
             /\ \E l \in events : applied[l] = 0 /\ applied' = [applied EXCEPT ![l] = 1]
Moved     == UNCHANGED <<logs, events, applied>>

\* A step of an invocation.
LEMMA StepKeeps ==
    ASSUME IndexerInv, NEW w \in Workers, Step(w), Dependable
    PROVE  IndexerInv' /\ (Claimed \/ Counted \/ Moved)
<1>1. CASE ReadCursor(w)
  <2>1. Moved
    BY <1>1 DEF ReadCursor, Moved, ledger, chainVars
  <2>2. QED
    BY <1>1, <2>1, ReadCursorKeeps DEF Dependable
<1>2. CASE LoadPortfolios(w)
  <2>1. Moved
    BY <1>2 DEF LoadPortfolios, Moved, ledger, chainVars
  <2>2. "loadPortfolios" \notin Faults
    BY DEF Dependable
  <2>3. QED
    BY <1>2, <2>1, <2>2, LoadKeeps
<1>3. CASE Discover(w)
  <2>1. Moved
    BY <1>3 DEF Discover, Moved, chainVars
  <2>2. "upsertPortfolio" \notin Faults
    BY DEF Dependable
  <2>3. QED
    BY <1>3, <2>1, <2>2, DiscoverKeeps
<1>4. CASE RecordEvent(w)
  BY <1>4, RecordKeeps DEF Claimed
<1>5. CASE SkipDuplicate(w)
  <2>1. Moved
    BY <1>5 DEF SkipDuplicate, Moved, ledger, chainVars
  <2>2. QED
    BY <1>5, <2>1, SkipKeeps
<1>6. CASE AdvanceCursor(w)
  BY <1>6, AdvanceKeeps DEF Moved
<1>7. CASE \/ ProjectConfiguration(w) \/ ProjectAdmission(w) \/ ProjectReconciled(w)
           \/ ProjectReleased(w) \/ ProjectPosition(w)
  BY <1>7, ProjectionKeeps DEF Counted
<1>8. CASE SyncRead(w) \/ SyncWrite(w)
  BY <1>8, SyncKeeps DEF Moved
<1>9. QED
  BY <1>1, <1>2, <1>3, <1>4, <1>5, <1>6, <1>7, <1>8 DEF Step

\* Any step.
LEMMA IndexerStep ==
    ASSUME IndexerInv, [Next]_vars, Dependable
    PROVE  IndexerInv' /\ (Published \/ Claimed \/ Counted \/ Moved)
<1>1. CASE Mined
  BY <1>1, MinedKeeps DEF Published
<1>2. ASSUME NEW w \in Workers, Begin(w)
      PROVE  IndexerInv' /\ Moved
  <2>1. Moved
    BY <1>2 DEF Begin, Moved, ledger, chainVars
  <2>2. QED
    BY <1>2, <2>1, BeginKeeps
<1>3. ASSUME NEW w \in Workers, Step(w)
      PROVE  IndexerInv' /\ (Claimed \/ Counted \/ Moved)
  BY <1>3, StepKeeps
<1>4. ASSUME NEW w \in Workers, Crash(w)
      PROVE  IndexerInv' /\ Moved
  BY <1>4, CrashKeeps DEF Moved
<1>5. CASE Rewind
  BY <1>5, RewindKeeps DEF Moved
<1>6. CASE UNCHANGED vars
  <2>1. UNCHANGED <<head, logs, market, portfolios, events, applied, cursor, run>>
    BY <1>6 DEF vars, chainVars, indexerVars, ledger
  <2>2. ChainInv' /\ RunType' /\ CursorCovers' /\ AppliedOnce'
    BY <2>1 DEF IndexerInv, ChainInv, Created, FactoryLogs, Blocks, RunType, RunRecord, CursorCovers,
                OwnLogs, CreatedBy, AppliedOnce, At
  <2>3. \A w \in Workers : RunCovers(w)'
    BY <2>1, OthersKeep
  <2>4. QED
    BY <2>1, <2>2, <2>3 DEF IndexerInv, Moved
<1>7. QED
  BY <1>1, <1>2, <1>3, <1>4, <1>5, <1>6 DEF Next

\* The invariant holds.
LEMMA IndexerInvariant ==
    ASSUME Dependable
    PROVE  Spec => []IndexerInv
<1>1. Init => IndexerInv
  BY IndexerInit
<1>2. IndexerInv /\ [Next]_vars => IndexerInv'
  BY IndexerStep
<1>3. QED
  BY <1>1, <1>2, PTL DEF Spec

\* What the cursor has passed
LEMMA CoveredIs ==
    ASSUME IndexerInv
    PROVE  Covered = OwnLogs(1, cursor) /\ Covered \subseteq events
BY DEF IndexerInv, ChainInv, CursorCovers, Covered, OwnLogs

\* "Nothing is skipped": every log of every portfolio at or below the cursor has
\* its row, however many invocations overlap, die half way, fail to read or
\* write the cursor, or are rewound (ingest, recordEvent).
THEOREM IndexerCoversLogs ==
    ASSUME Dependable
    PROVE  Spec => []CursorCoversLogs
<1>1. IndexerInv => CursorCoversLogs
  BY CoveredIs DEF CursorCoversLogs
<1>2. QED
  BY <1>1, IndexerInvariant, PTL

\* No row and no cursor at first
LEMMA IndexerLedgerInit == Init => Ledger!Init
<1> SUFFICES ASSUME Init
             PROVE  Ledger!Init
  OBVIOUS
<1>1. events = {} /\ applied = [l \in {} |-> 0] /\ logs = {}
  BY DEF Init, ChainInit
<1>2. Covered = {}
  BY <1>1 DEF Covered
<1>3. QED
  BY <1>1, <1>2 DEF Ledger!Init

\* A step is a step of the ledger, or stutters.
LEMMA IndexerLedgerStep ==
    ASSUME IndexerInv, IndexerInv', [Next]_vars, Dependable
    PROVE  [Ledger!Next]_(Ledger!ledgerVars)
<1>1. CASE Published
  <2>1. cursor \in Int /\ \A l \in logs : l.block \in Nat
    BY DEF IndexerInv, ChainInv, CursorCovers, NoCursor
  <2>2. \A l \in logs' : l.block \in Nat
    BY DEF IndexerInv, ChainInv
  <2>3. Covered' = Covered
    BY <1>1, <2>1, <2>2 DEF Published, Covered
  <2>4. Ledger!Publish
    BY <1>1, <2>3 DEF Published, Ledger!Publish
  <2>5. QED
    BY <2>4 DEF Ledger!Next
<1>2. CASE Claimed
  <2>1. Covered' = Covered
    BY <1>2 DEF Claimed, Covered
  <2>2. Ledger!Claim
    BY <1>2, <2>1 DEF Claimed, Ledger!Claim
  <2>3. QED
    BY <2>2 DEF Ledger!Next
<1>3. CASE Counted
  <2>1. PICK l \in events : applied[l] = 0 /\ applied' = [applied EXCEPT ![l] = 1]
    BY <1>3 DEF Counted
  <2>2. Covered' = Covered
    BY <1>3 DEF Counted, Covered
  <2>3. Ledger!Apply(l)
    BY <1>3, <2>1, <2>2 DEF Counted, Ledger!Apply
  <2>4. l \in logs
    BY DEF IndexerInv, AppliedOnce
  <2>5. QED
    BY <2>3, <2>4 DEF Ledger!Next
<1>4. CASE Moved
  <2>1. Covered' \subseteq events'
    BY DEF IndexerInv, ChainInv, CursorCovers, Covered, OwnLogs
  <2>2. Ledger!Cover
    BY <1>4, <2>1 DEF Moved, Ledger!Cover
  <2>3. QED
    BY <2>2 DEF Ledger!Next
<1>5. QED
  BY <1>1, <1>2, <1>3, <1>4, IndexerStep

\* The indexer's tables keep what an event ledger promises: a log gets one row,
\* is projected at most once, and the cursor passes recorded logs only.
THEOREM IndexerImplementsLedger ==
    ASSUME Dependable
    PROVE  Spec => ImplementsLedger
<1>1. Init => Ledger!Init
  BY IndexerLedgerInit
<1>2. IndexerInv /\ IndexerInv' /\ [Next]_vars => [Ledger!Next]_(Ledger!ledgerVars)
  BY IndexerLedgerStep
<1>3. Spec => []IndexerInv
  BY IndexerInvariant
<1>4. QED
  BY <1>1, <1>2, <1>3, PTL DEF Spec, ImplementsLedger, Ledger!Spec

-----------------------------------------------------------------------------
(* What the chain's logs say of the contract's state *)

Named(name) == {l \in logs : l.event = name}
OrderEvents == {"IntentAdmitted", "IntentReconciled", "ReservationReleased"}

(* No MarketPruned of its market follows the log. *)
Unpruned(l) ==
  \A k \in logs : /\ k.event = "MarketPruned" /\ k.portfolio = l.portfolio /\ k.market = l.market
                  => ~ Before(l, k)

(* No two logs have the same place. *)
LogsNumbered ==
  /\ logs \subseteq Log
  /\ \A k, l \in logs : k.block = l.block /\ k.index = l.index => k = l

(* An order is admitted once, in the block that reconciles it; releases follow.
   What the contract holds open is what rested, until something is released. *)
OrdersLogged ==
  /\ record \in [Orders -> Nat]
  /\ \A l \in logs : l.event \in OrderEvents =>
       l.order \in Orders /\ l.portfolio = OwnerOf[l.order] /\ l.market = MarketOf[l.order]
  /\ \A k, l \in logs : k.event = l.event /\ k.order = l.order /\ k.event \in {"IntentAdmitted", "IntentReconciled"} => k = l
  /\ \A l \in Named("IntentReconciled") : \E k \in Named("IntentAdmitted") : k.order = l.order /\ k.block = l.block /\ k.index < l.index
  /\ \A k \in Named("ReservationReleased") : \E l \in Named("IntentReconciled") : l.order = k.order /\ Before(l, k)
  /\ \A o \in Orders : record[o] > 0 => \E l \in Named("IntentReconciled") : l.order = o /\ l.qty > 0
  /\ \A l \in Named("IntentReconciled") :
       (\A k \in Named("ReservationReleased") : k.order # l.order) => l.qty = record[l.order]

(* A market is tracked from an order's log until one that prunes it, and settled
   for good. *)
MarketsLogged ==
  /\ \A p \in Portfolios, m \in Markets :
       /\ Tracked(p, m) => \E l \in Named("IntentReconciled") : l.portfolio = p /\ l.market = m /\ Unpruned(l)
       /\ market[<<p, m>>] = "settled" =>
            \E l \in Named("SettledExposureReleased") : l.portfolio = p /\ l.market = m /\ Unpruned(l)
  /\ \A l \in Named("IntentReconciled") : Unpruned(l) => Tracked(l.portfolio, l.market)
  /\ \A l \in Named("SettledExposureReleased") :
       /\ l.market \in Markets
       /\ market[<<l.portfolio, l.market>>] \in {"settled", "closed"}
       /\ Unpruned(l) => market[<<l.portfolio, l.market>>] = "settled"
       /\ \E k \in Named("IntentReconciled") :
            /\ k.portfolio = l.portfolio /\ k.market = l.market /\ Before(k, l)
            /\ Unpruned(l) => Unpruned(k)
  /\ \A l \in logs : l.event \in {"Redeemed", "MarketPruned"} => l.market \in Markets

HistoryInv == LogsNumbered /\ OrdersLogged /\ MarketsLogged

\* The log an entry becomes
Numbered(b, i, e) ==
  [block |-> b, index |-> i, event |-> e.event, portfolio |-> e.portfolio, market |-> e.market,
   order |-> e.order, qty |-> e.qty]

\* A block's logs come after all earlier ones and have numbers of their own.
LEMMA NewLogs ==
    ASSUME ChainInv, LogsNumbered, NEW New, head' = head + 1, logs' = logs \cup New,
           \A n \in New : n \in Log /\ n.block = head + 1,
           \A m, n \in New : m.index = n.index => m = n
    PROVE  /\ LogsNumbered'
           /\ \A k \in logs, n \in New : Before(k, n) /\ ~ Before(n, k) /\ k # n
<1>1. head \in Nat /\ \A k \in logs : k.block \in Nat /\ k.block <= head /\ k.index \in Nat
  BY DEF ChainInv, LogsNumbered, Log
<1>2. \A n \in New : n.block = head + 1 /\ n.index \in Nat
  BY DEF Log
<1>3. \A k \in logs, n \in New : Before(k, n) /\ ~ Before(n, k) /\ k # n /\ k.block # n.block
  BY <1>1, <1>2 DEF Before
<1>4. \A k, l \in logs' : k.block = l.block /\ k.index = l.index => k = l
  BY <1>3 DEF LogsNumbered
<1>5. QED
  BY <1>3, <1>4 DEF LogsNumbered

\* A call that emits one log.
LEMMA OneLog ==
    ASSUME ChainInv, LogsNumbered, NEW kind, NEW e, Mine(kind, <<e>>),
           e.event \in Events, e.portfolio \in Portfolios, e.market \in Markets \cup {NoMarket},
           e.order \in Orders \cup {NoOrder}, e.qty \in Nat
    PROVE  LET n == Numbered(head + 1, 1, e)
           IN /\ logs' = logs \cup {n} /\ LogsNumbered'
              /\ n.event = e.event /\ n.portfolio = e.portfolio /\ n.market = e.market
              /\ n.order = e.order /\ n.qty = e.qty
              /\ \A k \in logs : Before(k, n) /\ ~ Before(n, k) /\ k # n
              /\ ~ Before(n, n)
<1> DEFINE n == Numbered(head + 1, 1, e)
           es == <<e>>
<1>1. head' = head + 1 /\ logs' = logs \cup {Numbered(head + 1, i, es[i]) : i \in DOMAIN es}
  BY DEF Mine, Numbered
<1>2. {Numbered(head + 1, i, es[i]) : i \in DOMAIN es} = {n}
  <2>1. DOMAIN es = {1} /\ es[1] = e
    OBVIOUS
  <2> HIDE DEF es
  <2>2. QED
    BY <2>1
<1>3. n \in Log /\ n.block = head + 1 /\ n.index = 1
  BY DEF Numbered, Log, ChainInv
<1>4. LogsNumbered' /\ \A k \in logs : Before(k, n) /\ ~ Before(n, k) /\ k # n
  <2> DEFINE New == {n}
  <2>1. /\ logs' = logs \cup New /\ \A m \in New : m \in Log /\ m.block = head + 1
        /\ \A l, m \in New : l.index = m.index => l = m
    BY <1>1, <1>2, <1>3
  <2> HIDE DEF New, n
  <2>2. LogsNumbered' /\ \A k \in logs, m \in New : Before(k, m) /\ ~ Before(m, k) /\ k # m
    BY <1>1, <2>1, NewLogs
  <2>3. QED
    BY <2>2 DEF New
<1>5. ~ Before(n, n)
  BY <1>3 DEF Before, ChainInv
<1>6. /\ n.event = e.event /\ n.portfolio = e.portfolio /\ n.market = e.market
      /\ n.order = e.order /\ n.qty = e.qty
  BY DEF Numbered
<1>7. QED
  BY <1>1, <1>2, <1>4, <1>5, <1>6

\* Logs of other events leave the orders' history alone.
LEMMA OrdersStay ==
    ASSUME OrdersLogged, NEW New, logs' = logs \cup New, record' = record,
           \A n \in New : n.event \notin OrderEvents
    PROVE  OrdersLogged'
<1>1. \A name \in OrderEvents : Named(name)' = Named(name)
  BY DEF Named
<1>2. \A l \in logs' : l.event \in OrderEvents => l \in logs
  OBVIOUS
<1>3. QED
  BY <1>1, <1>2 DEF OrdersLogged, OrderEvents, Before

\* So do those of other events the markets' one.
LEMMA MarketsStay ==
    ASSUME MarketsLogged, NEW New, logs' = logs \cup New, market' = market,
           \A n \in New : /\ n.event \notin {"IntentReconciled", "SettledExposureReleased", "MarketPruned"}
                          /\ n.event = "Redeemed" => n.market \in Markets
    PROVE  MarketsLogged'
<1>1. \A name \in {"IntentReconciled", "SettledExposureReleased", "MarketPruned"} : Named(name)' = Named(name)
  BY DEF Named
<1>2. \A l : Unpruned(l)' <=> Unpruned(l)
  BY DEF Unpruned, Before
<1>3. \A p, m : Tracked(p, m)' <=> Tracked(p, m)
  BY DEF Tracked
<1>4. \A k, l : Before(k, l)' <=> Before(k, l)
  BY DEF Before
<1>5. QED
  BY <1>1, <1>2, <1>3, <1>4 DEF MarketsLogged
\* Two entries that end a sequence, after one other or none
TwoLast(es, t, b, c) ==
  \E i, j : /\ i \in {1, 2} /\ j = i + 1 /\ DOMAIN es = 1 .. j /\ es[i] = b /\ es[j] = c
            /\ \A k \in DOMAIN es : k \notin {i, j} => es[k] = t

\* One entry, or none, is put before two others.
LEMMA Joined ==
    ASSUME NEW t, NEW b, NEW c, NEW es, es = <<t>> \o <<b, c>> \/ es = <<>> \o <<b, c>>
    PROVE  TwoLast(es, t, b, c)
<1>0. PICK first \in {<<t>>, <<>>} : es = first \o <<b, c>>
  OBVIOUS
<1> DEFINE S == {t, b, c}
           last == <<b, c>>
           n == Len(first)
<1>1. t \in S /\ b \in S /\ c \in S
  OBVIOUS
<1>2. first \in Seq(S) /\ last \in Seq(S)
  <2> HIDE DEF S
  <2>1. <<t>> \in Seq(S) /\ <<>> \in Seq(S) /\ <<b, c>> \in Seq(S)
    BY <1>1
  <2>2. QED
    BY <2>1
<1>3. Len(last) = 2 /\ last[1] = b /\ last[2] = c
  OBVIOUS
<1>4. n \in {0, 1} /\ (n = 1 => first[1] = t)
  OBVIOUS
<1> HIDE DEF S, last, n
<1>5. /\ es \in Seq(S) /\ Len(es) = n + 2 /\ DOMAIN es = 1 .. Len(es)
      /\ \A k \in 1 .. n + 2 : es[k] = IF k <= n THEN first[k] ELSE last[k - n]
  <2>1. es = first \o last
    BY <1>0 DEF last
  <2>2. Len(es) = Len(first) + Len(last) /\ es \in Seq(S)
    BY <1>2, <2>1
  <2>3. \A k \in 1 .. Len(first) + Len(last) : es[k] = IF k <= Len(first) THEN first[k] ELSE last[k - Len(first)]
    BY <1>2, <2>1
  <2>4. DOMAIN es = 1 .. Len(es)
    BY <2>2
  <2>5. QED
    BY <1>3, <2>2, <2>3, <2>4 DEF n
<1>6. DOMAIN es = 1 .. n + 2 /\ es[n + 1] = b /\ es[n + 2] = c /\ (n = 1 => es[1] = t)
  <2>1. CASE n = 0
    BY <1>3, <1>5, <2>1
  <2>2. CASE n = 1
    BY <1>3, <1>4, <1>5, <2>2
  <2>3. QED
    BY <1>4, <2>1, <2>2
<1>7. \A k \in DOMAIN es : k \notin {n + 1, n + 2} => es[k] = t
  BY <1>4, <1>6
<1>8. \E i, j : /\ i \in {1, 2} /\ j = i + 1 /\ DOMAIN es = 1 .. j /\ es[i] = b /\ es[j] = c
               /\ \A k \in DOMAIN es : k \notin {i, j} => es[k] = t
  <2>1. n + 1 \in {1, 2} /\ n + 2 = (n + 1) + 1
    BY <1>4
  <2>2. QED
    BY <1>6, <1>7, <2>1
<1>9. QED
  BY <1>8 DEF TwoLast

\* An order's transaction emits its two logs, after one of a market that is new.
LEMMA ExecuteLogs ==
    ASSUME ChainInv, LogsNumbered, NEW o \in Orders, NEW q \in 0 .. MaxQty, Execute(o, q)
    PROVE  \E New, a, r :
             /\ LogsNumbered' /\ logs' = logs \cup New /\ a \in New /\ r \in New
             /\ \A k \in logs, n \in New : Before(k, n) /\ ~ Before(n, k) /\ k # n
             /\ \A m, n \in New : m.block = n.block
             /\ a.event = "IntentAdmitted" /\ r.event = "IntentReconciled" /\ r.qty = q
             /\ \A n \in {a, r} : n.order = o /\ n.portfolio = OwnerOf[o] /\ n.market = MarketOf[o]
             /\ a.index < r.index
             /\ \A n \in New \ {a, r} : n.event = "MarketTracked"
<1> DEFINE p == OwnerOf[o]
           m == MarketOf[o]
           t == OfMarket("MarketTracked", p, m)
           b == OfOrder("IntentAdmitted", o, 0)
           c == OfOrder("IntentReconciled", o, q)
           es == (IF market[<<p, m>>] = "untracked" THEN <<t>> ELSE <<>>) \o <<b, c>>
           N(i) == Numbered(head + 1, i, es[i])
           New == {N(i) : i \in DOMAIN es}
<1>1. p \in Portfolios /\ m \in Markets /\ q \in Nat /\ head \in Nat
  BY OrdersAssumption, BoundsAssumption DEF ChainInv
<1>2. head' = head + 1 /\ logs' = logs \cup New
  <2>1. Mine("execute", es)
    BY DEF Execute
  <2> HIDE DEF es
  <2>2. QED
    BY <2>1 DEF Mine, Numbered
<1>3. TwoLast(es, t, b, c)
  <2> HIDE DEF t, b, c
  <2>1. es = <<t>> \o <<b, c>> \/ es = <<>> \o <<b, c>>
    OBVIOUS
  <2> HIDE DEF es
  <2>2. QED
    BY <2>1, Joined
<1>4. PICK i, j : /\ i \in {1, 2} /\ j = i + 1 /\ DOMAIN es = 1 .. j /\ es[i] = b /\ es[j] = c
                  /\ \A k \in DOMAIN es : k \notin {i, j} => es[k] = t
  BY <1>3 DEF TwoLast
<1>5. /\ t.event = "MarketTracked" /\ b.event = "IntentAdmitted" /\ c.event = "IntentReconciled" /\ c.qty = q
      /\ t.order = NoOrder /\ t.qty = 0 /\ b.qty = 0
      /\ \A e \in {t, b, c} : e.portfolio = p /\ e.market = m
      /\ \A e \in {b, c} : e.order = o
  BY DEF OfMarket, OfOrder, Entry
<1> HIDE DEF p, m, t, b, c, es
<1>6. \A k \in DOMAIN es : /\ N(k).block = head + 1 /\ N(k).index = k /\ N(k).event = es[k].event
                           /\ N(k).portfolio = es[k].portfolio /\ N(k).market = es[k].market
                           /\ N(k).order = es[k].order /\ N(k).qty = es[k].qty
  BY DEF Numbered
<1>7. \A k \in DOMAIN es : N(k) \in Log
  <2>1. ASSUME NEW k \in DOMAIN es
        PROVE  N(k) \in Log
    <3>1. k \in Nat /\ es[k] \in {t, b, c} /\ head + 1 \in Nat
      BY <1>1, <1>4
    <3>2. es[k].event \in Events /\ es[k].order \in Orders \cup {NoOrder} /\ es[k].qty \in Nat
      BY <1>1, <1>5, <3>1 DEF Events
    <3>3. es[k].portfolio \in Portfolios /\ es[k].market \in Markets \cup {NoMarket}
      BY <1>1, <1>5, <3>1
    <3>4. QED
      BY <3>1, <3>2, <3>3 DEF Numbered, Log
  <2>2. QED
    BY <2>1
<1> HIDE DEF N
<1>8. /\ \A n \in New : n \in Log /\ n.block = head + 1
      /\ \A l, n \in New : l.index = n.index => l = n
  BY <1>6, <1>7
<1>9. LogsNumbered' /\ \A k \in logs, n \in New : Before(k, n) /\ ~ Before(n, k) /\ k # n
  <2> HIDE DEF New
  <2>1. QED
    BY <1>2, <1>8, NewLogs
<1>10. N(i) \in New /\ N(j) \in New /\ \A n \in New \ {N(i), N(j)} : n.event = "MarketTracked"
  BY <1>4, <1>5, <1>6
<1>11. /\ N(i).event = "IntentAdmitted" /\ N(j).event = "IntentReconciled" /\ N(j).qty = q
       /\ \A n \in {N(i), N(j)} : n.order = o /\ n.portfolio = p /\ n.market = m
       /\ N(i).index < N(j).index
  BY <1>4, <1>5, <1>6
<1> HIDE DEF New
<1>12. QED
  BY <1>2, <1>8, <1>9, <1>10, <1>11 DEF p, m
\* An admitted order is new to the logs; both of its logs are added at once.
LEMMA ExecuteKeeps ==
    ASSUME ChainInv, HistoryInv, NEW o \in Orders, NEW q \in 0 .. MaxQty, Execute(o, q)
    PROVE  HistoryInv'
<1> USE DEF HistoryInv
<1> DEFINE p == OwnerOf[o]
           m == MarketOf[o]
<1>1. PICK New, a, r :
             /\ LogsNumbered' /\ logs' = logs \cup New /\ a \in New /\ r \in New
             /\ \A k \in logs, n \in New : Before(k, n) /\ ~ Before(n, k) /\ k # n
             /\ \A k, n \in New : k.block = n.block
             /\ a.event = "IntentAdmitted" /\ r.event = "IntentReconciled" /\ r.qty = q
             /\ \A n \in {a, r} : n.order = o /\ n.portfolio = OwnerOf[o] /\ n.market = MarketOf[o]
             /\ a.index < r.index
             /\ \A n \in New \ {a, r} : n.event = "MarketTracked"
  BY ExecuteLogs
<1>2. /\ p \in Portfolios /\ m \in Markets /\ q \in Nat
      /\ record' = [record EXCEPT ![o] = q] /\ record \in [Orders -> Nat]
      /\ market' = [market EXCEPT ![<<p, m>>] = "tracked"]
      /\ market \in [Portfolios \X Markets -> {"untracked", "tracked", "settled", "closed"}]
      /\ market[<<p, m>>] \in {"untracked", "tracked"}
  <2>1. p \in Portfolios /\ m \in Markets /\ q \in Nat
    BY OrdersAssumption, BoundsAssumption
  <2>2. market \in [Portfolios \X Markets -> {"untracked", "tracked", "settled", "closed"}]
    BY DEF ChainInv
  <2>3. record \in [Orders -> Nat]
    BY DEF OrdersLogged
  <2>4. /\ record' = [record EXCEPT ![o] = q] /\ market' = [market EXCEPT ![<<p, m>>] = "tracked"]
        /\ market[<<p, m>>] \in {"untracked", "tracked"}
    BY DEF Execute
  <2>5. QED
    BY <2>1, <2>2, <2>3, <2>4
<1>3. /\ \A l \in Named("IntentAdmitted") : l.order # o
      /\ \A l \in Named("IntentReconciled") : l.order # o
      /\ \A l \in Named("ReservationReleased") : l.order # o
  <2>1. \A l \in Named("IntentAdmitted") : l.order # o
    BY DEF Execute, Placed, Named
  <2>2. \A l \in Named("IntentReconciled") : l.order # o
    BY <2>1 DEF OrdersLogged
  <2>3. QED
    BY <2>1, <2>2 DEF OrdersLogged
<1>4. /\ Named("IntentAdmitted")' = Named("IntentAdmitted") \cup {a}
      /\ Named("IntentReconciled")' = Named("IntentReconciled") \cup {r}
      /\ Named("ReservationReleased")' = Named("ReservationReleased")
      /\ Named("SettledExposureReleased")' = Named("SettledExposureReleased")
      /\ Named("MarketPruned")' = Named("MarketPruned")
  <2>1. \A n \in New : n = a \/ n = r \/ n.event = "MarketTracked"
    BY <1>1
  <2>2. QED
    BY <1>1, <2>1 DEF Named
<1>5. OrdersLogged'
  <2>1. /\ \A l \in logs' : l.event \in OrderEvents => l \in logs \/ l = a \/ l = r
        /\ \A l \in Named("IntentAdmitted") : l \in logs /\ l.event = "IntentAdmitted"
        /\ \A l \in Named("IntentReconciled") : l \in logs /\ l.event = "IntentReconciled"
    BY <1>1 DEF Named, OrderEvents
  <2>2. \A l \in logs' : l.event \in OrderEvents =>
          l.order \in Orders /\ l.portfolio = OwnerOf[l.order] /\ l.market = MarketOf[l.order]
    BY <1>1, <2>1 DEF OrdersLogged
  <2>3. \A k, l \in logs' : k.event = l.event /\ k.order = l.order /\ k.event \in {"IntentAdmitted", "IntentReconciled"} => k = l
    <3>1. \A l \in logs : l.event \in {"IntentAdmitted", "IntentReconciled"} => l.order # o
      BY <1>3 DEF Named
    <3>2. QED
      BY <1>1, <2>1, <3>1 DEF OrdersLogged, OrderEvents
  <2>4. \A l \in Named("IntentReconciled")' : \E k \in Named("IntentAdmitted")' : k.order = l.order /\ k.block = l.block /\ k.index < l.index
    BY <1>1, <1>4 DEF OrdersLogged
  <2>5. \A k \in Named("ReservationReleased")' : \E l \in Named("IntentReconciled")' : l.order = k.order /\ Before(l, k)
    BY <1>4 DEF OrdersLogged
  <2>6. \A i \in Orders : record'[i] > 0 => \E l \in Named("IntentReconciled")' : l.order = i /\ l.qty > 0
    <3>1. ASSUME NEW i \in Orders, record'[i] > 0
          PROVE  \E l \in Named("IntentReconciled")' : l.order = i /\ l.qty > 0
      <4>1. CASE i = o
        BY <1>1, <1>2, <1>4, <3>1, <4>1
      <4>2. CASE i # o
        BY <1>2, <1>4, <3>1, <4>2 DEF OrdersLogged
      <4>3. QED
        BY <4>1, <4>2
    <3>2. QED
      BY <3>1
  <2>7. \A l \in Named("IntentReconciled")' :
          (\A k \in Named("ReservationReleased")' : k.order # l.order) => l.qty = record'[l.order]
    <3>1. \A l \in Named("IntentReconciled") : l.order \in Orders
      BY <2>1 DEF OrdersLogged, OrderEvents
    <3>2. \A l \in Named("IntentReconciled") : record'[l.order] = record[l.order]
      BY <1>2, <1>3, <3>1
    <3>3. QED
      BY <1>1, <1>2, <1>4, <3>2 DEF OrdersLogged
  <2>8. record' \in [Orders -> Nat]
    BY <1>2
  <2>9. \A k, l : Before(k, l)' <=> Before(k, l)
    BY DEF Before
  <2>10. QED
    BY <2>2, <2>3, <2>4, <2>5, <2>6, <2>7, <2>8, <2>9 DEF OrdersLogged
<1>6. /\ \A l \in logs : Unpruned(l)' <=> Unpruned(l)
      /\ Unpruned(r)'
  <2>1. \A k \in logs' : k.event = "MarketPruned" => k \in logs
    BY <1>4 DEF Named
  <2>2. QED
    BY <1>1, <2>1 DEF Unpruned, Before
<1>7. MarketsLogged'
  <2>1. /\ \A x \in Portfolios, y \in Markets : <<x, y>> # <<p, m>> => market'[<<x, y>>] = market[<<x, y>>]
        /\ market'[<<p, m>>] = "tracked"
    BY <1>2
  <2>2. /\ \A l \in Named("IntentReconciled") : l \in logs /\ l.portfolio \in Portfolios /\ l.market \in Markets
        /\ \A l \in Named("SettledExposureReleased") : l \in logs /\ l.portfolio \in Portfolios /\ l.market \in Markets
    <3>1. /\ \A l \in logs : l.portfolio \in Portfolios
          /\ \A l \in logs : l.event = "IntentReconciled" => l.order \in Orders /\ l.market = MarketOf[l.order]
          /\ \A l \in Named("SettledExposureReleased") : l.market \in Markets
      BY DEF ChainInv, OrdersLogged, MarketsLogged, OrderEvents
    <3>2. QED
      BY <3>1, OrdersAssumption DEF Named
  <2>3. \A x \in Portfolios, y \in Markets :
          /\ Tracked(x, y)' => \E l \in Named("IntentReconciled")' : l.portfolio = x /\ l.market = y /\ Unpruned(l)'
          /\ market'[<<x, y>>] = "settled" =>
               \E l \in Named("SettledExposureReleased")' : l.portfolio = x /\ l.market = y /\ Unpruned(l)'
    <3>1. ASSUME NEW x \in Portfolios, NEW y \in Markets
          PROVE  /\ Tracked(x, y)' => \E l \in Named("IntentReconciled")' : l.portfolio = x /\ l.market = y /\ Unpruned(l)'
                 /\ market'[<<x, y>>] = "settled" =>
                      \E l \in Named("SettledExposureReleased")' : l.portfolio = x /\ l.market = y /\ Unpruned(l)'
      <4>1. CASE <<x, y>> = <<p, m>>
        BY <1>1, <1>4, <1>6, <2>1, <4>1
      <4>2. CASE <<x, y>> # <<p, m>>
        BY <1>4, <1>6, <2>1, <2>2, <4>2 DEF MarketsLogged, Tracked
      <4>3. QED
        BY <4>1, <4>2
    <3>2. QED
      BY <3>1
  <2>4. \A l \in Named("IntentReconciled")' : Unpruned(l)' => Tracked(l.portfolio, l.market)'
    <3>1. \A x \in Portfolios, y \in Markets : Tracked(x, y) => Tracked(x, y)'
      BY <2>1 DEF Tracked
    <3>2. Tracked(r.portfolio, r.market)'
      BY <1>1, <2>1 DEF Tracked
    <3>3. QED
      BY <1>4, <1>6, <2>2, <3>1, <3>2 DEF MarketsLogged
  <2>5. \A l \in Named("SettledExposureReleased") : <<l.portfolio, l.market>> # <<p, m>>
    BY <1>2 DEF MarketsLogged
  <2>6. \A l \in Named("SettledExposureReleased")' :
          /\ l.market \in Markets
          /\ market'[<<l.portfolio, l.market>>] \in {"settled", "closed"}
          /\ Unpruned(l)' => market'[<<l.portfolio, l.market>>] = "settled"
          /\ \E k \in Named("IntentReconciled")' :
               /\ k.portfolio = l.portfolio /\ k.market = l.market /\ Before(k, l)
               /\ Unpruned(l)' => Unpruned(k)'
    <3>1. ASSUME NEW l \in Named("SettledExposureReleased")
          PROVE  /\ l.market \in Markets
                 /\ market'[<<l.portfolio, l.market>>] \in {"settled", "closed"}
                 /\ Unpruned(l)' => market'[<<l.portfolio, l.market>>] = "settled"
                 /\ \E k \in Named("IntentReconciled") :
                      /\ k.portfolio = l.portfolio /\ k.market = l.market /\ Before(k, l)
                      /\ Unpruned(l)' => Unpruned(k)'
      <4>1. market'[<<l.portfolio, l.market>>] = market[<<l.portfolio, l.market>>] /\ l \in logs
        BY <2>1, <2>2, <2>5
      <4>2. Unpruned(l)' <=> Unpruned(l)
        BY <1>6, <4>1
      <4>3. PICK k \in Named("IntentReconciled") :
               /\ k.portfolio = l.portfolio /\ k.market = l.market /\ Before(k, l)
               /\ Unpruned(l) => Unpruned(k)
        BY DEF MarketsLogged
      <4>4. Unpruned(k)' <=> Unpruned(k)
        BY <1>6, <2>2
      <4>5. QED
        BY <4>1, <4>2, <4>3, <4>4 DEF MarketsLogged
    <3>2. QED
      BY <1>4, <3>1
  <2>7. \A l \in logs' : l.event \in {"Redeemed", "MarketPruned"} => l.market \in Markets
    BY <1>1 DEF MarketsLogged
  <2>8. \A k, l : Before(k, l)' <=> Before(k, l)
    BY DEF Before
  <2>9. QED
    BY <2>3, <2>4, <2>6, <2>7, <2>8 DEF MarketsLogged
<1>8. QED
  BY <1>1, <1>5, <1>7

\* A release follows the order's own logs and changes what it holds open.
LEMMA ReleaseKeeps ==
    ASSUME ChainInv, HistoryInv, NEW o \in Orders, NEW left \in 0 .. MaxQty, ReleaseOrder(o, left)
    PROVE  HistoryInv'
<1> USE DEF HistoryInv
<1> DEFINE e == OfOrder("ReservationReleased", o, record[o] - left)
           n == Numbered(head + 1, 1, e)
<1>1. /\ left \in Nat /\ record \in [Orders -> Nat] /\ left < record[o]
      /\ record' = [record EXCEPT ![o] = left] /\ market' = market
  BY BoundsAssumption DEF ReleaseOrder, OrdersLogged
<1>2. /\ e.event = "ReservationReleased" /\ e.portfolio = OwnerOf[o] /\ e.market = MarketOf[o]
      /\ e.order = o /\ e.qty = record[o] - left
  BY DEF OfOrder, Entry
<1>3. PICK kind : Mine(kind, <<e>>)
  BY DEF ReleaseOrder
<1> HIDE DEF e
<1>4. /\ e.event \in Events /\ e.portfolio \in Portfolios /\ e.market \in Markets \cup {NoMarket}
      /\ e.order \in Orders \cup {NoOrder} /\ e.qty \in Nat
  <2>1. OwnerOf[o] \in Portfolios /\ MarketOf[o] \in Markets
    BY OrdersAssumption
  <2>2. record[o] - left \in Nat
    BY <1>1
  <2>3. QED
    BY <1>2, <2>1, <2>2 DEF Events
<1>5. /\ logs' = logs \cup {n} /\ LogsNumbered'
      /\ n.event = e.event /\ n.portfolio = e.portfolio /\ n.market = e.market /\ n.order = e.order
      /\ \A k \in logs : Before(k, n) /\ ~ Before(n, k) /\ k # n
  BY <1>3, <1>4, OneLog
<1> HIDE DEF n
<1>6. MarketsLogged'
  <2> DEFINE New == {n}
  <2>1. /\ logs' = logs \cup New
        /\ \A k \in New : k.event \notin {"IntentReconciled", "SettledExposureReleased", "MarketPruned", "Redeemed"}
    BY <1>2, <1>5
  <2> HIDE DEF New
  <2>2. QED
    BY <1>1, <2>1, MarketsStay
<1>7. /\ Named("IntentAdmitted")' = Named("IntentAdmitted")
      /\ Named("IntentReconciled")' = Named("IntentReconciled")
      /\ Named("ReservationReleased")' = Named("ReservationReleased") \cup {n}
  BY <1>2, <1>5 DEF Named
<1>8. OrdersLogged'
  <2>1. \A l \in Named("IntentReconciled") : l \in logs /\ l.order \in Orders
    BY DEF Named, OrdersLogged, OrderEvents
  <2>2. \A l \in logs' : l.event \in OrderEvents =>
          l.order \in Orders /\ l.portfolio = OwnerOf[l.order] /\ l.market = MarketOf[l.order]
    BY <1>2, <1>5 DEF OrdersLogged
  <2>3. \A k, l \in logs' : k.event = l.event /\ k.order = l.order /\ k.event \in {"IntentAdmitted", "IntentReconciled"} => k = l
    <3>1. \A l \in logs' : l.event \in {"IntentAdmitted", "IntentReconciled"} => l \in logs
      BY <1>2, <1>5
    <3>2. QED
      BY <3>1 DEF OrdersLogged
  <2>4. \A k \in Named("ReservationReleased")' : \E l \in Named("IntentReconciled") : l.order = k.order /\ Before(l, k)
    <3>1. PICK l \in Named("IntentReconciled") : l.order = o
      BY <1>1 DEF OrdersLogged
    <3>2. QED
      BY <1>2, <1>5, <1>7, <2>1, <3>1 DEF OrdersLogged
  <2>5. \A i \in Orders : record'[i] > 0 => \E l \in Named("IntentReconciled") : l.order = i /\ l.qty > 0
    <3>1. \A i \in Orders : record'[i] > 0 => record[i] > 0
      BY <1>1
    <3>2. QED
      BY <3>1 DEF OrdersLogged
  <2>6. \A l \in Named("IntentReconciled") :
          (\A k \in Named("ReservationReleased")' : k.order # l.order) => l.qty = record'[l.order]
    BY <1>1, <1>2, <1>5, <1>7, <2>1 DEF OrdersLogged
  <2>7. record' \in [Orders -> Nat]
    BY <1>1
  <2>8. \A k, l : Before(k, l)' <=> Before(k, l)
    BY DEF Before
  <2>9. QED
    BY <1>7, <2>2, <2>3, <2>4, <2>5, <2>6, <2>7, <2>8 DEF OrdersLogged
<1>9. QED
  BY <1>5, <1>6, <1>8

\* A call that emits one log of a market
LEMMA MarketLog ==
    ASSUME ChainInv, HistoryInv, NEW kind, NEW name \in Events \ OrderEvents, NEW p \in Portfolios, NEW m \in Markets,
           Mine(kind, <<OfMarket(name, p, m)>>), record' = record
    PROVE  /\ LogsNumbered' /\ OrdersLogged'
           /\ \E n : /\ logs' = logs \cup {n} /\ n.event = name /\ n.portfolio = p /\ n.market = m
                     /\ \A k \in logs : Before(k, n) /\ ~ Before(n, k) /\ k # n
                     /\ ~ Before(n, n)
<1> USE DEF HistoryInv
<1> DEFINE e == OfMarket(name, p, m)
           n == Numbered(head + 1, 1, e)
<1>1. e.event = name /\ e.portfolio = p /\ e.market = m /\ e.order = NoOrder /\ e.qty = 0
  BY DEF OfMarket, Entry
<1> HIDE DEF e
<1>2. /\ e.event \in Events /\ e.portfolio \in Portfolios /\ e.market \in Markets \cup {NoMarket}
      /\ e.order \in Orders \cup {NoOrder} /\ e.qty \in Nat
  BY <1>1
<1>3. /\ logs' = logs \cup {n} /\ LogsNumbered'
      /\ n.event = e.event /\ n.portfolio = e.portfolio /\ n.market = e.market
      /\ \A k \in logs : Before(k, n) /\ ~ Before(n, k) /\ k # n
      /\ ~ Before(n, n)
  BY <1>2, OneLog DEF e
<1> HIDE DEF n
<1>4. OrdersLogged'
  <2> DEFINE New == {n}
  <2>1. logs' = logs \cup New /\ \A k \in New : k.event \notin OrderEvents
    BY <1>1, <1>3
  <2> HIDE DEF New
  <2>2. QED
    BY <2>1, OrdersStay
<1>5. QED
  BY <1>1, <1>3, <1>4

\* A market is settled once, and its log says so.
LEMMA SettleKeeps ==
    ASSUME ChainInv, HistoryInv, NEW p \in Portfolios, NEW m \in Markets, ReleaseSettled(p, m)
    PROVE  HistoryInv'
<1> USE DEF HistoryInv
<1>1. /\ market[<<p, m>>] = "tracked" /\ market' = [market EXCEPT ![<<p, m>>] = "settled"]
      /\ market \in [Portfolios \X Markets -> {"untracked", "tracked", "settled", "closed"}]
      /\ record' = record
      /\ Mine("settle", <<OfMarket("SettledExposureReleased", p, m)>>)
  BY DEF ReleaseSettled, ChainInv
<1>2. PICK n : /\ logs' = logs \cup {n} /\ n.event = "SettledExposureReleased" /\ n.portfolio = p /\ n.market = m
               /\ \A k \in logs : Before(k, n) /\ ~ Before(n, k) /\ k # n
               /\ ~ Before(n, n)
  BY <1>1, MarketLog DEF Events, OrderEvents
<1>3. LogsNumbered' /\ OrdersLogged'
  BY <1>1, MarketLog DEF Events, OrderEvents
<1>4. /\ Named("IntentReconciled")' = Named("IntentReconciled")
      /\ Named("SettledExposureReleased")' = Named("SettledExposureReleased") \cup {n}
  BY <1>2 DEF Named
<1>5. /\ \A l \in logs : Unpruned(l)' <=> Unpruned(l)
      /\ Unpruned(n)'
  <2>1. \A k \in logs' : k.event = "MarketPruned" => k \in logs
    BY <1>2
  <2>2. QED
    BY <1>2, <2>1 DEF Unpruned, Before
<1>6. /\ \A x \in Portfolios, y \in Markets : <<x, y>> # <<p, m>> => market'[<<x, y>>] = market[<<x, y>>]
      /\ market'[<<p, m>>] = "settled"
      /\ \A x \in Portfolios, y \in Markets : Tracked(x, y)' <=> Tracked(x, y)
  BY <1>1 DEF Tracked
<1>7. /\ \A l \in Named("IntentReconciled") : l \in logs /\ l.portfolio \in Portfolios /\ l.market \in Markets
      /\ \A l \in Named("SettledExposureReleased") :
           l \in logs /\ l.portfolio \in Portfolios /\ l.market \in Markets /\ <<l.portfolio, l.market>> # <<p, m>>
  <2>1. /\ \A l \in logs : l.portfolio \in Portfolios
        /\ \A l \in logs : l.event = "IntentReconciled" => l.order \in Orders /\ l.market = MarketOf[l.order]
        /\ \A l \in Named("SettledExposureReleased") : l.market \in Markets /\ market[<<l.portfolio, l.market>>] \in {"settled", "closed"}
    BY DEF ChainInv, OrdersLogged, MarketsLogged, OrderEvents
  <2>2. QED
    BY <1>1, <2>1, OrdersAssumption DEF Named
<1>8. MarketsLogged'
  <2>1. ASSUME NEW x \in Portfolios, NEW y \in Markets
        PROVE  /\ Tracked(x, y)' => \E l \in Named("IntentReconciled") : l.portfolio = x /\ l.market = y /\ Unpruned(l)'
               /\ market'[<<x, y>>] = "settled" =>
                    \E l \in Named("SettledExposureReleased")' : l.portfolio = x /\ l.market = y /\ Unpruned(l)'
    <3>1. ASSUME Tracked(x, y)'
          PROVE  \E l \in Named("IntentReconciled") : l.portfolio = x /\ l.market = y /\ Unpruned(l)'
      <4>1. Tracked(x, y)
        BY <1>1, <3>1 DEF Tracked
      <4>2. PICK l \in Named("IntentReconciled") : l.portfolio = x /\ l.market = y /\ Unpruned(l)
        BY <4>1 DEF MarketsLogged, Tracked
      <4>3. QED
        BY <1>5, <1>7, <4>2
    <3>2. CASE <<x, y>> = <<p, m>>
      BY <1>2, <1>4, <1>5, <3>1, <3>2
    <3>3. CASE <<x, y>> # <<p, m>>
      BY <1>4, <1>5, <1>6, <1>7, <3>1, <3>3 DEF MarketsLogged
    <3>4. QED
      BY <3>2, <3>3
  <2>2. \A l \in Named("IntentReconciled") : Unpruned(l)' => Tracked(l.portfolio, l.market)'
    BY <1>5, <1>6, <1>7 DEF MarketsLogged
  <2>3. ASSUME NEW l \in Named("SettledExposureReleased")'
        PROVE  /\ l.market \in Markets
               /\ market'[<<l.portfolio, l.market>>] \in {"settled", "closed"}
               /\ Unpruned(l)' => market'[<<l.portfolio, l.market>>] = "settled"
               /\ \E k \in Named("IntentReconciled") :
                    /\ k.portfolio = l.portfolio /\ k.market = l.market /\ Before(k, l)
                    /\ Unpruned(l)' => Unpruned(k)'
    <3>1. CASE l = n
      <4>1. PICK k \in Named("IntentReconciled") : k.portfolio = p /\ k.market = m /\ Unpruned(k)
        BY <1>1 DEF MarketsLogged, Tracked
      <4>2. Before(k, n) /\ Unpruned(k)'
        BY <1>2, <1>5, <1>7, <4>1
      <4>3. QED
        BY <1>2, <1>6, <3>1, <4>1, <4>2
    <3>2. CASE l # n
      <4>1. l \in Named("SettledExposureReleased")
        BY <1>4, <3>2
      <4>2. /\ market'[<<l.portfolio, l.market>>] = market[<<l.portfolio, l.market>>]
            /\ Unpruned(l)' <=> Unpruned(l)
        BY <1>5, <1>6, <1>7, <4>1
      <4>3. PICK k \in Named("IntentReconciled") :
               /\ k.portfolio = l.portfolio /\ k.market = l.market /\ Before(k, l)
               /\ Unpruned(l) => Unpruned(k)
        BY <4>1 DEF MarketsLogged, Tracked
      <4>4. Unpruned(k)' <=> Unpruned(k)
        BY <1>5, <1>7
      <4>5. QED
        BY <4>1, <4>2, <4>3, <4>4 DEF MarketsLogged
    <3>3. QED
      BY <3>1, <3>2
  <2>4. \A l \in logs' : l.event \in {"Redeemed", "MarketPruned"} => l.market \in Markets
    BY <1>2 DEF MarketsLogged
  <2>5. \A k, l : Before(k, l)' <=> Before(k, l)
    BY DEF Before
  <2>6. QED
    BY <1>4, <2>1, <2>2, <2>3, <2>4, <2>5 DEF MarketsLogged
<1>9. QED
  BY <1>3, <1>8

\* A market is pruned: all its logs so far are followed by one that says so.
LEMMA PruneKeeps ==
    ASSUME ChainInv, HistoryInv, NEW p \in Portfolios, NEW m \in Markets, PruneMarket(p, m)
    PROVE  HistoryInv'
<1> USE DEF HistoryInv
<1>1. /\ market[<<p, m>>] \in {"tracked", "settled"}
      /\ market' = [market EXCEPT ![<<p, m>>] = IF @ = "settled" THEN "closed" ELSE "untracked"]
      /\ market \in [Portfolios \X Markets -> {"untracked", "tracked", "settled", "closed"}]
      /\ record' = record
      /\ Mine("prune", <<OfMarket("MarketPruned", p, m)>>)
  BY DEF PruneMarket, ChainInv
<1>2. PICK n : /\ logs' = logs \cup {n} /\ n.event = "MarketPruned" /\ n.portfolio = p /\ n.market = m
               /\ \A k \in logs : Before(k, n) /\ ~ Before(n, k) /\ k # n
               /\ ~ Before(n, n)
  BY <1>1, MarketLog DEF Events, OrderEvents
<1>3. LogsNumbered' /\ OrdersLogged'
  BY <1>1, MarketLog DEF Events, OrderEvents
<1>4. /\ Named("IntentReconciled")' = Named("IntentReconciled")
      /\ Named("SettledExposureReleased")' = Named("SettledExposureReleased")
  BY <1>2 DEF Named
<1>5. \A l \in logs : Unpruned(l)' <=> Unpruned(l) /\ <<l.portfolio, l.market>> # <<p, m>>
  BY <1>2 DEF Unpruned, Before
<1>6. /\ \A x \in Portfolios, y \in Markets : <<x, y>> # <<p, m>> => market'[<<x, y>>] = market[<<x, y>>]
      /\ market'[<<p, m>>] \in {"untracked", "closed"}
      /\ market[<<p, m>>] = "settled" => market'[<<p, m>>] = "closed"
  BY <1>1
<1>7. /\ \A l \in Named("IntentReconciled") : l \in logs /\ l.portfolio \in Portfolios /\ l.market \in Markets
      /\ \A l \in Named("SettledExposureReleased") : l \in logs /\ l.portfolio \in Portfolios /\ l.market \in Markets
  <2>1. /\ \A l \in logs : l.portfolio \in Portfolios
        /\ \A l \in logs : l.event = "IntentReconciled" => l.order \in Orders /\ l.market = MarketOf[l.order]
        /\ \A l \in Named("SettledExposureReleased") : l.market \in Markets
    BY DEF ChainInv, OrdersLogged, MarketsLogged, OrderEvents
  <2>2. QED
    BY <2>1, OrdersAssumption DEF Named
<1>8. MarketsLogged'
  <2>1. ASSUME NEW x \in Portfolios, NEW y \in Markets
        PROVE  /\ Tracked(x, y)' => \E l \in Named("IntentReconciled") : l.portfolio = x /\ l.market = y /\ Unpruned(l)'
               /\ market'[<<x, y>>] = "settled" =>
                    \E l \in Named("SettledExposureReleased") : l.portfolio = x /\ l.market = y /\ Unpruned(l)'
    <3>1. CASE <<x, y>> = <<p, m>>
      BY <1>6, <3>1 DEF Tracked
    <3>2. CASE <<x, y>> # <<p, m>>
      BY <1>5, <1>6, <1>7, <3>2 DEF MarketsLogged, Tracked
    <3>3. QED
      BY <3>1, <3>2
  <2>2. \A l \in Named("IntentReconciled") : Unpruned(l)' => Tracked(l.portfolio, l.market)'
    BY <1>5, <1>6, <1>7 DEF MarketsLogged, Tracked
  <2>3. ASSUME NEW l \in Named("SettledExposureReleased")
        PROVE  /\ l.market \in Markets
               /\ market'[<<l.portfolio, l.market>>] \in {"settled", "closed"}
               /\ Unpruned(l)' => market'[<<l.portfolio, l.market>>] = "settled"
               /\ \E k \in Named("IntentReconciled") :
                    /\ k.portfolio = l.portfolio /\ k.market = l.market /\ Before(k, l)
                    /\ Unpruned(l)' => Unpruned(k)'
    <3>1. PICK k \in Named("IntentReconciled") :
             /\ k.portfolio = l.portfolio /\ k.market = l.market /\ Before(k, l)
             /\ Unpruned(l) => Unpruned(k)
      BY DEF MarketsLogged
    <3>2. Unpruned(l)' => Unpruned(k)'
      BY <1>5, <1>7, <3>1
    <3>3. /\ l.market \in Markets /\ market[<<l.portfolio, l.market>>] \in {"settled", "closed"}
          /\ Unpruned(l) => market[<<l.portfolio, l.market>>] = "settled"
      BY DEF MarketsLogged
    <3>4. market'[<<l.portfolio, l.market>>] \in {"settled", "closed"}
      BY <1>1, <1>6, <1>7, <3>3
    <3>5. Unpruned(l)' => market'[<<l.portfolio, l.market>>] = "settled"
      BY <1>5, <1>6, <1>7, <3>3
    <3>6. QED
      BY <3>1, <3>2, <3>3, <3>4, <3>5
  <2>4. \A l \in logs' : l.event \in {"Redeemed", "MarketPruned"} => l.market \in Markets
    BY <1>2 DEF MarketsLogged
  <2>5. \A k, l : Before(k, l)' <=> Before(k, l)
    BY DEF Before
  <2>6. QED
    BY <1>4, <2>1, <2>2, <2>3, <2>4, <2>5 DEF MarketsLogged
<1>9. QED
  BY <1>3, <1>8

\* A call that neither touches an order nor what the contract says of a market
LEMMA OtherLogs ==
    ASSUME HistoryInv, LogsNumbered', NEW New, logs' = logs \cup New, UNCHANGED <<record, market>>,
           \A n \in New : /\ n.event \in Events \ (OrderEvents \cup {"SettledExposureReleased", "MarketPruned"})
                          /\ n.event = "Redeemed" => n.market \in Markets
    PROVE  HistoryInv'
<1>1. OrdersLogged'
  BY OrdersStay DEF HistoryInv
<1>2. MarketsLogged'
  BY MarketsStay DEF HistoryInv, OrderEvents
<1>3. QED
  BY <1>1, <1>2 DEF HistoryInv

\* A portfolio's creation is of no order and no market.
LEMMA CreateKeeps ==
    ASSUME ChainInv, HistoryInv, NEW p \in Portfolios, CreatePortfolio(p)
    PROVE  HistoryInv'
<1> DEFINE a == Of("Initialized", p)
           b == Of("PortfolioCreated", p)
           es == <<a, b>>
           N(i) == Numbered(head + 1, i, es[i])
           New == {N(i) : i \in DOMAIN es}
<1>1. head \in Nat
  BY DEF ChainInv
<1>2. head' = head + 1 /\ logs' = logs \cup New /\ UNCHANGED <<record, market>>
  <2>1. Mine("create", es) /\ UNCHANGED <<record, market>>
    BY DEF CreatePortfolio
  <2> HIDE DEF es
  <2>2. QED
    BY <2>1 DEF Mine, Numbered
<1>3. /\ a.event = "Initialized" /\ b.event = "PortfolioCreated"
      /\ \A e \in {a, b} : e.portfolio = p /\ e.market = NoMarket /\ e.order = NoOrder /\ e.qty = 0
  BY DEF Of, Entry
<1> HIDE DEF a, b
<1>4. DOMAIN es = {1, 2} /\ es[1] = a /\ es[2] = b
  OBVIOUS
<1> HIDE DEF es
<1>5. New = {N(1), N(2)}
  BY <1>4
<1>6. /\ N(1) \in Log /\ N(1).block = head + 1 /\ N(1).index = 1 /\ N(1).event = "Initialized"
      /\ N(2) \in Log /\ N(2).block = head + 1 /\ N(2).index = 2 /\ N(2).event = "PortfolioCreated"
  BY <1>1, <1>3, <1>4 DEF Numbered, Log, Events
<1> HIDE DEF N
<1>7. /\ \A n \in New : n \in Log /\ n.block = head + 1
      /\ \A l, n \in New : l.index = n.index => l = n
      /\ \A n \in New : n.event \in {"Initialized", "PortfolioCreated"}
  BY <1>5, <1>6
<1> HIDE DEF New
<1>8. LogsNumbered'
  BY <1>2, <1>7, NewLogs DEF HistoryInv
<1>9. QED
  BY <1>2, <1>7, <1>8, OtherLogs DEF Events, OrderEvents

\* A call that emits one log of the owner's settings, or of a redemption
LEMMA PlainLog ==
    ASSUME ChainInv, HistoryInv, NEW kind, NEW e, Mine(kind, <<e>>), UNCHANGED <<record, market>>,
           e.event \in {"AgentSet", "AgentRevoked", "DomainPolicySet", "Redeemed"}, e.portfolio \in Portfolios,
           e.market \in Markets \cup {NoMarket}, e.event = "Redeemed" => e.market \in Markets,
           e.order \in Orders \cup {NoOrder}, e.qty \in Nat
    PROVE  HistoryInv'
<1> DEFINE n == Numbered(head + 1, 1, e)
<1>1. /\ logs' = logs \cup {n} /\ LogsNumbered' /\ n.event = e.event /\ n.market = e.market
  BY OneLog DEF Events, HistoryInv
<1> HIDE DEF n
<1> DEFINE New == {n}
<1>2. logs' = logs \cup New /\ \A k \in New : k.event = e.event /\ k.market = e.market
  BY <1>1
<1> HIDE DEF New
<1>3. QED
  BY <1>1, <1>2, OtherLogs DEF Events, OrderEvents

\* A redemption is of any market of a portfolio, whatever its state.
LEMMA RedeemKeeps ==
    ASSUME ChainInv, HistoryInv, NEW p \in Portfolios, NEW m \in Markets, Redeem(p, m)
    PROVE  HistoryInv'
<1> DEFINE e == OfMarket("Redeemed", p, m)
<1>1. e.event = "Redeemed" /\ e.portfolio = p /\ e.market = m /\ e.order = NoOrder /\ e.qty = 0
  BY DEF OfMarket, Entry
<1>2. Mine("redeem", <<e>>) /\ UNCHANGED <<record, market>>
  BY DEF Redeem
<1> HIDE DEF e
<1>3. QED
  BY <1>1, <1>2, PlainLog

\* The owner's settings are of no order and no market.
LEMMA ConfigureKeeps ==
    ASSUME ChainInv, HistoryInv, NEW p \in Portfolios, NEW name \in {"AgentSet", "AgentRevoked", "DomainPolicySet"},
           NEW q \in Nat, Configure(p, name, q)
    PROVE  HistoryInv'
<1> DEFINE e == Entry(name, p, NoMarket, NoOrder, q)
<1>1. e.event = name /\ e.portfolio = p /\ e.market = NoMarket /\ e.order = NoOrder /\ e.qty = q
  BY DEF Entry
<1>2. Mine("configure", <<e>>) /\ UNCHANGED <<record, market>>
  BY DEF Configure
<1> HIDE DEF e
<1>3. QED
  BY <1>1, <1>2, PlainLog

\* Whatever is mined, the logs go on telling the contract's state.
LEMMA HistoryKeeps ==
    ASSUME ChainInv, HistoryInv, ChainNext
    PROVE  HistoryInv'
<1>1. CASE OrderNext
  <2>1. PICK o \in Orders, q \in 0 .. MaxQty : Execute(o, q) \/ ReleaseOrder(o, q)
    BY <1>1 DEF OrderNext
  <2>2. QED
    BY <2>1, ExecuteKeeps, ReleaseKeeps
<1>2. CASE PortfolioNext
  <2>1. PICK p \in Portfolios :
          \/ CreatePortfolio(p)
          \/ SetAgent(p)
          \/ RevokeAgent(p)
          \/ \E q \in 1 .. MaxQty : SetDomainPolicy(p, q)
          \/ \E m \in Markets : ReleaseSettled(p, m) \/ Redeem(p, m) \/ PruneMarket(p, m)
    BY <1>2 DEF PortfolioNext
  <2>2. CASE CreatePortfolio(p)
    BY <2>2, CreateKeeps
  <2>3. CASE SetAgent(p)
    BY <2>3, ConfigureKeeps DEF SetAgent
  <2>4. CASE RevokeAgent(p)
    BY <2>4, ConfigureKeeps DEF RevokeAgent
  <2>5. ASSUME NEW q \in 1 .. MaxQty, SetDomainPolicy(p, q)
        PROVE  HistoryInv'
    <3>1. q \in Nat
      BY BoundsAssumption
    <3>2. Configure(p, "DomainPolicySet", q)
      BY <2>5 DEF SetDomainPolicy
    <3>3. QED
      BY <3>1, <3>2, ConfigureKeeps
  <2>6. ASSUME NEW m \in Markets, ReleaseSettled(p, m) \/ Redeem(p, m) \/ PruneMarket(p, m)
        PROVE  HistoryInv'
    BY <2>6, SettleKeeps, RedeemKeeps, PruneKeeps
  <2>7. QED
    BY <2>1, <2>2, <2>3, <2>4, <2>5, <2>6
<1>3. QED
  BY <1>1, <1>2 DEF ChainNext

\* No log and no order at first
LEMMA HistoryInit == Init => HistoryInv
<1> SUFFICES ASSUME Init
             PROVE  HistoryInv
  OBVIOUS
<1>1. /\ logs = {} /\ record = [o \in Orders |-> 0]
      /\ market = [pm \in Portfolios \X Markets |-> "untracked"]
  BY DEF Init, ChainInit
<1>2. \A name : Named(name) = {}
  BY <1>1 DEF Named
<1>3. /\ \A p \in Portfolios, m \in Markets : market[<<p, m>>] = "untracked"
      /\ \A o \in Orders : record[o] = 0
      /\ record \in [Orders -> Nat]
  BY <1>1
<1>4. LogsNumbered
  BY <1>1 DEF LogsNumbered
<1>5. OrdersLogged
  BY <1>1, <1>2, <1>3 DEF OrdersLogged
<1>6. MarketsLogged
  BY <1>1, <1>2, <1>3 DEF MarketsLogged, Tracked
<1>7. QED
  BY <1>4, <1>5, <1>6 DEF HistoryInv

-----------------------------------------------------------------------------
(* What the rows say of the logs that have been projected *)

(* The rows of chain_events but those under way *)
Projected == events \ UNION {run[w].log : w \in {v \in Workers : At(v, "project")}}

(* Its log's row is in place and the position is being read. *)
Syncing(w) == run[w].pc \in {"sync", "syncWrite"}

(* One invocation at a time ... *)
Single == \A v, w \in Workers : ~ At(v, "idle") /\ ~ At(w, "idle") => v = w

(* ... goes through the logs in their order. *)
LedgerInOrder ==
  /\ \A l \in events : l.event # "PortfolioCreated"
  /\ \A l \in events, k \in logs : k.event # "PortfolioCreated" /\ Before(k, l) => k \in events

RunInOrder(w) ==
  /\ run[w].pc \in Fetched => \A l \in run[w].todo : run[w].from <= l.block /\ l.block <= ChunkEnd(w)
  /\ At(w, "project") \/ Syncing(w) =>
       \E l \in events : run[w].log = {l} /\ \A k \in events : ~ Before(l, k)
  /\ Syncing(w) => \A l \in run[w].log : l.event \in {"IntentReconciled", "ReservationReleased"}

(* The tables' columns *)
RowsTyped ==
  /\ agents \in [Portfolios -> {"none", "enabled", "revoked"}]
  /\ policies \in [Portfolios -> Nat]
  /\ receipts \in [Orders -> [intent : BOOLEAN, receipt : {"none", "bare", "full"}]]
  /\ reservations \in [Orders -> [state : {"none", "RESTING", "FINALIZED"}, qty : Nat]]
  /\ positions \in [Portfolios \X Markets -> [row : {"none", "open", "settled"}, redeemed : BOOLEAN]]

(* No projected log of its portfolio among names comes after it. *)
LastProjected(l, names) ==
  \A k \in Projected : k.portfolio = l.portfolio /\ k.event \in names => ~ Before(l, k)

(* Agents and policies are the last ones projected. *)
ConfigurationRows ==
  /\ \A p \in Portfolios :
       agents[p] = "enabled" <=>
         \E l \in Projected : l.event = "AgentSet" /\ l.portfolio = p /\ LastProjected(l, {"AgentSet", "AgentRevoked"})
  /\ \A l \in Projected :
       l.event = "DomainPolicySet" /\ LastProjected(l, {"DomainPolicySet"}) => policies[l.portfolio] = l.qty

(* Every projected log of an order left its mark. *)
OrderRows ==
  \A l \in Projected :
    /\ l.event = "IntentAdmitted" => receipts[l.order].intent
    /\ l.event = "IntentReconciled" => receipts[l.order].receipt = "full"
    /\ l.event = "IntentReconciled" /\ l.qty > 0 => reservations[l.order].state # "none"

(* A resting row is an order's that nothing has released, as it was reconciled. *)
RestingRows ==
  \A o \in Orders :
    reservations[o].state = "RESTING" =>
      /\ \E l \in Projected : l.event = "IntentReconciled" /\ l.order = o /\ l.qty = reservations[o].qty
      /\ \A k \in Projected : k.event = "ReservationReleased" => k.order # o

(* Between an order's two logs their invocation remembers it. *)
Remembered ==
  \A k \in events, l \in logs \ Projected :
    k.event = "IntentAdmitted" /\ l.event = "IntentReconciled" /\ l.order = k.order =>
      \E w \in Workers : /\ l.order \in run[w].admitted
                         /\ \/ run[w].pc \in Fetched /\ l \in run[w].todo
                            \/ At(w, "project") /\ run[w].log = {l}

(* An order's market has a row once its position is synced, and a settled one's
   is settled, which a sync under way does not undo. *)
PositionRows ==
  \A l \in Projected :
    /\ l.event = "IntentReconciled" /\ Unpruned(l) =>
         \/ positions[<<l.portfolio, l.market>>].row # "none"
         \/ \E w \in Workers : Syncing(w) /\ run[w].log = {l}
    /\ l.event = "SettledExposureReleased" /\ Unpruned(l) =>
         /\ positions[<<l.portfolio, l.market>>].row = "settled"
         /\ \A w \in Workers, k \in events :
              At(w, "syncWrite") /\ run[w].log = {k} /\ k.portfolio = l.portfolio /\ k.market = l.market
                => run[w].settled

(* A row is a tracked market's, or of one whose pruning is still to be projected. *)
Writing(p, m) ==
  \E w \in Workers, l \in events : At(w, "syncWrite") /\ run[w].log = {l} /\ l.portfolio = p /\ l.market = m

OpenRows ==
  \A p \in Portfolios, m \in Markets :
    positions[<<p, m>>].row # "none" \/ Writing(p, m) =>
      \/ Tracked(p, m)
      \/ \E k \in logs \ Projected : k.event = "MarketPruned" /\ k.portfolio = p /\ k.market = m

(* A settled row is of a market whose settlement the chain has seen. *)
Settled(p, m) == \E l \in Named("SettledExposureReleased") : l.portfolio = p /\ l.market = m

SettledRows ==
  /\ \A p \in Portfolios, m \in Markets : positions[<<p, m>>].row = "settled" => Settled(p, m)
  /\ \A w \in Workers, l \in events :
       At(w, "syncWrite") /\ run[w].log = {l} /\ run[w].settled => Settled(l.portfolio, l.market)

(* What the tables say of the logs, and, because of them, of the contract.  It is
   inductive: each part rests on the others. *)
Faithful ==
  /\ Single /\ LedgerInOrder /\ \A w \in Workers : RunInOrder(w)
  /\ RowsTyped /\ ConfigurationRows
  /\ OrderRows /\ RestingRows /\ Remembered
  /\ PositionRows /\ OpenRows /\ SettledRows

(* An overlap, a crash or a failed write may break it (the crash run shows how). *)
RowsInv == struck = {} => Faithful

\* Two logs of different places come one after the other, and never both ways.
LEMMA OneFirst ==
    ASSUME LogsNumbered, NEW k \in logs, NEW l \in logs
    PROVE  /\ k # l => Before(k, l) \/ Before(l, k)
           /\ Before(k, l) => ~ Before(l, k)
           /\ ~ Before(l, l)
<1>1. k.block \in Nat /\ k.index \in Nat /\ l.block \in Nat /\ l.index \in Nat
  BY DEF LogsNumbered, Log
<1>2. k.block = l.block /\ k.index = l.index => k = l
  BY DEF LogsNumbered
<1>3. QED
  BY <1>1, <1>2 DEF Before

\* While one invocation is under way no other is.
LEMMA Alone ==
    ASSUME Single, NEW w \in Workers, ~ At(w, "idle")
    PROVE  /\ \A v \in Workers : v # w => run[v].pc = "idle"
           /\ At(w, "project") => Projected = events \ run[w].log
           /\ ~ At(w, "project") => Projected = events
           /\ \A v \in Workers : Syncing(v) => v = w
<1>1. \A v \in Workers : v # w => run[v].pc = "idle"
  BY DEF Single, At
<1>2. ASSUME At(w, "project")
      PROVE  Projected = events \ run[w].log
  <2>1. {v \in Workers : At(v, "project")} = {w}
    BY <1>1, <1>2 DEF At
  <2>2. QED
    BY <2>1 DEF Projected
<1>3. ASSUME ~ At(w, "project")
      PROVE  Projected = events
  <2>1. {v \in Workers : At(v, "project")} = {}
    BY <1>1, <1>3 DEF At
  <2>2. QED
    BY <2>1 DEF Projected
<1>4. \A v \in Workers : Syncing(v) => v = w
  BY <1>1 DEF Syncing
<1>5. QED
  BY <1>1, <1>2, <1>3, <1>4

\* It is still alone when it has moved.
LEMMA AloneStill ==
    ASSUME NEW w \in Workers, \A v \in Workers : v # w => run[v].pc = "idle",
           run \in [Workers -> RunRecord], NEW r, run' = [run EXCEPT ![w] = r]
    PROVE  /\ Single' /\ run'[w] = r
           /\ \A v \in Workers : v # w => run'[v] = run[v] /\ run'[v].pc = "idle"
           /\ r.pc = "project" => Projected' = events' \ r.log
           /\ r.pc # "project" => Projected' = events'
           /\ \A v \in Workers : Syncing(v)' => v = w
<1>1. run'[w] = r /\ \A v \in Workers : v # w => run'[v] = run[v] /\ run'[v].pc = "idle"
  OBVIOUS
<1>2. Single'
  BY <1>1 DEF Single, At
<1>3. ASSUME r.pc = "project"
      PROVE  Projected' = events' \ r.log
  <2>1. {v \in Workers : At(v, "project")}' = {w}
    BY <1>1, <1>3 DEF At
  <2>2. QED
    BY <1>1, <2>1 DEF Projected
<1>4. ASSUME r.pc # "project"
      PROVE  Projected' = events'
  <2>1. {v \in Workers : At(v, "project")}' = {}
    BY <1>1, <1>4 DEF At
  <2>2. QED
    BY <2>1 DEF Projected
<1>5. \A v \in Workers : Syncing(v)' => v = w
  BY <1>1 DEF Syncing
<1>6. QED
  BY <1>1, <1>2, <1>3, <1>4, <1>5

\* The chain goes on while the tables are as they were.
LEMMA RowsMined ==
    ASSUME IndexerInv, HistoryInv, Faithful, Mined
    PROVE  Faithful' /\ HistoryInv'
<1>1. UNCHANGED <<events, run, agents, policies, receipts, reservations, positions>> /\ ChainNext
  BY DEF Mined, indexerVars, ledger, tables
<1>2. HistoryInv' /\ ChainInv'
  BY <1>1, HistoryKeeps, ChainKeeps DEF IndexerInv
<1>3. /\ head \in Nat /\ logs \subseteq logs'
      /\ \A l \in logs' : l \in logs \/ l.block = head + 1
      /\ \A l \in logs : l.block \in Nat /\ l.block <= head
      /\ events \subseteq logs
  BY <1>1, ChainKeeps DEF IndexerInv, ChainInv, AppliedOnce
<1>4. /\ Projected' = Projected /\ Projected \subseteq events
      /\ \A v \in Workers : Syncing(v)' <=> Syncing(v)
      /\ \A k, l : Before(k, l)' <=> Before(k, l)
      /\ \A l : Unpruned(l)' => Unpruned(l)
      /\ \A p, m : Settled(p, m) => Settled(p, m)'
  BY <1>1, <1>3 DEF Projected, At, Syncing, Before, Unpruned, Settled, Named
<1>5. Single' /\ RowsTyped' /\ ConfigurationRows' /\ OrderRows' /\ RestingRows'
  BY <1>1, <1>4 DEF Faithful, Single, At, RowsTyped, ConfigurationRows, LastProjected, Before, OrderRows, RestingRows
<1>6. LedgerInOrder'
  <2>1. \A l \in events, k \in logs' \ logs : ~ Before(k, l)
    BY <1>3 DEF Before
  <2>2. QED
    BY <1>1, <1>4, <2>1 DEF Faithful, LedgerInOrder
<1>7. \A v \in Workers : RunInOrder(v)'
  BY <1>1, <1>4 DEF Faithful, RunInOrder, At, ChunkEnd
<1>8. Remembered'
  <2>1. ASSUME NEW k \in events, NEW l \in logs' \ logs, k.event = "IntentAdmitted",
               l.event = "IntentReconciled", l.order = k.order
        PROVE  FALSE
    <3>1. PICK a \in logs' : a.event = "IntentAdmitted" /\ a.order = l.order /\ a.block = l.block
      BY <1>2, <2>1 DEF HistoryInv, OrdersLogged, Named
    <3>2. a = k
      BY <1>2, <1>3, <2>1, <3>1 DEF HistoryInv, OrdersLogged
    <3>3. QED
      BY <1>3, <2>1, <3>1, <3>2
  <2>2. QED
    BY <1>1, <1>4, <2>1 DEF Faithful, Remembered, At
<1>9. PositionRows'
  BY <1>1, <1>4 DEF Faithful, PositionRows, At
<1>10. OpenRows'
  <2>1. ASSUME NEW p \in Portfolios, NEW m \in Markets, Tracked(p, m), ~ Tracked(p, m)'
        PROVE  \E k \in logs' \ logs : k.event = "MarketPruned" /\ k.portfolio = p /\ k.market = m
    <3>1. PICK l \in Named("IntentReconciled") : l.portfolio = p /\ l.market = m /\ Unpruned(l)
      BY <2>1 DEF HistoryInv, MarketsLogged, Tracked
    <3>2. l \in Named("IntentReconciled")'
      BY <1>3, <3>1 DEF Named
    <3>3. ~ Unpruned(l)'
      BY <1>2, <2>1, <3>1, <3>2 DEF HistoryInv, MarketsLogged
    <3>4. QED
      BY <3>1, <3>3 DEF Unpruned, Before
  <2>2. \A p \in Portfolios, m \in Markets : Writing(p, m)' <=> Writing(p, m)
    BY <1>1 DEF Writing, At
  <2>3. QED
    BY <1>1, <1>3, <1>4, <2>1, <2>2 DEF Faithful, OpenRows
<1>11. SettledRows'
  BY <1>1, <1>4 DEF Faithful, SettledRows, At
<1>12. QED
  BY <1>2, <1>5, <1>6, <1>7, <1>8, <1>9, <1>10, <1>11 DEF Faithful

\* The rows stay true when nothing more is projected and no position is synced.
LEMMA RowsStay ==
    ASSUME Faithful, UNCHANGED <<logs, market, agents, policies, receipts, reservations, positions>>,
           Projected' = Projected, \A v \in Workers : ~ Syncing(v), \A v \in Workers : ~ Syncing(v)'
    PROVE  RowsTyped' /\ ConfigurationRows' /\ OrderRows' /\ RestingRows' /\ PositionRows' /\ OpenRows' /\ SettledRows'
<1>1. /\ \A k, l : Before(k, l)' <=> Before(k, l)
      /\ \A l : Unpruned(l)' <=> Unpruned(l)
      /\ \A p, m : Settled(p, m)' <=> Settled(p, m)
      /\ \A p, m : Tracked(p, m)' <=> Tracked(p, m)
  BY DEF Before, Unpruned, Settled, Named, Tracked
<1>2. /\ \A v \in Workers : run[v].pc # "syncWrite" /\ run'[v].pc # "syncWrite"
      /\ \A p, m : ~ Writing(p, m) /\ ~ Writing(p, m)'
  BY DEF Syncing, Writing, At
<1>3. RowsTyped' /\ ConfigurationRows' /\ OrderRows' /\ RestingRows'
  BY DEF Faithful, RowsTyped, ConfigurationRows, LastProjected, Before, OrderRows, RestingRows
<1>4. PositionRows'
  BY <1>1, <1>2 DEF Faithful, PositionRows, At
<1>5. OpenRows'
  BY <1>1, <1>2 DEF Faithful, OpenRows
<1>6. SettledRows'
  BY <1>1, <1>2 DEF Faithful, SettledRows, At
<1>7. QED
  BY <1>3, <1>4, <1>5, <1>6

\* A step of the one invocation that records and projects nothing.
LEMMA CalmMove ==
    ASSUME IndexerInv, Faithful, NEW w \in Workers, \A v \in Workers : v # w => run[v].pc = "idle",
           NEW r, run' = [run EXCEPT ![w] = r],
           UNCHANGED <<logs, market, events, agents, policies, receipts, reservations, positions>>,
           run[w].pc \notin {"project", "sync", "syncWrite"}, r.pc \notin {"project", "sync", "syncWrite"},
           r.pc = "logs" => \A l \in r.todo : r.from <= l.block /\ l.block <= ChunkEnd(w)',
           \/ run[w].pc # "logs" \/ run[w].todo = {}
           \/ r.pc = "logs" /\ r.admitted = run[w].admitted /\ run[w].todo \ r.todo \subseteq events
    PROVE  Faithful'
<1>1. run \in [Workers -> RunRecord]
  BY RunFields
<1>2. /\ Single' /\ run'[w] = r
      /\ \A v \in Workers : v # w => run'[v] = run[v] /\ run'[v].pc = "idle"
      /\ Projected' = events'
      /\ \A v \in Workers : ~ Syncing(v)'
  BY <1>1, AloneStill DEF Syncing
<1>3. Projected = events /\ \A v \in Workers : ~ Syncing(v)
  <2>1. \A v \in Workers : ~ At(v, "project") /\ ~ Syncing(v)
    BY DEF At, Syncing
  <2>2. {v \in Workers : At(v, "project")} = {}
    BY <2>1
  <2>3. QED
    BY <2>1, <2>2 DEF Projected
<1>4. RowsTyped' /\ ConfigurationRows' /\ OrderRows' /\ RestingRows' /\ PositionRows' /\ OpenRows' /\ SettledRows'
  BY <1>2, <1>3, RowsStay
<1>5. LedgerInOrder'
  BY DEF Faithful, LedgerInOrder, Before
<1>6. \A v \in Workers : RunInOrder(v)'
  BY <1>2 DEF RunInOrder, Fetched, At, Syncing
<1>7. Remembered'
  <2>1. ASSUME NEW k \in events, NEW l \in logs \ events, k.event = "IntentAdmitted",
               l.event = "IntentReconciled", l.order = k.order
        PROVE  l.order \in run'[w].admitted /\ run'[w].pc \in Fetched /\ l \in run'[w].todo
    <3>1. PICK v \in Workers : /\ l.order \in run[v].admitted
                               /\ \/ run[v].pc \in Fetched /\ l \in run[v].todo
                                  \/ At(v, "project") /\ run[v].log = {l}
      BY <1>3, <2>1 DEF Faithful, Remembered
    <3>2. v = w /\ run[w].pc = "logs" /\ l \in run[w].todo
      BY <3>1 DEF At, Fetched
    <3>3. QED
      BY <1>2, <3>1, <3>2 DEF Fetched
  <2>2. QED
    BY <1>2, <2>1 DEF Remembered
<1>8. QED
  BY <1>2, <1>4, <1>5, <1>6, <1>7 DEF Faithful

\* Without a fault an invocation begins when none is under way.
LEMMA RowsBegin ==
    ASSUME IndexerInv, RowsInv, NEW w \in Workers, Begin(w)
    PROVE  RowsInv'
<1> SUFFICES ASSUME struck' = {}
             PROVE  Faithful'
  BY DEF RowsInv
<1> DEFINE r == [run[w] EXCEPT !.pc = "cursor", !.to = head]
<1>1. /\ run' = [run EXCEPT ![w] = r] /\ r.pc = "cursor"
      /\ UNCHANGED <<logs, market, events, agents, policies, receipts, reservations, positions>>
  BY RunFields DEF Begin, chainVars, ledger, tables, RunRecord
<1>2. (\A v \in Workers : run[v].pc = "idle") /\ struck = {}
  BY DEF Begin, Strikes, Spared, At
<1> HIDE DEF r
<1>3. QED
  BY <1>1, <1>2, CalmMove DEF RowsInv

\* It learns where to go on from, or that there is nothing to do.
LEMMA RowsReadCursor ==
    ASSUME IndexerInv, RowsInv, NEW w \in Workers, ReadCursor(w)
    PROVE  RowsInv'
<1> SUFFICES ASSUME struck' = {}
             PROVE  Faithful'
  BY DEF RowsInv
<1>1. run[w].pc = "cursor" /\ struck = {}
  BY DEF ReadCursor, Strikes, Spared, At
<1>2. UNCHANGED <<logs, market, events, agents, policies, receipts, reservations, positions>>
  BY DEF ReadCursor, chainVars, ledger, tables
<1>3. PICK r : run' = [run EXCEPT ![w] = r] /\ r.pc \in {"idle", "portfolios"}
  <2>1. CASE run' = [run EXCEPT ![w] = Idle]
    <3>1. Idle.pc = "idle"
      BY DEF Idle
    <3>2. QED
      BY <2>1, <3>1
  <2>2. ASSUME NEW from, NEW to, run' = [run EXCEPT ![w].pc = "portfolios", ![w].from = from, ![w].to = to]
        PROVE  \E r : run' = [run EXCEPT ![w] = r] /\ r.pc \in {"idle", "portfolios"}
    <3> DEFINE r == [run[w] EXCEPT !.pc = "portfolios", !.from = from, !.to = to]
    <3>1. run' = [run EXCEPT ![w] = r] /\ r.pc = "portfolios"
      BY <2>2, RunFields DEF RunRecord
    <3>2. QED
      BY <3>1
  <2>3. QED
    BY <2>1, <2>2 DEF ReadCursor, Exit
<1>4. \A v \in Workers : v # w => run[v].pc = "idle"
  BY <1>1, Alone DEF RowsInv, Faithful, At
<1>5. QED
  BY <1>1, <1>2, <1>3, <1>4, CalmMove DEF RowsInv

\* It learns which portfolios are known.
LEMMA RowsLoad ==
    ASSUME IndexerInv, RowsInv, NEW w \in Workers, LoadPortfolios(w)
    PROVE  RowsInv'
<1> SUFFICES ASSUME struck' = {}
             PROVE  Faithful'
  BY DEF RowsInv
<1>1. run[w].pc = "portfolios" /\ struck = {}
  BY DEF LoadPortfolios, Strikes, Spared, At
<1>2. UNCHANGED <<logs, market, events, agents, policies, receipts, reservations, positions>>
  BY DEF LoadPortfolios, chainVars, ledger, tables
<1>3. PICK known : run' = [run EXCEPT ![w].pc = "chunk", ![w].known = known]
  BY DEF LoadPortfolios
<1> DEFINE r == [run[w] EXCEPT !.pc = "chunk", !.known = known]
<1>4. run' = [run EXCEPT ![w] = r] /\ r.pc = "chunk"
  BY <1>3, RunFields DEF RunRecord
<1> HIDE DEF r
<1>5. \A v \in Workers : v # w => run[v].pc = "idle"
  BY <1>1, Alone DEF RowsInv, Faithful, At
<1>6. QED
  BY <1>1, <1>2, <1>4, <1>5, CalmMove DEF RowsInv

\* It fetches the logs of the chunk's blocks, and no others.
LEMMA RowsDiscover ==
    ASSUME IndexerInv, RowsInv, NEW w \in Workers, Discover(w)
    PROVE  RowsInv'
<1> SUFFICES ASSUME struck' = {}
             PROVE  Faithful'
  BY DEF RowsInv
<1>1. run[w].pc = "chunk" /\ struck = {}
  BY DEF Discover, UpsertPortfolios, Strikes, Spared, At
<1>2. UNCHANGED <<logs, market, events, agents, policies, receipts, reservations, positions>>
  BY DEF Discover, chainVars, tables
<1>3. PICK known : run' = [run EXCEPT ![w].pc = "logs", ![w].known = known, ![w].admitted = {},
                                      ![w].todo = PortfolioLogs(known, run[w].from, ChunkEnd(w))]
  BY DEF Discover
<1> DEFINE todo == PortfolioLogs(known, run[w].from, ChunkEnd(w))
           r == [run[w] EXCEPT !.pc = "logs", !.known = known, !.admitted = {}, !.todo = todo]
<1>4. /\ run' = [run EXCEPT ![w] = r] /\ r.pc = "logs" /\ r.todo = todo
      /\ r.from = run[w].from /\ r.to = run[w].to /\ run'[w] = r
  BY <1>3, RunFields DEF RunRecord
<1> HIDE DEF r
<1>5. ChunkEnd(w)' = ChunkEnd(w)
  BY <1>4 DEF ChunkEnd
<1>6. \A l \in todo : run[w].from <= l.block /\ l.block <= ChunkEnd(w)
  <2>1. \A l \in logs : l.block \in Int
    BY DEF IndexerInv, ChainInv
  <2>2. run[w].from \in Int /\ ChunkEnd(w) \in Int
    BY RunFields, WorkerAssumption DEF RunRecord, ChunkEnd
  <2>3. QED
    BY <2>1, <2>2 DEF PortfolioLogs, Blocks
<1> HIDE DEF todo
<1>7. \A v \in Workers : v # w => run[v].pc = "idle"
  BY <1>1, Alone DEF RowsInv, Faithful, At
<1>8. QED
  BY <1>1, <1>2, <1>4, <1>5, <1>6, <1>7, CalmMove DEF RowsInv

\* A log that is a row already was projected before.
LEMMA RowsSkip ==
    ASSUME IndexerInv, RowsInv, NEW w \in Workers, SkipDuplicate(w)
    PROVE  RowsInv'
<1> SUFFICES ASSUME struck' = {}
             PROVE  Faithful'
  BY DEF RowsInv
<1>1. run[w].pc = "logs" /\ struck = {}
  BY DEF SkipDuplicate, At, budgets
<1>2. UNCHANGED <<logs, market, events, agents, policies, receipts, reservations, positions>>
  BY DEF SkipDuplicate, chainVars, ledger, tables
<1>3. PICK l \in events : run' = [run EXCEPT ![w].todo = @ \ {l}]
  BY DEF SkipDuplicate, Duplicate
<1> DEFINE r == [run[w] EXCEPT !.todo = @ \ {l}]
<1>4. /\ run' = [run EXCEPT ![w] = r] /\ r.pc = "logs" /\ r.todo = run[w].todo \ {l}
      /\ r.from = run[w].from /\ r.to = run[w].to /\ r.admitted = run[w].admitted /\ run'[w] = r
  BY <1>1, <1>3, RunFields DEF RunRecord
<1> HIDE DEF r
<1>5. ChunkEnd(w)' = ChunkEnd(w)
  BY <1>4 DEF ChunkEnd
<1>6. \A k \in r.todo : r.from <= k.block /\ k.block <= ChunkEnd(w)
  BY <1>1, <1>4 DEF RowsInv, Faithful, RunInOrder, Fetched
<1>7. \A v \in Workers : v # w => run[v].pc = "idle"
  BY <1>1, Alone DEF RowsInv, Faithful, At
<1>8. QED
  BY <1>1, <1>2, <1>4, <1>5, <1>6, <1>7, CalmMove DEF RowsInv

\* When nothing is left to do no order's second log is awaited.
LEMMA RowsAdvance ==
    ASSUME IndexerInv, RowsInv, NEW w \in Workers, AdvanceCursor(w)
    PROVE  RowsInv'
<1> SUFFICES ASSUME struck' = {}
             PROVE  Faithful'
  BY DEF RowsInv
<1>1. run[w].pc = "logs" /\ run[w].todo = {} /\ struck = {}
  BY DEF AdvanceCursor, WriteCursor, Strikes, Spared, At
<1>2. UNCHANGED <<logs, market, events, agents, policies, receipts, reservations, positions>>
  BY DEF AdvanceCursor, chainVars, tables
<1>3. PICK r : run' = [run EXCEPT ![w] = r] /\ r.pc \in {"idle", "chunk"}
  <2>1. CASE run' = [run EXCEPT ![w] = Idle]
    <3>1. Idle.pc = "idle"
      BY DEF Idle
    <3>2. QED
      BY <2>1, <3>1
  <2>2. CASE run' = [run EXCEPT ![w].pc = "chunk", ![w].from = ChunkEnd(w) + 1]
    <3> DEFINE r == [run[w] EXCEPT !.pc = "chunk", !.from = ChunkEnd(w) + 1]
    <3>1. run' = [run EXCEPT ![w] = r] /\ r.pc = "chunk"
      BY <2>2, RunFields DEF RunRecord
    <3>2. QED
      BY <3>1
  <2>3. QED
    BY <2>1, <2>2 DEF AdvanceCursor, Exit
<1>4. \A v \in Workers : v # w => run[v].pc = "idle"
  BY <1>1, Alone DEF RowsInv, Faithful, At
<1>5. QED
  BY <1>1, <1>2, <1>3, <1>4, CalmMove DEF RowsInv

\* The log that is recorded is the last one of those recorded so far.
LEMMA RowsRecord ==
    ASSUME IndexerInv, HistoryInv, RowsInv, NEW w \in Workers, RecordEvent(w)
    PROVE  RowsInv'
<1> SUFFICES ASSUME struck' = {}
             PROVE  Faithful'
  BY DEF RowsInv
<1>1. /\ run[w].pc = "logs" /\ Faithful
      /\ UNCHANGED <<logs, market, agents, policies, receipts, reservations, positions>>
  BY DEF RecordEvent, budgets, RowsInv, At, chainVars, tables
<1>2. PICK l \in run[w].todo :
        /\ IsNext(w, l) /\ l \notin events /\ events' = events \cup {l}
        /\ run' = [run EXCEPT ![w].pc = "project", ![w].todo = @ \ {l}, ![w].log = {l},
                              ![w].admitted = IF l.event = "IntentAdmitted" THEN @ \cup {l.order} ELSE @]
  BY DEF RecordEvent, Duplicate, InsertEvent
<1> DEFINE r == [run[w] EXCEPT !.pc = "project", !.todo = @ \ {l}, !.log = {l},
                               !.admitted = IF l.event = "IntentAdmitted" THEN @ \cup {l.order} ELSE @]
<1>3. /\ run' = [run EXCEPT ![w] = r] /\ r.pc = "project" /\ r.todo = run[w].todo \ {l} /\ r.log = {l}
      /\ r.from = run[w].from /\ r.to = run[w].to
      /\ run[w].admitted \subseteq r.admitted
      /\ l.event = "IntentAdmitted" => l.order \in r.admitted
  BY <1>2, RunFields DEF RunRecord
<1> HIDE DEF r
<1>4. /\ \A v \in Workers : v # w => run[v].pc = "idle"
      /\ \A v \in Workers : Syncing(v) => v = w
      /\ Projected = events
  BY <1>1, Alone DEF Faithful, At
<1>5. /\ Single' /\ run'[w] = r
      /\ \A v \in Workers : v # w => run'[v] = run[v] /\ run'[v].pc = "idle"
      /\ \A v \in Workers : Syncing(v)' => v = w
      /\ Projected' = events' \ r.log
  BY <1>3, <1>4, RunFields, AloneStill
<1>6. Projected' = events /\ (\A v \in Workers : ~ Syncing(v)) /\ \A v \in Workers : ~ Syncing(v)'
  BY <1>1, <1>2, <1>3, <1>4, <1>5 DEF Syncing
<1>7. RowsTyped' /\ ConfigurationRows' /\ OrderRows' /\ RestingRows' /\ PositionRows' /\ OpenRows' /\ SettledRows'
  BY <1>1, <1>4, <1>6, RowsStay
<1>8. /\ l \in logs /\ l.event # "PortfolioCreated" /\ events \subseteq logs
      /\ run[w].from <= l.block /\ l.block <= ChunkEnd(w)
  BY <1>1, <1>2, RunFields DEF IndexerInv, AppliedOnce, RunCovers, Fetched, Faithful, RunInOrder, RunRecord
<1>9. /\ OwnLogs(1, run[w].from - 1) \subseteq events
      /\ OwnLogs(run[w].from, ChunkEnd(w)) \subseteq events \cup run[w].todo
  BY <1>1 DEF IndexerInv, RunCovers, Ranged, Fetched
<1>10. /\ \A k \in logs : 1 <= k.block /\ k.block \in Int
       /\ run[w].from \in Int /\ ChunkEnd(w) \in Int
  BY RunFields, WorkerAssumption DEF IndexerInv, ChainInv, ChunkEnd, RunRecord
<1>11. ASSUME NEW k \in logs, k.event # "PortfolioCreated", Before(k, l)
       PROVE  k \in events
  <2>1. k.block <= l.block
    BY <1>8, <1>10, <1>11 DEF Before
  <2>2. k \in OwnLogs(1, run[w].from - 1) \/ k \in OwnLogs(run[w].from, ChunkEnd(w))
    BY <1>8, <1>10, <1>11, <2>1 DEF OwnLogs
  <2>3. QED
    BY <1>2, <1>9, <1>11, <2>2 DEF IsNext
<1>12. LedgerInOrder'
  <2>1. \A k, m : Before(k, m)' <=> Before(k, m)
    BY DEF Before
  <2>2. QED
    BY <1>1, <1>2, <1>8, <1>11, <2>1 DEF Faithful, LedgerInOrder
<1>13. \A k \in events' : ~ Before(l, k)
  <2>1. \A k \in events : ~ Before(l, k)
    BY <1>1, <1>2, <1>8 DEF Faithful, LedgerInOrder
  <2>2. ~ Before(l, l)
    BY <1>8, OneFirst DEF HistoryInv
  <2>3. QED
    BY <1>2, <2>1, <2>2
<1>14. \A v \in Workers : RunInOrder(v)'
  <2>1. ChunkEnd(w)' = ChunkEnd(w)
    BY <1>3, <1>5 DEF ChunkEnd
  <2>2. \A k \in r.todo : r.from <= k.block /\ k.block <= ChunkEnd(w)
    BY <1>1, <1>3 DEF Faithful, RunInOrder, Fetched
  <2>3. \E k \in events' : r.log = {k} /\ \A m \in events' : ~ Before(k, m)
    BY <1>2, <1>3, <1>13
  <2>4. RunInOrder(w)'
    BY <1>3, <1>5, <1>6, <2>1, <2>2, <2>3 DEF RunInOrder, Before
  <2>5. \A v \in Workers : v # w => RunInOrder(v)'
    BY <1>5, <1>6 DEF RunInOrder, Fetched, At
  <2>6. QED
    BY <2>4, <2>5
<1>15. Remembered'
  <2>1. ASSUME NEW k \in events', NEW x \in logs \ events, k.event = "IntentAdmitted",
               x.event = "IntentReconciled", x.order = k.order
        PROVE  x.order \in run'[w].admitted /\ (x \in run'[w].todo \/ run'[w].log = {x})
    <3>1. CASE k = l
      <4>1. PICK a \in logs : a.event = "IntentAdmitted" /\ a.order = x.order /\ a.block = x.block
        BY <2>1 DEF HistoryInv, OrdersLogged, Named
      <4>2. a = l
        BY <1>8, <2>1, <3>1, <4>1 DEF HistoryInv, OrdersLogged
      <4>3. x \in OwnLogs(run[w].from, ChunkEnd(w))
        BY <1>8, <2>1, <4>1, <4>2 DEF OwnLogs
      <4>4. x \in run'[w].todo
        BY <1>3, <1>5, <1>9, <2>1, <3>1, <4>3
      <4>5. QED
        BY <1>3, <1>5, <2>1, <3>1, <4>4
    <3>2. CASE k \in events
      <4>1. PICK v \in Workers : /\ x.order \in run[v].admitted
                                 /\ \/ run[v].pc \in Fetched /\ x \in run[v].todo
                                    \/ At(v, "project") /\ run[v].log = {x}
        BY <1>1, <1>4, <2>1, <3>2 DEF Faithful, Remembered
      <4>2. v = w /\ x \in run[w].todo
        BY <1>1, <1>4, <4>1 DEF At, Fetched
      <4>3. QED
        BY <1>3, <1>5, <4>1, <4>2
    <3>3. QED
      BY <1>2, <2>1, <3>1, <3>2
  <2>2. QED
    BY <1>1, <1>3, <1>5, <1>6, <2>1 DEF Remembered, At, Fetched
<1>16. QED
  BY <1>5, <1>7, <1>12, <1>14, <1>15 DEF Faithful

\* The log under way is the last one recorded, and the only one not projected.
Projects(w, l) == w \in Workers /\ l \in events /\ At(w, "project") /\ run[w].log = {l}

\* What an invocation may rely on while it projects a log
LEMMA ProjectionIs ==
    ASSUME IndexerInv, HistoryInv, Faithful, NEW w, NEW l, Projects(w, l)
    PROVE  /\ \A v \in Workers : v # w => run[v].pc = "idle"
           /\ \A v \in Workers : ~ Syncing(v)
           /\ l \in logs /\ events \subseteq logs /\ l.portfolio \in Portfolios
           /\ Projected = events \ {l} /\ events = Projected \cup {l} /\ l \notin Projected
           /\ ~ Before(l, l)
           /\ \A k \in Projected : Before(k, l) /\ ~ Before(l, k)
<1>1. At(w, "project") /\ ~ At(w, "idle") /\ w \in Workers /\ l \in events /\ run[w].log = {l} /\ Single
  BY DEF Projects, At, Faithful
<1>2. /\ \A v \in Workers : v # w => run[v].pc = "idle"
      /\ \A v \in Workers : Syncing(v) => v = w
      /\ Projected = events \ {l}
  BY <1>1, Alone
<1>3. events \subseteq logs /\ l \in logs /\ l.portfolio \in Portfolios
  BY <1>1 DEF IndexerInv, AppliedOnce, ChainInv
<1>4. \A k \in events : ~ Before(l, k)
  BY <1>1 DEF Faithful, RunInOrder
<1>5. \A k \in Projected : Before(k, l)
  BY <1>2, <1>3, <1>4, OneFirst DEF HistoryInv
<1>6. QED
  BY <1>1, <1>2, <1>3, <1>4, <1>5 DEF At, Syncing

\* Where it goes on from there
Onward(w, l, r) ==
  /\ run' = [run EXCEPT ![w] = r]
  /\ r.todo = run[w].todo /\ r.from = run[w].from /\ r.to = run[w].to /\ r.admitted = run[w].admitted
  /\ \/ r.pc = "logs"
     \/ r.pc = "sync" /\ r.log = {l} /\ l.event \in {"IntentReconciled", "ReservationReleased"}

\* The two ways on, as a new record of the invocation
LEMMA OnwardIs ==
    ASSUME IndexerInv, NEW w, NEW l, Projects(w, l)
    PROVE  /\ Continue(w) => \E r : Onward(w, l, r) /\ r.pc = "logs"
           /\ Goto(w, "sync") /\ l.event \in {"IntentReconciled", "ReservationReleased"} =>
                \E r : Onward(w, l, r) /\ r.pc = "sync"
<1>1. run \in [Workers -> RunRecord] /\ run[w] \in RunRecord /\ run[w].log = {l} /\ w \in Workers
  BY RunFields DEF Projects
<1>2. ASSUME Continue(w)
      PROVE  \E r : Onward(w, l, r) /\ r.pc = "logs"
  <2> DEFINE r == [run[w] EXCEPT !.pc = "logs", !.log = {}, !.settled = FALSE]
  <2>1. Onward(w, l, r) /\ r.pc = "logs"
    BY <1>1, <1>2 DEF Onward, Continue, RunRecord
  <2>2. QED
    BY <2>1
<1>3. ASSUME Goto(w, "sync"), l.event \in {"IntentReconciled", "ReservationReleased"}
      PROVE  \E r : Onward(w, l, r) /\ r.pc = "sync"
  <2> DEFINE r == [run[w] EXCEPT !.pc = "sync"]
  <2>1. Onward(w, l, r) /\ r.pc = "sync"
    BY <1>1, <1>3 DEF Onward, Goto, RunRecord
  <2>2. QED
    BY <2>1
<1>4. QED
  BY <1>2, <1>3

\* Whatever it has projected, it goes on in order and remembers its orders.
LEMMA OnwardKeeps ==
    ASSUME IndexerInv, HistoryInv, Faithful, NEW w, NEW l, Projects(w, l), NEW r, Onward(w, l, r),
           UNCHANGED <<logs, events>>
    PROVE  /\ Single' /\ LedgerInOrder' /\ (\A v \in Workers : RunInOrder(v)') /\ Remembered'
           /\ Projected' = Projected \cup {l} /\ run'[w] = r
           /\ \A v \in Workers : run'[v].pc # "syncWrite"
<1>1. /\ \A v \in Workers : v # w => run[v].pc = "idle"
      /\ \A v \in Workers : ~ Syncing(v)
      /\ Projected = events \ {l} /\ events = Projected \cup {l} /\ l \in events
      /\ \A k \in Projected : ~ Before(l, k)
      /\ ~ Before(l, l)
      /\ w \in Workers /\ At(w, "project") /\ run[w].log = {l}
  BY ProjectionIs DEF Projects
<1>2. r.pc \in {"logs", "sync"} /\ run' = [run EXCEPT ![w] = r]
  BY DEF Onward
<1>3. /\ Single' /\ run'[w] = r
      /\ \A v \in Workers : v # w => run'[v] = run[v] /\ run'[v].pc = "idle"
      /\ Projected' = events'
  BY <1>1, <1>2, RunFields, AloneStill
<1>4. LedgerInOrder'
  BY DEF Faithful, LedgerInOrder, Before
<1>5. \A v \in Workers : RunInOrder(v)'
  <2>1. ChunkEnd(w)' = ChunkEnd(w)
    BY <1>3 DEF ChunkEnd, Onward
  <2>2. \A k \in r.todo : r.from <= k.block /\ k.block <= ChunkEnd(w)
    BY <1>1 DEF Faithful, RunInOrder, Onward, Fetched, At
  <2>3. \A k \in events' : ~ Before(l, k)'
    BY <1>1 DEF Before
  <2>4. RunInOrder(w)'
    BY <1>1, <1>3, <2>1, <2>2, <2>3 DEF RunInOrder, Onward, At, Syncing, Fetched
  <2>5. \A v \in Workers : v # w => RunInOrder(v)'
    BY <1>3 DEF RunInOrder, Fetched, At, Syncing
  <2>6. QED
    BY <2>4, <2>5
<1>6. Remembered'
  <2>1. ASSUME NEW k \in events, NEW x \in logs \ events, k.event = "IntentAdmitted",
               x.event = "IntentReconciled", x.order = k.order
        PROVE  x.order \in run'[w].admitted /\ x \in run'[w].todo
    <3>1. PICK v \in Workers : /\ x.order \in run[v].admitted
                               /\ \/ run[v].pc \in Fetched /\ x \in run[v].todo
                                  \/ At(v, "project") /\ run[v].log = {x}
      BY <1>1, <2>1 DEF Faithful, Remembered
    <3>2. v = w /\ x # l
      BY <1>1, <2>1, <3>1 DEF At, Fetched
    <3>3. QED
      BY <1>1, <1>3, <3>1, <3>2 DEF Onward
  <2>2. run'[w].pc \in Fetched /\ w \in Workers /\ events' = events /\ logs' = logs /\ Projected' = events
    BY <1>1, <1>2, <1>3 DEF Fetched
  <2>3. QED
    BY <2>1, <2>2 DEF Remembered
<1>7. QED
  BY <1>1, <1>2, <1>3, <1>4, <1>5, <1>6

\* What the log under way is not about stays as it is.
LEMMA ConfigurationStays ==
    ASSUME Faithful, NEW l, l.event \notin {"AgentSet", "AgentRevoked", "DomainPolicySet"},
           Projected' = Projected \cup {l}, UNCHANGED <<agents, policies>>
    PROVE  ConfigurationRows'
<1>1. \A k, names : names \subseteq {"AgentSet", "AgentRevoked", "DomainPolicySet"} =>
        (LastProjected(k, names)' <=> LastProjected(k, names))
  BY DEF LastProjected, Before
<1>2. \A k \in Projected' : k.event \in {"AgentSet", "DomainPolicySet"} => k \in Projected
  OBVIOUS
<1>3. QED
  BY <1>1, <1>2 DEF Faithful, ConfigurationRows

\* The rows of the orders
LEMMA OrdersRowsStay ==
    ASSUME Faithful, NEW l, l.event \notin OrderEvents,
           Projected' = Projected \cup {l}, UNCHANGED <<receipts, reservations>>
    PROVE  OrderRows' /\ RestingRows'
BY DEF Faithful, OrderRows, RestingRows, OrderEvents

\* The rows of the positions; those of a log that is to be synced await it.
LEMMA PositionsStay ==
    ASSUME Faithful, NEW l, l.event \notin {"SettledExposureReleased", "MarketPruned"},
           Projected' = Projected \cup {l}, UNCHANGED <<logs, market, positions>>,
           \A v \in Workers : ~ Syncing(v), \A v \in Workers : run'[v].pc # "syncWrite",
           l.event = "IntentReconciled" => \E v \in Workers : Syncing(v)' /\ run'[v].log = {l}
    PROVE  PositionRows' /\ OpenRows' /\ SettledRows'
<1>1. /\ \A k : Unpruned(k)' <=> Unpruned(k)
      /\ \A p, m : Settled(p, m)' <=> Settled(p, m)
      /\ \A p, m : Tracked(p, m)' <=> Tracked(p, m)
      /\ \A p, m : ~ Writing(p, m)'
  BY DEF Before, Unpruned, Settled, Named, Tracked, Writing, At
<1>2. PositionRows'
  BY <1>1 DEF Faithful, PositionRows, At
<1>3. OpenRows'
  BY <1>1 DEF Faithful, OpenRows
<1>4. SettledRows'
  BY <1>1 DEF Faithful, SettledRows, At
<1>5. QED
  BY <1>2, <1>3, <1>4

\* The last setting recorded is the last one projected.
LEMMA RowsConfiguration ==
    ASSUME IndexerInv, HistoryInv, RowsInv, NEW w \in Workers, ProjectConfiguration(w)
    PROVE  RowsInv'
<1> SUFFICES ASSUME struck' = {}
             PROVE  Faithful'
  BY DEF RowsInv
<1>1. /\ Faithful /\ Continue(w)
      /\ UNCHANGED <<logs, market, events, receipts, reservations, positions>>
  BY DEF ProjectConfiguration, RowsInv, budgets, chainVars
<1>2. PICK l \in events : /\ Projecting(w, l, {"AgentSet", "AgentRevoked", "DomainPolicySet", "Initialized"})
                          /\ agents' = [agents EXCEPT ![l.portfolio] = AgentRow(l)]
                          /\ policies' = [policies EXCEPT ![l.portfolio] = DomainPolicyRow(l)]
  BY DEF ProjectConfiguration
<1> DEFINE p == l.portfolio
<1>3. Projects(w, l) /\ l.event \in {"AgentSet", "AgentRevoked", "DomainPolicySet", "Initialized"}
  BY <1>2 DEF Projects, Projecting
<1>4. PICK r : Onward(w, l, r)
  BY <1>1, <1>3, OnwardIs
<1>5. /\ Single' /\ LedgerInOrder' /\ (\A v \in Workers : RunInOrder(v)') /\ Remembered'
      /\ Projected' = Projected \cup {l}
      /\ \A v \in Workers : run'[v].pc # "syncWrite"
  BY <1>1, <1>3, <1>4, OnwardKeeps
<1>6. /\ l \in logs /\ p \in Portfolios /\ l \notin Projected
      /\ \A v \in Workers : ~ Syncing(v)
      /\ ~ Before(l, l)
      /\ \A k \in Projected : Before(k, l) /\ ~ Before(l, k)
  BY <1>1, <1>3, ProjectionIs
<1>7. /\ agents \in [Portfolios -> {"none", "enabled", "revoked"}] /\ policies \in [Portfolios -> Nat]
      /\ l.qty \in Nat
  BY <1>1, <1>6 DEF Faithful, RowsTyped, HistoryInv, LogsNumbered, Log
<1>8. RowsTyped'
  <2>1. AgentRow(l) \in {"none", "enabled", "revoked"} /\ DomainPolicyRow(l) \in Nat
    BY <1>3, <1>6, <1>7 DEF AgentRow, DomainPolicyRow
  <2>2. agents' \in [Portfolios -> {"none", "enabled", "revoked"}] /\ policies' \in [Portfolios -> Nat]
    BY <1>2, <1>7, <2>1
  <2>3. QED
    BY <1>1, <2>2 DEF Faithful, RowsTyped
<1>9. \A k, names : (k.portfolio # p \/ l.event \notin names) => (LastProjected(k, names)' <=> LastProjected(k, names))
  BY <1>5 DEF LastProjected, Before
<1>10. \A names : /\ LastProjected(l, names)'
                  /\ l.event \in names => \A k \in Projected : k.portfolio = p => ~ LastProjected(k, names)'
  BY <1>5, <1>6 DEF LastProjected, Before
<1>11. ASSUME NEW a \in Portfolios
       PROVE  agents'[a] = "enabled" <=>
                \E k \in Projected' : k.event = "AgentSet" /\ k.portfolio = a /\ LastProjected(k, {"AgentSet", "AgentRevoked"})'
  <2> DEFINE Last(k) == k.event = "AgentSet" /\ k.portfolio = a /\ LastProjected(k, {"AgentSet", "AgentRevoked"})
             Set == \E k \in Projected : Last(k)
  <2>1. agents[a] = "enabled" <=> Set
    BY <1>1 DEF Faithful, ConfigurationRows
  <2>2. CASE a # p \/ l.event \notin {"AgentSet", "AgentRevoked"}
    <3>1. agents'[a] = agents[a]
      BY <1>2, <1>6, <1>7, <2>2 DEF AgentRow
    <3>2. \A k \in Projected : Last(k)' <=> Last(k)
      BY <1>9, <2>2
    <3>3. ~ (l.event = "AgentSet" /\ l.portfolio = a)
      BY <2>2
    <3>4. QED
      BY <1>5, <2>1, <3>1, <3>2, <3>3
  <2>3. CASE a = p /\ l.event = "AgentSet"
    <3>1. agents'[a] = "enabled"
      BY <1>2, <1>6, <1>7, <2>3 DEF AgentRow
    <3>2. QED
      BY <1>5, <1>10, <2>3, <3>1
  <2>4. CASE a = p /\ l.event = "AgentRevoked"
    <3>1. agents'[a] # "enabled"
      BY <1>2, <1>6, <1>7, <2>4 DEF AgentRow
    <3>2. \A k \in Projected' : ~ (k.event = "AgentSet" /\ k.portfolio = a /\ LastProjected(k, {"AgentSet", "AgentRevoked"})')
      BY <1>5, <1>10, <2>4
    <3>3. QED
      BY <3>1, <3>2
  <2>5. QED
    BY <2>2, <2>3, <2>4
<1>12. ASSUME NEW k \in Projected', k.event = "DomainPolicySet", LastProjected(k, {"DomainPolicySet"})'
       PROVE  policies'[k.portfolio] = k.qty
  <2>1. CASE k = l
    BY <1>2, <1>6, <1>7, <1>12, <2>1 DEF DomainPolicyRow
  <2>2. CASE k # l
    <3>1. k \in Projected /\ (k.portfolio # p \/ l.event # "DomainPolicySet")
      BY <1>5, <1>10, <1>12, <2>2
    <3>2. policies[k.portfolio] = k.qty
      BY <1>1, <1>9, <1>12, <3>1 DEF Faithful, ConfigurationRows
    <3>3. k.portfolio \in Portfolios
      BY <1>1, <3>1 DEF Projected, IndexerInv, AppliedOnce, ChainInv
    <3>4. policies'[k.portfolio] = policies[k.portfolio]
      BY <1>2, <1>6, <1>7, <3>1, <3>3 DEF DomainPolicyRow
    <3>5. QED
      BY <3>2, <3>4
  <2>3. QED
    BY <2>1, <2>2
<1>13. ConfigurationRows'
  BY <1>11, <1>12 DEF ConfigurationRows
<1>14. OrderRows' /\ RestingRows'
  BY <1>1, <1>3, <1>5, OrdersRowsStay DEF OrderEvents
<1>15. PositionRows' /\ OpenRows' /\ SettledRows'
  BY <1>1, <1>3, <1>5, <1>6, PositionsStay
<1>16. QED
  BY <1>5, <1>8, <1>13, <1>14, <1>15 DEF Faithful

\* An intent's row is there before its receipt.
LEMMA RowsAdmission ==
    ASSUME IndexerInv, HistoryInv, RowsInv, NEW w \in Workers, ProjectAdmission(w)
    PROVE  RowsInv'
<1> SUFFICES ASSUME struck' = {}
             PROVE  Faithful'
  BY DEF RowsInv
<1>1. /\ Faithful /\ Continue(w)
      /\ UNCHANGED <<logs, market, events, agents, policies, reservations, positions>>
  BY DEF ProjectAdmission, RowsInv, budgets, chainVars
<1>2. PICK l \in events : /\ Projecting(w, l, {"MarketTracked", "IntentAdmitted"})
                          /\ UpsertIntent(l)
  BY DEF ProjectAdmission
<1>3. Projects(w, l) /\ l.event \in {"MarketTracked", "IntentAdmitted"}
  BY <1>2 DEF Projects, Projecting
<1>4. PICK r : Onward(w, l, r)
  BY <1>1, <1>3, OnwardIs
<1>5. /\ Single' /\ LedgerInOrder' /\ (\A v \in Workers : RunInOrder(v)') /\ Remembered'
      /\ Projected' = Projected \cup {l}
      /\ \A v \in Workers : run'[v].pc # "syncWrite"
  BY <1>1, <1>3, <1>4, OnwardKeeps
<1>6. l \in logs /\ \A v \in Workers : ~ Syncing(v)
  BY <1>1, <1>3, ProjectionIs
<1>7. receipts \in [Orders -> [intent : BOOLEAN, receipt : {"none", "bare", "full"}]]
  BY <1>1 DEF Faithful, RowsTyped
<1>8. /\ receipts' \in [Orders -> [intent : BOOLEAN, receipt : {"none", "bare", "full"}]]
      /\ \A o \in Orders : /\ receipts'[o].receipt = receipts[o].receipt
                           /\ receipts[o].intent => receipts'[o].intent
      /\ l.event = "IntentAdmitted" => receipts'[l.order].intent
  <2>1. CASE l.event = "IntentAdmitted"
    <3>1. receipts' = [receipts EXCEPT ![l.order].intent = TRUE] /\ l.order \in Orders
      BY <1>2, <1>6, <2>1 DEF UpsertIntent, HistoryInv, OrdersLogged, OrderEvents
    <3>2. QED
      BY <1>7, <3>1
  <2>2. CASE l.event # "IntentAdmitted"
    BY <1>2, <1>7, <2>2 DEF UpsertIntent
  <2>3. QED
    BY <2>1, <2>2
<1>9. RowsTyped'
  BY <1>1, <1>8 DEF Faithful, RowsTyped
<1>10. OrderRows'
  <2>1. \A k \in Projected : k.event \in OrderEvents => k.order \in Orders
    BY DEF Projected, IndexerInv, AppliedOnce, HistoryInv, OrdersLogged
  <2>2. QED
    BY <1>1, <1>3, <1>5, <1>8, <2>1 DEF Faithful, OrderRows, OrderEvents
<1>11. RestingRows'
  BY <1>1, <1>3, <1>5 DEF Faithful, RestingRows
<1>12. ConfigurationRows'
  BY <1>1, <1>3, <1>5, ConfigurationStays
<1>13. PositionRows' /\ OpenRows' /\ SettledRows'
  BY <1>1, <1>3, <1>5, <1>6, PositionsStay
<1>14. QED
  BY <1>5, <1>9, <1>10, <1>11, <1>12, <1>13 DEF Faithful

\* The order's intent was projected, by the same invocation, just before.
LEMMA RowsReconciled ==
    ASSUME IndexerInv, HistoryInv, RowsInv, NEW w \in Workers, ProjectReconciled(w)
    PROVE  RowsInv'
<1> SUFFICES ASSUME struck' = {}
             PROVE  Faithful'
  BY DEF RowsInv
<1>1. Faithful /\ UNCHANGED <<logs, market, events, agents, policies, positions>>
  BY DEF ProjectReconciled, RowsInv, budgets, chainVars
<1>2. PICK l \in events :
        LET o == l.order
            placed == receipts[o].intent /\ o \in run[w].admitted
        IN /\ Projecting(w, l, {"IntentReconciled"})
           /\ UpsertReceipt(o)
           /\ UpsertReservation(o, IF placed THEN l.qty ELSE 0)
           /\ IF placed THEN Goto(w, "sync") ELSE Continue(w)
  BY DEF ProjectReconciled
<1> DEFINE o == l.order
<1>3. Projects(w, l) /\ l.event = "IntentReconciled"
  BY <1>2 DEF Projects, Projecting
<1>4. /\ \A v \in Workers : v # w => run[v].pc = "idle"
      /\ \A v \in Workers : ~ Syncing(v)
      /\ l \in logs /\ events \subseteq logs /\ l \notin Projected
      /\ Projected = events \ {l} /\ events = Projected \cup {l}
      /\ \A k \in Projected : ~ Before(l, k)
  BY <1>1, <1>3, ProjectionIs
<1>5. o \in Orders /\ l.qty \in Nat
  BY <1>3, <1>4 DEF HistoryInv, OrdersLogged, OrderEvents, LogsNumbered, Log
<1>6. PICK a \in Projected : a.event = "IntentAdmitted" /\ a.order = o
  <2>1. PICK a \in logs : a.event = "IntentAdmitted" /\ a.order = o /\ a.block = l.block /\ a.index < l.index
    BY <1>3, <1>4 DEF HistoryInv, OrdersLogged, Named
  <2>2. Before(a, l) /\ a # l
    BY <1>3, <2>1 DEF Before
  <2>3. a \in events
    BY <1>1, <1>3, <2>1, <2>2 DEF Faithful, LedgerInOrder, Projects
  <2>4. QED
    BY <1>4, <2>1, <2>2, <2>3
<1>7. receipts[o].intent /\ o \in run[w].admitted
  <2>1. receipts[o].intent
    BY <1>1, <1>6 DEF Faithful, OrderRows
  <2>2. PICK v \in Workers : /\ o \in run[v].admitted
                             /\ run[v].pc \in Fetched \/ At(v, "project")
    BY <1>1, <1>3, <1>4, <1>6 DEF Faithful, Remembered
  <2>3. v = w
    BY <1>4, <2>2 DEF Fetched, At
  <2>4. QED
    BY <2>1, <2>2, <2>3
<1>8. /\ Goto(w, "sync")
      /\ receipts' = [receipts EXCEPT ![o].receipt = "full"]
      /\ reservations' = IF l.qty > 0 THEN [reservations EXCEPT ![o] = [state |-> "RESTING", qty |-> l.qty]]
                         ELSE reservations
  BY <1>2, <1>7 DEF UpsertReceipt, UpsertReservation
<1>9. PICK r : Onward(w, l, r) /\ r.pc = "sync"
  BY <1>1, <1>3, <1>8, OnwardIs
<1>10. /\ Single' /\ LedgerInOrder' /\ (\A v \in Workers : RunInOrder(v)') /\ Remembered'
       /\ Projected' = Projected \cup {l} /\ run'[w] = r
       /\ \A v \in Workers : run'[v].pc # "syncWrite"
  BY <1>1, <1>3, <1>9, OnwardKeeps
<1>11. /\ receipts \in [Orders -> [intent : BOOLEAN, receipt : {"none", "bare", "full"}]]
       /\ reservations \in [Orders -> [state : {"none", "RESTING", "FINALIZED"}, qty : Nat]]
  BY <1>1 DEF Faithful, RowsTyped
<1>12. /\ receipts' \in [Orders -> [intent : BOOLEAN, receipt : {"none", "bare", "full"}]]
       /\ \A i \in Orders : /\ receipts'[i].intent = receipts[i].intent
                            /\ receipts[i].receipt = "full" => receipts'[i].receipt = "full"
       /\ receipts'[o].receipt = "full"
  BY <1>5, <1>8, <1>11
<1>13. /\ reservations' \in [Orders -> [state : {"none", "RESTING", "FINALIZED"}, qty : Nat]]
       /\ \A i \in Orders : i # o => reservations'[i] = reservations[i]
       /\ l.qty > 0 => reservations'[o].state = "RESTING" /\ reservations'[o].qty = l.qty
       /\ ~ l.qty > 0 => reservations' = reservations
  BY <1>5, <1>8, <1>11
<1>14. RowsTyped'
  BY <1>1, <1>12, <1>13 DEF Faithful, RowsTyped
<1>15. OrderRows'
  <2>1. \A k \in Projected : k.event \in OrderEvents => k.order \in Orders
    BY DEF Projected, IndexerInv, AppliedOnce, HistoryInv, OrdersLogged
  <2>2. \A i \in Orders : reservations[i].state # "none" => reservations'[i].state # "none"
    BY <1>5, <1>13
  <2>3. ASSUME NEW k \in Projected
        PROVE  /\ k.event = "IntentAdmitted" => receipts'[k.order].intent
               /\ k.event = "IntentReconciled" => receipts'[k.order].receipt = "full"
               /\ k.event = "IntentReconciled" /\ k.qty > 0 => reservations'[k.order].state # "none"
    BY <1>1, <1>12, <2>1, <2>2 DEF Faithful, OrderRows, OrderEvents
  <2>4. /\ l.event # "IntentAdmitted" /\ receipts'[l.order].receipt = "full"
        /\ l.qty > 0 => reservations'[l.order].state # "none"
    BY <1>3, <1>12, <1>13
  <2>5. QED
    BY <1>10, <2>3, <2>4 DEF OrderRows
<1>16. RestingRows'
  <2>1. ASSUME NEW k \in Projected, k.event = "ReservationReleased", k.order = o
        PROVE  FALSE
    <3>1. PICK x \in logs : x.event = "IntentReconciled" /\ x.order = o /\ Before(x, k)
      BY <1>4, <2>1 DEF HistoryInv, OrdersLogged, Named
    <3>2. x = l
      BY <1>3, <1>4, <3>1 DEF HistoryInv, OrdersLogged
    <3>3. QED
      BY <1>4, <2>1, <3>1, <3>2
  <2>2. ASSUME NEW i \in Orders, reservations'[i].state = "RESTING"
        PROVE  /\ \E k \in Projected' : k.event = "IntentReconciled" /\ k.order = i /\ k.qty = reservations'[i].qty
               /\ \A k \in Projected' : k.event = "ReservationReleased" => k.order # i
    <3>1. CASE i = o /\ l.qty > 0
      BY <1>3, <1>10, <1>13, <2>1, <3>1
    <3>2. CASE ~ (i = o /\ l.qty > 0)
      <4>1. reservations'[i] = reservations[i]
        BY <1>13, <3>2
      <4>2. /\ \E k \in Projected : k.event = "IntentReconciled" /\ k.order = i /\ k.qty = reservations[i].qty
            /\ \A k \in Projected : k.event = "ReservationReleased" => k.order # i
        BY <1>1, <2>2, <4>1 DEF Faithful, RestingRows
      <4>3. QED
        BY <1>3, <1>10, <4>1, <4>2
    <3>3. QED
      BY <3>1, <3>2
  <2>3. QED
    BY <2>2 DEF RestingRows
<1>17. ConfigurationRows'
  BY <1>1, <1>3, <1>10, ConfigurationStays
<1>18. PositionRows' /\ OpenRows' /\ SettledRows'
  <2>1. Syncing(w)' /\ run'[w].log = {l}
    BY <1>9, <1>10 DEF Syncing, Onward
  <2>2. QED
    BY <1>1, <1>3, <1>4, <1>10, <2>1, PositionsStay
<1>19. QED
  BY <1>10, <1>14, <1>15, <1>16, <1>17, <1>18 DEF Faithful

\* A release finalizes a row that may be there, and it stays so.
LEMMA RowsReleased ==
    ASSUME IndexerInv, HistoryInv, RowsInv, NEW w \in Workers, ProjectReleased(w)
    PROVE  RowsInv'
<1> SUFFICES ASSUME struck' = {}
             PROVE  Faithful'
  BY DEF RowsInv
<1>1. /\ struck = {} /\ Goto(w, "sync")
      /\ UNCHANGED <<logs, market, events, agents, policies, receipts, positions>>
  BY DEF ProjectReleased, Strikes, Spared, chainVars
<1>2. PICK l \in events : /\ Projecting(w, l, {"ReservationReleased"})
                          /\ reservations' = [reservations EXCEPT ![l.order] = Finalized(@)]
  BY DEF ProjectReleased, Strikes
<1> DEFINE o == l.order
<1>3. Projects(w, l) /\ l.event = "ReservationReleased" /\ Faithful
  BY <1>1, <1>2 DEF Projects, Projecting, RowsInv
<1>4. l \in logs /\ \A v \in Workers : ~ Syncing(v)
  BY <1>3, ProjectionIs
<1>5. PICK r : Onward(w, l, r)
  BY <1>1, <1>3, OnwardIs
<1>6. /\ Single' /\ LedgerInOrder' /\ (\A v \in Workers : RunInOrder(v)') /\ Remembered'
      /\ Projected' = Projected \cup {l}
      /\ \A v \in Workers : run'[v].pc # "syncWrite"
  BY <1>1, <1>3, <1>5, OnwardKeeps
<1>7. o \in Orders /\ reservations \in [Orders -> [state : {"none", "RESTING", "FINALIZED"}, qty : Nat]]
  BY <1>3, <1>4 DEF HistoryInv, OrdersLogged, OrderEvents, Faithful, RowsTyped
<1>8. /\ reservations' \in [Orders -> [state : {"none", "RESTING", "FINALIZED"}, qty : Nat]]
      /\ \A i \in Orders : i # o => reservations'[i] = reservations[i]
      /\ reservations'[o].state # "RESTING"
      /\ reservations[o].state # "none" => reservations'[o].state # "none"
  <2>1. Finalized(reservations[o]) \in [state : {"none", "FINALIZED"}, qty : Nat]
    <3>1. reservations[o] \in [state : {"none", "RESTING", "FINALIZED"}, qty : Nat]
      BY <1>7
    <3>2. QED
      BY <3>1 DEF Finalized
  <2>2. reservations[o].state # "none" => Finalized(reservations[o]).state # "none"
    BY DEF Finalized
  <2>3. reservations' = [reservations EXCEPT ![o] = Finalized(reservations[o])]
    BY <1>2
  <2>4. QED
    BY <1>7, <2>1, <2>2, <2>3
<1>9. RowsTyped'
  BY <1>1, <1>3, <1>8 DEF Faithful, RowsTyped
<1>10. OrderRows'
  <2>1. \A k \in Projected : k.event \in OrderEvents => k.order \in Orders
    BY DEF Projected, IndexerInv, AppliedOnce, HistoryInv, OrdersLogged
  <2>2. QED
    BY <1>1, <1>3, <1>6, <1>8, <2>1 DEF Faithful, OrderRows, OrderEvents
<1>11. RestingRows'
  BY <1>3, <1>6, <1>8 DEF Faithful, RestingRows
<1>12. ConfigurationRows'
  BY <1>1, <1>3, <1>6, ConfigurationStays
<1>13. PositionRows' /\ OpenRows' /\ SettledRows'
  BY <1>1, <1>3, <1>4, <1>6, PositionsStay
<1>14. QED
  BY <1>6, <1>9, <1>10, <1>11, <1>12, <1>13 DEF Faithful

\* A settlement finds the row that an earlier order left; a pruning is the last
\* log of its market.
LEMMA RowsPosition ==
    ASSUME IndexerInv, HistoryInv, RowsInv, NEW w \in Workers, ProjectPosition(w)
    PROVE  RowsInv'
<1> SUFFICES ASSUME struck' = {}
             PROVE  Faithful'
  BY DEF RowsInv
<1>1. /\ struck = {} /\ Continue(w) /\ Faithful
      /\ UNCHANGED <<logs, market, events, agents, policies, receipts, reservations>>
  BY DEF ProjectPosition, Strikes, Spared, chainVars, RowsInv
<1>2. PICK l \in events : /\ Projecting(w, l, {"SettledExposureReleased", "Redeemed", "MarketPruned"})
                          /\ positions' = [positions EXCEPT ![<<l.portfolio, l.market>>] = Updated(@, l.event)]
  BY DEF ProjectPosition, Strikes
<1> DEFINE pm == <<l.portfolio, l.market>>
<1>3. Projects(w, l) /\ l.event \in {"SettledExposureReleased", "Redeemed", "MarketPruned"}
  BY <1>2 DEF Projects, Projecting
<1>4. PICK r : Onward(w, l, r) /\ r.pc = "logs"
  BY <1>1, <1>3, OnwardIs
<1>5. /\ Single' /\ LedgerInOrder' /\ (\A v \in Workers : RunInOrder(v)') /\ Remembered'
      /\ Projected' = Projected \cup {l}
      /\ \A v \in Workers : run'[v].pc # "syncWrite"
  BY <1>1, <1>3, <1>4, OnwardKeeps
<1>6. /\ l \in logs /\ l.portfolio \in Portfolios
      /\ \A v \in Workers : ~ Syncing(v)
      /\ events \subseteq logs /\ Projected = events \ {l}
      /\ \A k \in Projected : Before(k, l)
  BY <1>1, <1>3, ProjectionIs
<1>7. /\ l.market \in Markets /\ pm \in Portfolios \X Markets
      /\ positions \in [Portfolios \X Markets -> [row : {"none", "open", "settled"}, redeemed : BOOLEAN]]
  <2>1. l.market \in Markets
    BY <1>3, <1>6 DEF HistoryInv, MarketsLogged, Named
  <2>2. QED
    BY <1>1, <1>6, <2>1 DEF Faithful, RowsTyped
<1>8. /\ positions' \in [Portfolios \X Markets -> [row : {"none", "open", "settled"}, redeemed : BOOLEAN]]
      /\ \A x \in Portfolios \X Markets : x # pm => positions'[x] = positions[x]
      /\ positions'[pm] = Updated(positions[pm], l.event)
  <2>1. positions[pm] \in [row : {"none", "open", "settled"}, redeemed : BOOLEAN]
    BY <1>7
  <2>2. Updated(positions[pm], l.event) \in [row : {"none", "open", "settled"}, redeemed : BOOLEAN]
    BY <1>3, <2>1 DEF Updated, NoPosition
  <2>3. positions' = [positions EXCEPT ![pm] = Updated(positions[pm], l.event)]
    BY <1>2
  <2>4. QED
    BY <1>7, <2>2, <2>3
<1>9. /\ l.event = "MarketPruned" => positions'[pm].row = "none"
      /\ l.event = "Redeemed" => positions'[pm].row = positions[pm].row
      /\ l.event = "SettledExposureReleased" =>
           positions'[pm].row = IF positions[pm].row = "none" THEN "none" ELSE "settled"
  <2>1. positions[pm] \in [row : {"none", "open", "settled"}, redeemed : BOOLEAN]
    BY <1>7
  <2>2. PICK row \in [row : {"none", "open", "settled"}, redeemed : BOOLEAN] :
          row = positions[pm] /\ positions'[pm] = Updated(row, l.event)
    BY <1>8, <2>1
  <2>3. l.event = "MarketPruned" => Updated(row, l.event).row = "none"
    BY DEF Updated, NoPosition
  <2>4. l.event = "Redeemed" => Updated(row, l.event).row = row.row
    BY DEF Updated
  <2>5. l.event = "SettledExposureReleased" =>
          Updated(row, l.event).row = IF row.row = "none" THEN "none" ELSE "settled"
    BY DEF Updated
  <2>6. QED
    BY <2>2, <2>3, <2>4, <2>5
<1>10. /\ \A k : Unpruned(k)' <=> Unpruned(k)
       /\ \A p, m : Settled(p, m)' <=> Settled(p, m)
       /\ \A p, m : Tracked(p, m)' <=> Tracked(p, m)
       /\ \A p, m : ~ Writing(p, m)'
  BY <1>1, <1>5 DEF Before, Unpruned, Settled, Named, Tracked, Writing, At
<1>11. \A k \in Projected :
         /\ k.event = "IntentReconciled" /\ Unpruned(k) => positions[<<k.portfolio, k.market>>].row # "none"
         /\ k.event = "SettledExposureReleased" /\ Unpruned(k) => positions[<<k.portfolio, k.market>>].row = "settled"
  BY <1>1, <1>6 DEF Faithful, PositionRows
<1>12. \A k \in Projected :
         k.event \in {"IntentReconciled", "SettledExposureReleased"} => <<k.portfolio, k.market>> \in Portfolios \X Markets
  <2>1. \A k \in logs : /\ k.portfolio \in Portfolios
                        /\ k.event = "IntentReconciled" => k.order \in Orders /\ k.market = MarketOf[k.order]
                        /\ k.event = "SettledExposureReleased" => k.market \in Markets
    <3>1. \A k \in logs : k.portfolio \in Portfolios
      BY DEF IndexerInv, ChainInv
    <3>2. \A k \in logs : k.event = "IntentReconciled" => k.order \in Orders /\ k.market = MarketOf[k.order]
      BY DEF HistoryInv, OrdersLogged, OrderEvents
    <3>3. \A k \in logs : k.event = "SettledExposureReleased" => k.market \in Markets
      BY DEF HistoryInv, MarketsLogged, Named
    <3>4. QED
      BY <3>1, <3>2, <3>3
  <2>2. QED
    BY <1>6, <2>1, OrdersAssumption
<1>13. ASSUME NEW k \in Projected, Unpruned(k), k.event \in {"IntentReconciled", "SettledExposureReleased"}
       PROVE  /\ k.event = "IntentReconciled" => positions'[<<k.portfolio, k.market>>].row # "none"
              /\ k.event = "SettledExposureReleased" => positions'[<<k.portfolio, k.market>>].row = "settled"
  <2>1. CASE <<k.portfolio, k.market>> # pm
    BY <1>8, <1>11, <1>12, <1>13, <2>1
  <2>2. CASE <<k.portfolio, k.market>> = pm
    <3>1. l.event # "MarketPruned"
      BY <1>6, <1>13, <2>2 DEF Unpruned
    <3>2. QED
      BY <1>3, <1>9, <1>11, <1>13, <2>2, <3>1
  <2>3. QED
    BY <2>1, <2>2
<1>14. ASSUME l.event = "SettledExposureReleased", Unpruned(l)
       PROVE  positions'[pm].row = "settled"
  <2>1. PICK k \in Named("IntentReconciled") :
          k.portfolio = l.portfolio /\ k.market = l.market /\ Before(k, l) /\ Unpruned(k)
    BY <1>6, <1>14 DEF HistoryInv, MarketsLogged, Named
  <2>2. k \in logs /\ k.event = "IntentReconciled"
    BY <2>1 DEF Named
  <2>3. k \in Projected
    BY <1>1, <1>6, <1>14, <2>1, <2>2 DEF Faithful, LedgerInOrder
  <2>4. positions[pm].row # "none"
    BY <1>11, <2>1, <2>2, <2>3
  <2>5. QED
    BY <1>9, <1>14, <2>4
<1>15. PositionRows'
  BY <1>3, <1>5, <1>10, <1>13, <1>14 DEF PositionRows, At
<1>16. OpenRows'
  <2>1. ASSUME NEW p \in Portfolios, NEW m \in Markets, positions'[<<p, m>>].row # "none"
        PROVE  \/ Tracked(p, m)
               \/ \E k \in logs \ Projected' : k.event = "MarketPruned" /\ k.portfolio = p /\ k.market = m
    <3>1. /\ positions[<<p, m>>].row # "none"
          /\ ~ (l.event = "MarketPruned" /\ l.portfolio = p /\ l.market = m)
      <4>1. CASE <<p, m>> = pm
        BY <1>3, <1>9, <2>1, <4>1
      <4>2. CASE <<p, m>> # pm
        BY <1>8, <2>1, <4>2
      <4>3. QED
        BY <4>1, <4>2
    <3>2. \/ Tracked(p, m)
          \/ \E k \in logs \ Projected : k.event = "MarketPruned" /\ k.portfolio = p /\ k.market = m
      BY <1>1, <3>1 DEF Faithful, OpenRows
    <3>3. QED
      BY <1>5, <3>1, <3>2
  <2>2. QED
    BY <1>1, <1>10, <2>1 DEF OpenRows
<1>17. SettledRows'
  <2>1. ASSUME NEW p \in Portfolios, NEW m \in Markets, positions'[<<p, m>>].row = "settled"
        PROVE  Settled(p, m)
    <3>1. CASE <<p, m>> = pm /\ l.event = "SettledExposureReleased"
      BY <1>6, <3>1 DEF Settled, Named
    <3>2. CASE <<p, m>> # pm \/ l.event # "SettledExposureReleased"
      <4>1. positions[<<p, m>>].row = "settled"
        BY <1>3, <1>8, <1>9, <2>1, <3>2
      <4>2. QED
        BY <1>1, <4>1 DEF Faithful, SettledRows
    <3>3. QED
      BY <3>1, <3>2
  <2>2. QED
    BY <1>5, <1>10, <2>1 DEF SettledRows, At
<1>18. RowsTyped'
  BY <1>1, <1>8 DEF Faithful, RowsTyped
<1>19. ConfigurationRows'
  BY <1>1, <1>3, <1>5, ConfigurationStays
<1>20. OrderRows' /\ RestingRows'
  BY <1>1, <1>3, <1>5, OrdersRowsStay DEF OrderEvents
<1>21. QED
  BY <1>5, <1>15, <1>16, <1>17, <1>18, <1>19, <1>20 DEF Faithful

\* What a sync under way is about
SyncsOn(w, l) == w \in Workers /\ l \in events /\ Syncing(w) /\ run[w].log = {l}

\* What an invocation may rely on while it syncs a position
LEMMA SyncIs ==
    ASSUME IndexerInv, HistoryInv, Faithful, NEW w \in Workers, Syncing(w)
    PROVE  /\ \E l : SyncsOn(w, l)
           /\ \A l : SyncsOn(w, l) => /\ l \in logs /\ l.event \in OrderEvents
                                      /\ l.portfolio \in Portfolios /\ l.market \in Markets
           /\ \A v \in Workers : v # w => run[v].pc = "idle"
           /\ Projected = events /\ events \subseteq logs
<1>1. ~ At(w, "idle") /\ ~ At(w, "project") /\ Single
  BY DEF Syncing, At, Faithful
<1>2. (\A v \in Workers : v # w => run[v].pc = "idle") /\ Projected = events
  BY <1>1, Alone
<1>3. events \subseteq logs /\ \A l \in logs : l.portfolio \in Portfolios
  BY DEF IndexerInv, AppliedOnce, ChainInv
<1>4. \E l : SyncsOn(w, l)
  BY DEF Faithful, RunInOrder, SyncsOn
<1>5. \A l : SyncsOn(w, l) => l \in logs /\ l.event \in OrderEvents
  BY <1>3 DEF Faithful, RunInOrder, SyncsOn, OrderEvents
<1>6. \A l \in logs : l.event \in OrderEvents => l.market \in Markets
  <2>1. \A l \in logs : l.event \in OrderEvents => l.order \in Orders /\ l.market = MarketOf[l.order]
    BY DEF HistoryInv, OrdersLogged
  <2>2. QED
    BY <2>1, OrdersAssumption
<1>7. QED
  BY <1>2, <1>3, <1>4, <1>5, <1>6

\* Its invocation goes on, and nothing else happens than what it writes.
LEMMA SyncMoves ==
    ASSUME IndexerInv, HistoryInv, Faithful, NEW w \in Workers, Syncing(w),
           NEW r, run' = [run EXCEPT ![w] = r],
           r.todo = run[w].todo, r.from = run[w].from, r.to = run[w].to, r.admitted = run[w].admitted,
           r.pc = "logs" \/ (r.pc = "syncWrite" /\ r.log = run[w].log),
           UNCHANGED <<logs, events, agents, policies, receipts, reservations>>
    PROVE  /\ Single' /\ LedgerInOrder' /\ (\A v \in Workers : RunInOrder(v)') /\ Remembered'
           /\ ConfigurationRows' /\ OrderRows' /\ RestingRows'
           /\ Projected' = Projected /\ run'[w] = r
           /\ \A v \in Workers : v # w => run'[v] = run[v] /\ run'[v].pc = "idle"
<1>1. /\ \A v \in Workers : v # w => run[v].pc = "idle"
      /\ Projected = events
  BY SyncIs
<1>2. /\ Single' /\ run'[w] = r /\ r.pc \in {"logs", "syncWrite"}
      /\ \A v \in Workers : v # w => run'[v] = run[v] /\ run'[v].pc = "idle"
      /\ Projected' = events'
  BY <1>1, RunFields, AloneStill
<1>3. LedgerInOrder' /\ ConfigurationRows' /\ OrderRows' /\ RestingRows'
  BY <1>1, <1>2 DEF Faithful, LedgerInOrder, ConfigurationRows, LastProjected, OrderRows, RestingRows, Before
<1>4. \A v \in Workers : RunInOrder(v)'
  <2>1. ChunkEnd(w)' = ChunkEnd(w)
    BY <1>2 DEF ChunkEnd
  <2>2. \A k \in r.todo : r.from <= k.block /\ k.block <= ChunkEnd(w)
    BY DEF Faithful, RunInOrder, Fetched, Syncing
  <2>3. /\ \E l \in events : run[w].log = {l} /\ \A k \in events : ~ Before(l, k)'
        /\ \A l \in run[w].log : l.event \in {"IntentReconciled", "ReservationReleased"}
    BY DEF Faithful, RunInOrder, Before
  <2>4. RunInOrder(w)'
    BY <1>2, <2>1, <2>2, <2>3 DEF RunInOrder, At, Syncing, Fetched
  <2>5. \A v \in Workers : v # w => RunInOrder(v)'
    BY <1>2 DEF RunInOrder, Fetched, At, Syncing
  <2>6. QED
    BY <2>4, <2>5
<1>5. Remembered'
  <2>1. ASSUME NEW k \in events, NEW x \in logs \ events, k.event = "IntentAdmitted",
               x.event = "IntentReconciled", x.order = k.order
        PROVE  x.order \in run'[w].admitted /\ x \in run'[w].todo
    <3>1. PICK v \in Workers : /\ x.order \in run[v].admitted
                               /\ \/ run[v].pc \in Fetched /\ x \in run[v].todo
                                  \/ At(v, "project") /\ run[v].log = {x}
      BY <1>1, <2>1 DEF Faithful, Remembered
    <3>2. v = w /\ ~ At(w, "project")
      BY <1>1, <3>1 DEF At, Fetched, Syncing
    <3>3. QED
      BY <1>2, <3>1, <3>2
  <2>2. run'[w].pc \in Fetched /\ events' = events /\ logs' = logs /\ Projected' = events
    BY <1>1, <1>2 DEF Fetched
  <2>3. QED
    BY <2>1, <2>2 DEF Remembered
<1>6. QED
  BY <1>1, <1>2, <1>3, <1>4, <1>5

\* The latest block is ahead of the logs: a market that is settled there is
\* settled for good, and one that is no longer tracked has its pruning ahead.
LEMMA RowsSyncRead ==
    ASSUME IndexerInv, HistoryInv, RowsInv, NEW w \in Workers, SyncRead(w)
    PROVE  RowsInv'
<1> SUFFICES ASSUME struck' = {}
             PROVE  Faithful'
  BY DEF RowsInv
<1>1. /\ Faithful /\ run[w].pc = "sync" /\ Syncing(w)
      /\ UNCHANGED <<logs, market, events, agents, policies, receipts, reservations, positions>>
  BY DEF SyncRead, RowsInv, budgets, chainVars, ledger, tables, At, Syncing
<1>2. PICK l : SyncsOn(w, l)
  BY <1>1, SyncIs
<1>3. /\ l \in logs /\ l.event \in OrderEvents /\ l.portfolio \in Portfolios /\ l.market \in Markets
      /\ \A v \in Workers : v # w => run[v].pc = "idle"
      /\ Projected = events /\ events \subseteq logs /\ l \in events /\ run[w].log = {l}
  BY <1>1, <1>2, SyncIs DEF SyncsOn
<1>4. IF Tracked(l.portfolio, l.market)
      THEN run' = [run EXCEPT ![w].pc = "syncWrite", ![w].settled = market[<<l.portfolio, l.market>>] = "settled"]
      ELSE Continue(w)
  BY <1>3 DEF SyncRead
<1>5. /\ \A k : Unpruned(k)' <=> Unpruned(k)
      /\ \A p, m : Settled(p, m)' <=> Settled(p, m)
      /\ \A p, m : Tracked(p, m)' <=> Tracked(p, m)
      /\ \A p, m : ~ Writing(p, m)
  BY <1>1, <1>3 DEF Before, Unpruned, Settled, Named, Tracked, Writing, At
<1>6. \A k \in events :
        /\ k.event = "IntentReconciled" /\ Unpruned(k) /\ k # l => positions[<<k.portfolio, k.market>>].row # "none"
        /\ k.event = "SettledExposureReleased" /\ Unpruned(k) => positions[<<k.portfolio, k.market>>].row = "settled"
  BY <1>1, <1>3 DEF Faithful, PositionRows, Syncing
<1>7. RowsTyped'
  BY <1>1 DEF Faithful, RowsTyped
<1>8. CASE Tracked(l.portfolio, l.market)
  <2> DEFINE settled == market[<<l.portfolio, l.market>>] = "settled"
             r == [run[w] EXCEPT !.pc = "syncWrite", !.settled = settled]
  <2>1. run' = [run EXCEPT ![w] = r] /\ r.pc = "syncWrite" /\ r.log = {l} /\ (r.settled <=> settled)
        /\ r.todo = run[w].todo /\ r.from = run[w].from /\ r.to = run[w].to /\ r.admitted = run[w].admitted
    BY <1>3, <1>4, <1>8, RunFields DEF RunRecord
  <2> HIDE DEF r
  <2>2. /\ Single' /\ LedgerInOrder' /\ (\A v \in Workers : RunInOrder(v)') /\ Remembered'
        /\ ConfigurationRows' /\ OrderRows' /\ RestingRows'
        /\ Projected' = Projected /\ run'[w] = r
        /\ \A v \in Workers : v # w => run'[v] = run[v] /\ run'[v].pc = "idle"
    BY <1>1, <1>3, <2>1, SyncMoves
  <2>3. PositionRows'
    <3>1. ASSUME NEW k \in events, k.event = "SettledExposureReleased", Unpruned(k),
                 k.portfolio = l.portfolio, k.market = l.market
          PROVE  settled
      BY <1>3, <3>1 DEF HistoryInv, MarketsLogged, Named
    <3>2. Syncing(w)' /\ run'[w].log = {l}
      BY <2>1, <2>2 DEF Syncing
    <3>3. \A v \in Workers, k \in events : At(v, "syncWrite")' /\ run'[v].log = {k} => v = w /\ k = l
      BY <2>1, <2>2 DEF At
    <3>4. ASSUME NEW k \in events, k.event = "IntentReconciled", Unpruned(k)
          PROVE  \/ positions[<<k.portfolio, k.market>>].row # "none"
                 \/ Syncing(w)' /\ run'[w].log = {k}
      BY <1>6, <3>2, <3>4
    <3>5. ASSUME NEW k \in events, k.event = "SettledExposureReleased", Unpruned(k)
          PROVE  /\ positions[<<k.portfolio, k.market>>].row = "settled"
                 /\ \A v \in Workers, x \in events :
                      At(v, "syncWrite")' /\ run'[v].log = {x} /\ x.portfolio = k.portfolio /\ x.market = k.market
                        => run'[v].settled
      BY <1>6, <2>1, <2>2, <3>1, <3>3, <3>5
    <3>6. Projected' = events /\ events' = events /\ positions' = positions
      BY <1>1, <1>3, <2>2
    <3>7. QED
      BY <1>5, <3>4, <3>5, <3>6 DEF PositionRows
  <2>4. OpenRows'
    <3>1. \A p, m : Writing(p, m)' => p = l.portfolio /\ m = l.market
      BY <2>1, <2>2 DEF Writing, At
    <3>2. QED
      BY <1>1, <1>5, <1>8, <2>2, <3>1 DEF Faithful, OpenRows
  <2>5. SettledRows'
    <3>1. settled => Settled(l.portfolio, l.market)
      BY <1>3 DEF HistoryInv, MarketsLogged, Settled
    <3>2. \A v \in Workers, k \in events : At(v, "syncWrite")' /\ run'[v].log = {k} => v = w /\ k = l
      BY <2>1, <2>2 DEF At
    <3>3. QED
      BY <1>1, <1>5, <2>1, <2>2, <3>1, <3>2 DEF Faithful, SettledRows
  <2>6. QED
    BY <1>7, <2>2, <2>3, <2>4, <2>5 DEF Faithful
<1>9. CASE ~ Tracked(l.portfolio, l.market)
  <2> DEFINE r == [run[w] EXCEPT !.pc = "logs", !.log = {}, !.settled = FALSE]
  <2>1. run' = [run EXCEPT ![w] = r] /\ r.pc = "logs"
        /\ r.todo = run[w].todo /\ r.from = run[w].from /\ r.to = run[w].to /\ r.admitted = run[w].admitted
    BY <1>4, <1>9, RunFields DEF RunRecord, Continue
  <2> HIDE DEF r
  <2>2. /\ Single' /\ LedgerInOrder' /\ (\A v \in Workers : RunInOrder(v)') /\ Remembered'
        /\ ConfigurationRows' /\ OrderRows' /\ RestingRows'
        /\ Projected' = Projected /\ run'[w] = r
        /\ \A v \in Workers : v # w => run'[v] = run[v] /\ run'[v].pc = "idle"
    BY <1>1, <1>3, <2>1, SyncMoves
  <2>3. \A v \in Workers : run'[v].pc # "syncWrite"
    BY <2>1, <2>2
  <2>4. PositionRows'
    <3>1. l.event = "IntentReconciled" => ~ Unpruned(l)
      BY <1>3, <1>9 DEF HistoryInv, MarketsLogged, Named
    <3>2. QED
      BY <1>1, <1>3, <1>5, <1>6, <2>2, <2>3, <3>1 DEF PositionRows, At
  <2>5. OpenRows'
    <3>1. \A p, m : ~ Writing(p, m)'
      BY <2>3 DEF Writing, At
    <3>2. QED
      BY <1>1, <1>5, <2>2, <3>1 DEF Faithful, OpenRows
  <2>6. SettledRows'
    BY <1>1, <1>5, <2>2, <2>3 DEF Faithful, SettledRows, At
  <2>7. QED
    BY <1>7, <2>2, <2>4, <2>5, <2>6 DEF Faithful
<1>10. QED
  BY <1>8, <1>9

\* What is written was true of the contract when it was read, and is still.
LEMMA RowsSyncWrite ==
    ASSUME IndexerInv, HistoryInv, RowsInv, NEW w \in Workers, SyncWrite(w)
    PROVE  RowsInv'
<1> SUFFICES ASSUME struck' = {}
             PROVE  Faithful'
  BY DEF RowsInv
<1>1. /\ Faithful /\ At(w, "syncWrite") /\ Syncing(w) /\ Continue(w)
      /\ UNCHANGED <<logs, market, events, agents, policies, receipts, reservations>>
  BY DEF SyncWrite, RowsInv, budgets, chainVars, ledger, At, Syncing
<1>2. PICK l : SyncsOn(w, l)
  BY <1>1, SyncIs
<1>3. /\ l \in logs /\ l.event \in OrderEvents /\ l.portfolio \in Portfolios /\ l.market \in Markets
      /\ \A v \in Workers : v # w => run[v].pc = "idle"
      /\ Projected = events /\ events \subseteq logs /\ l \in events /\ run[w].log = {l}
  BY <1>1, <1>2, SyncIs DEF SyncsOn
<1> DEFINE pm == <<l.portfolio, l.market>>
           state == IF run[w].settled THEN "settled" ELSE "open"
           r == [run[w] EXCEPT !.pc = "logs", !.log = {}, !.settled = FALSE]
<1>4. /\ positions \in [Portfolios \X Markets -> [row : {"none", "open", "settled"}, redeemed : BOOLEAN]]
      /\ positions' = [positions EXCEPT ![pm].row = state]
      /\ pm \in Portfolios \X Markets
  BY <1>1, <1>3 DEF SyncWrite, Faithful, RowsTyped
<1>5. /\ positions' \in [Portfolios \X Markets -> [row : {"none", "open", "settled"}, redeemed : BOOLEAN]]
      /\ \A x \in Portfolios \X Markets : x # pm => positions'[x] = positions[x]
      /\ positions'[pm].row = state
  <2>1. state \in {"open", "settled"}
    OBVIOUS
  <2> HIDE DEF state, pm
  <2>2. QED
    BY <1>4, <2>1
<1>6. run' = [run EXCEPT ![w] = r] /\ r.pc = "logs"
      /\ r.todo = run[w].todo /\ r.from = run[w].from /\ r.to = run[w].to /\ r.admitted = run[w].admitted
  BY <1>1, RunFields DEF RunRecord, Continue
<1> HIDE DEF r
<1>7. /\ Single' /\ LedgerInOrder' /\ (\A v \in Workers : RunInOrder(v)') /\ Remembered'
      /\ ConfigurationRows' /\ OrderRows' /\ RestingRows'
      /\ Projected' = Projected /\ run'[w] = r
      /\ \A v \in Workers : v # w => run'[v] = run[v] /\ run'[v].pc = "idle"
  BY <1>1, <1>6, SyncMoves
<1>8. \A v \in Workers : run'[v].pc # "syncWrite"
  BY <1>6, <1>7
<1>9. /\ \A k : Unpruned(k)' <=> Unpruned(k)
      /\ \A p, m : Settled(p, m)' <=> Settled(p, m)
      /\ \A p, m : Tracked(p, m)' <=> Tracked(p, m)
      /\ \A p, m : ~ Writing(p, m)'
  BY <1>1, <1>8 DEF Before, Unpruned, Settled, Named, Tracked, Writing, At
<1>10. \A k \in events :
         /\ k.event = "IntentReconciled" /\ Unpruned(k) /\ k # l => positions[<<k.portfolio, k.market>>].row # "none"
         /\ k.event = "SettledExposureReleased" /\ Unpruned(k) =>
              /\ positions[<<k.portfolio, k.market>>].row = "settled"
              /\ k.portfolio = l.portfolio /\ k.market = l.market => run[w].settled
  BY <1>1, <1>3 DEF Faithful, PositionRows, Syncing
<1>11. \A k \in events :
         k.event \in {"IntentReconciled", "SettledExposureReleased"} => <<k.portfolio, k.market>> \in Portfolios \X Markets
  <2>1. \A k \in logs : k.portfolio \in Portfolios
    BY DEF IndexerInv, ChainInv
  <2>2. \A k \in logs : k.event = "IntentReconciled" => k.order \in Orders /\ k.market = MarketOf[k.order]
    BY DEF HistoryInv, OrdersLogged, OrderEvents
  <2>3. \A k \in logs : k.event = "SettledExposureReleased" => k.market \in Markets
    BY DEF HistoryInv, MarketsLogged, Named
  <2>4. QED
    BY <1>3, <2>1, <2>2, <2>3, OrdersAssumption
<1>12. PositionRows'
  <2>1. ASSUME NEW k \in events, Unpruned(k), k.event \in {"IntentReconciled", "SettledExposureReleased"}
        PROVE  /\ k.event = "IntentReconciled" => positions'[<<k.portfolio, k.market>>].row # "none"
               /\ k.event = "SettledExposureReleased" => positions'[<<k.portfolio, k.market>>].row = "settled"
    <3>1. CASE <<k.portfolio, k.market>> # pm
      BY <1>5, <1>10, <1>11, <2>1, <3>1
    <3>2. CASE <<k.portfolio, k.market>> = pm
      BY <1>5, <1>10, <2>1, <3>2
    <3>3. QED
      BY <3>1, <3>2
  <2>2. QED
    BY <1>1, <1>3, <1>7, <1>8, <1>9, <2>1 DEF PositionRows, At
<1>13. OpenRows'
  <2>1. Writing(l.portfolio, l.market)
    BY <1>1, <1>3 DEF Writing
  <2>2. ASSUME NEW p \in Portfolios, NEW m \in Markets, positions'[<<p, m>>].row # "none"
        PROVE  positions[<<p, m>>].row # "none" \/ Writing(p, m)
    <3>1. CASE <<p, m>> = pm
      BY <2>1, <3>1
    <3>2. CASE <<p, m>> # pm
      BY <1>5, <2>2, <3>2
    <3>3. QED
      BY <3>1, <3>2
  <2>3. QED
    BY <1>1, <1>7, <1>9, <2>2 DEF Faithful, OpenRows
<1>14. SettledRows'
  <2>1. run[w].settled => Settled(l.portfolio, l.market)
    BY <1>1, <1>3 DEF Faithful, SettledRows
  <2>2. ASSUME NEW p \in Portfolios, NEW m \in Markets, positions'[<<p, m>>].row = "settled"
        PROVE  Settled(p, m)
    <3>1. CASE <<p, m>> = pm
      BY <1>5, <2>1, <2>2, <3>1
    <3>2. CASE <<p, m>> # pm
      BY <1>1, <1>5, <2>2, <3>2 DEF Faithful, SettledRows
    <3>3. QED
      BY <3>1, <3>2
  <2>3. QED
    BY <1>8, <1>9, <2>2 DEF SettledRows, At
<1>15. RowsTyped'
  BY <1>1, <1>5 DEF Faithful, RowsTyped
<1>16. QED
  BY <1>7, <1>12, <1>13, <1>14, <1>15 DEF Faithful

-----------------------------------------------------------------------------
(* The tables at rest *)

\* Nothing runs, no row says anything.
LEMMA RowsInit == Init => RowsInv
<1> SUFFICES ASSUME Init
             PROVE  Faithful
  BY DEF RowsInv
<1>1. /\ events = {} /\ run = [w \in Workers |-> Idle]
      /\ agents = [p \in Portfolios |-> "none"] /\ policies = [p \in Portfolios |-> 0]
      /\ receipts = [o \in Orders |-> [intent |-> FALSE, receipt |-> "none"]]
      /\ reservations = [o \in Orders |-> NoReservation]
      /\ positions = [pm \in Portfolios \X Markets |-> NoPosition]
  BY DEF Init
<1>2. \A w \in Workers : run[w].pc = "idle"
  BY <1>1 DEF Idle
<1>3. Projected = {}
  BY <1>1 DEF Projected
<1>4. \A p, m : ~ Writing(p, m)
  BY <1>1 DEF Writing
<1>5. \A p \in Portfolios, m \in Markets : positions[<<p, m>>].row = "none"
  BY <1>1 DEF NoPosition
<1>6. \A o \in Orders : reservations[o].state = "none"
  BY <1>1 DEF NoReservation
<1>7. RowsTyped
  BY <1>1 DEF RowsTyped, NoReservation, NoPosition
<1>8. Single /\ LedgerInOrder /\ (\A w \in Workers : RunInOrder(w))
  BY <1>1, <1>2 DEF Single, LedgerInOrder, RunInOrder, At, Syncing, Fetched
<1>9. ConfigurationRows /\ OrderRows /\ RestingRows /\ Remembered
  BY <1>1, <1>3, <1>6 DEF ConfigurationRows, OrderRows, RestingRows, Remembered
<1>10. PositionRows /\ OpenRows /\ SettledRows
  BY <1>1, <1>3, <1>4, <1>5 DEF PositionRows, OpenRows, SettledRows
<1>11. QED
  BY <1>7, <1>8, <1>9, <1>10 DEF Faithful

\* Neither a rewind nor a fault changes what the rows of a behaviour without
\* faults say.
LEMMA RowsAlike ==
    ASSUME RowsInv, UNCHANGED <<logs, market, events, run, agents, policies, receipts, reservations, positions, struck>>
    PROVE  RowsInv'
<1>1. /\ Projected' = Projected
      /\ \A k, l : Before(k, l)' <=> Before(k, l)
      /\ \A l : Unpruned(l)' <=> Unpruned(l)
      /\ \A p, m : Settled(p, m)' <=> Settled(p, m)
      /\ \A p, m : Tracked(p, m)' <=> Tracked(p, m)
      /\ \A p, m : Writing(p, m)' <=> Writing(p, m)
      /\ \A v \in Workers : Syncing(v)' <=> Syncing(v)
  BY DEF Projected, Before, Unpruned, Settled, Named, Tracked, Writing, At, Syncing
<1>2. ASSUME Faithful
      PROVE  Faithful'
  <2>1. Single' /\ LedgerInOrder' /\ (\A w \in Workers : RunInOrder(w)')
    BY <1>1, <1>2 DEF Faithful, Single, LedgerInOrder, RunInOrder, At, ChunkEnd
  <2>2. RowsTyped' /\ ConfigurationRows' /\ OrderRows' /\ RestingRows' /\ Remembered'
    <3>1. \A k, names : LastProjected(k, names)' <=> LastProjected(k, names)
      BY <1>1 DEF LastProjected
    <3>2. ConfigurationRows'
      BY <1>1, <1>2, <3>1 DEF Faithful, ConfigurationRows
    <3>3. Remembered'
      BY <1>1, <1>2 DEF Faithful, Remembered, At
    <3>4. QED
      BY <1>1, <1>2, <3>2, <3>3 DEF Faithful, RowsTyped, OrderRows, RestingRows
  <2>3. PositionRows' /\ OpenRows' /\ SettledRows'
    BY <1>1, <1>2 DEF Faithful, PositionRows, OpenRows, SettledRows, At
  <2>4. QED
    BY <2>1, <2>2, <2>3 DEF Faithful
<1>3. QED
  BY <1>2 DEF RowsInv

\* The history depends on the chain alone.
LEMMA HistoryAlike ==
    ASSUME HistoryInv, UNCHANGED <<logs, record, market>>
    PROVE  HistoryInv'
<1>1. LogsNumbered'
  BY DEF HistoryInv, LogsNumbered
<1>2. OrdersLogged'
  BY DEF HistoryInv, OrdersLogged, Named, Before
<1>3. MarketsLogged'
  BY DEF HistoryInv, MarketsLogged, Named, Before, Unpruned, Tracked
<1>4. QED
  BY <1>1, <1>2, <1>3 DEF HistoryInv

\* Every step keeps what the logs and the rows say.
LEMMA RowsStep ==
    ASSUME IndexerInv, HistoryInv, RowsInv, [Next]_vars
    PROVE  HistoryInv' /\ RowsInv'
<1>1. CASE Mined
  <2>1. struck' = struck /\ ChainNext
    BY <1>1 DEF Mined, indexerVars, budgets
  <2>2. HistoryInv'
    BY <2>1, HistoryKeeps DEF IndexerInv
  <2>3. QED
    BY <1>1, <2>1, <2>2, RowsMined DEF RowsInv
<1>2. ASSUME NEW w \in Workers, Begin(w)
      PROVE  HistoryInv' /\ RowsInv'
  BY <1>2, RowsBegin, HistoryAlike DEF Begin, chainVars
<1>3. ASSUME NEW w \in Workers, Step(w)
      PROVE  HistoryInv' /\ RowsInv'
  <2>1. UNCHANGED <<logs, record, market>>
    BY <1>3 DEF Step, chainVars, ReadCursor, LoadPortfolios, Discover, RecordEvent, SkipDuplicate, AdvanceCursor,
                ProjectConfiguration, ProjectAdmission, ProjectReconciled, ProjectReleased, ProjectPosition,
                SyncRead, SyncWrite
  <2>2. HistoryInv'
    BY <2>1, HistoryAlike
  <2>3. RowsInv'
    BY <1>3, RowsReadCursor, RowsLoad, RowsDiscover, RowsRecord, RowsSkip, RowsAdvance, RowsConfiguration,
       RowsAdmission, RowsReconciled, RowsReleased, RowsPosition, RowsSyncRead, RowsSyncWrite DEF Step
  <2>4. QED
    BY <2>2, <2>3
<1>4. ASSUME NEW w \in Workers, Crash(w)
      PROVE  HistoryInv' /\ RowsInv'
  <2>1. HistoryInv'
    BY <1>4, HistoryAlike DEF Crash, chainVars
  <2>2. struck' # {}
    BY <1>4 DEF Crash, Strikes
  <2>3. QED
    BY <2>1, <2>2 DEF RowsInv
<1>5. CASE Rewind
  BY <1>5, RowsAlike, HistoryAlike DEF Rewind, chainVars, tables
<1>6. CASE UNCHANGED vars
  BY <1>6, RowsAlike, HistoryAlike DEF vars, chainVars, indexerVars, ledger, tables, budgets
<1>7. QED
  BY <1>1, <1>2, <1>3, <1>4, <1>5, <1>6 DEF Next

\* The two invariants hold together with that of the ledger.
LEMMA RowsInvariant ==
    ASSUME Dependable
    PROVE  Spec => [](IndexerInv /\ HistoryInv /\ RowsInv)
<1>1. Init => IndexerInv /\ HistoryInv /\ RowsInv
  BY IndexerInit, HistoryInit, RowsInit
<1>2. IndexerInv /\ HistoryInv /\ RowsInv /\ [Next]_vars => (IndexerInv /\ HistoryInv /\ RowsInv)'
  BY IndexerStep, RowsStep
<1>3. QED
  BY <1>1, <1>2, PTL DEF Spec

\* At rest every log of a portfolio has been projected.
LEMMA AllProjected ==
    ASSUME IndexerInv, Faithful, Quiet
    PROVE  /\ \A l \in logs : l.event # "PortfolioCreated" => l \in Projected
           /\ Projected \subseteq logs
           /\ \A w \in Workers : run[w].pc = "idle"
<1>1. cursor = head /\ \A w \in Workers : run[w].pc = "idle"
  BY DEF Quiet, At
<1>2. Projected = events
  <2>1. {w \in Workers : At(w, "project")} = {}
    BY <1>1 DEF At
  <2>2. QED
    BY <2>1 DEF Projected
<1>3. \A l \in logs : l.event # "PortfolioCreated" => l \in events
  <2>1. \A l \in logs : l.block \in Nat /\ l.block <= head
    BY DEF IndexerInv, ChainInv
  <2>2. QED
    BY <1>1, <2>1, CoveredIs DEF Covered
<1>4. QED
  BY <1>1, <1>2, <1>3 DEF IndexerInv, AppliedOnce

\* "All converge on the same rows" (ARCHITECTURE.md): at rest and without a
\* fault, the tables say what the contract's state is: which orders it holds open
\* and for how much, which markets it tracks and which are settled, the agents
\* and policies in force; for any window and chunk, any number of rewinds, and
\* transactions mined while logs are projected (project, syncPosition, ingest).
THEOREM IndexerTablesMatch ==
    ASSUME Dependable
    PROVE  Spec => []TablesMatchTheContract
<1>1. ASSUME IndexerInv, HistoryInv, RowsInv, Quiet, struck = {}
      PROVE  ReservationsMatch /\ PositionsMatch /\ ConfigurationMatches /\ ReceiptsMatch
  <2>1. Faithful
    BY <1>1 DEF RowsInv
  <2>2. /\ \A l \in logs : l.event # "PortfolioCreated" => l \in Projected
        /\ Projected \subseteq logs
        /\ \A w \in Workers : run[w].pc = "idle"
    BY <1>1, <2>1, AllProjected
  <2>3. ReceiptsMatch
    BY <2>1, <2>2 DEF ReceiptsMatch, Faithful, OrderRows
  <2>4. ReservationsMatch
    <3>1. ASSUME NEW o \in Orders, record[o] > 0
          PROVE  reservations[o].state # "none"
      <4>1. PICK l \in logs : l.event = "IntentReconciled" /\ l.order = o /\ l.qty > 0
        BY <1>1, <3>1 DEF HistoryInv, OrdersLogged, Named
      <4>2. QED
        BY <2>1, <2>2, <4>1 DEF Faithful, OrderRows
    <3>2. ASSUME NEW o \in Orders, reservations[o].state = "RESTING"
          PROVE  reservations[o].qty = record[o]
      <4>1. /\ \E l \in Projected : l.event = "IntentReconciled" /\ l.order = o /\ l.qty = reservations[o].qty
            /\ \A k \in Projected : k.event = "ReservationReleased" => k.order # o
        BY <2>1, <3>2 DEF Faithful, RestingRows
      <4>2. PICK l \in logs : l.event = "IntentReconciled" /\ l.order = o /\ l.qty = reservations[o].qty
        BY <2>2, <4>1
      <4>3. l \in Named("IntentReconciled") /\ \A k \in Named("ReservationReleased") : k.order # o
        BY <2>2, <4>1, <4>2 DEF Named
      <4>4. QED
        BY <1>1, <4>2, <4>3 DEF HistoryInv, OrdersLogged
    <3>3. QED
      BY <3>1, <3>2 DEF ReservationsMatch
  <2>5. PositionsMatch
    <3>1. ASSUME NEW p \in Portfolios, NEW m \in Markets
          PROVE  /\ positions[<<p, m>>].row # "none" <=> Tracked(p, m)
                 /\ positions[<<p, m>>].row = "settled" <=> market[<<p, m>>] = "settled"
      <4>1. ASSUME Tracked(p, m)
            PROVE  positions[<<p, m>>].row # "none"
        <5>1. PICK l \in Named("IntentReconciled") : l.portfolio = p /\ l.market = m /\ Unpruned(l)
          BY <1>1, <4>1 DEF HistoryInv, MarketsLogged, Tracked
        <5>2. l \in Projected /\ l.event = "IntentReconciled"
          BY <2>2, <5>1 DEF Named
        <5>3. QED
          BY <2>1, <2>2, <5>1, <5>2 DEF Faithful, PositionRows, Syncing
      <4>2. ASSUME positions[<<p, m>>].row # "none"
            PROVE  Tracked(p, m)
        BY <2>1, <2>2, <4>2 DEF Faithful, OpenRows
      <4>3. ASSUME market[<<p, m>>] = "settled"
            PROVE  positions[<<p, m>>].row = "settled"
        <5>1. PICK l \in Named("SettledExposureReleased") : l.portfolio = p /\ l.market = m /\ Unpruned(l)
          BY <1>1, <4>3 DEF HistoryInv, MarketsLogged
        <5>2. l \in Projected /\ l.event = "SettledExposureReleased"
          BY <2>2, <5>1 DEF Named
        <5>3. QED
          BY <2>1, <5>1, <5>2 DEF Faithful, PositionRows
      <4>4. ASSUME positions[<<p, m>>].row = "settled"
            PROVE  market[<<p, m>>] = "settled"
        <5>1. Settled(p, m)
          BY <2>1, <4>4 DEF Faithful, SettledRows
        <5>2. market[<<p, m>>] \in {"settled", "closed"}
          BY <1>1, <5>1 DEF HistoryInv, MarketsLogged, Settled
        <5>3. Tracked(p, m)
          BY <4>2, <4>4
        <5>4. QED
          BY <5>2, <5>3 DEF Tracked
      <4>5. QED
        BY <4>1, <4>2, <4>3, <4>4
    <3>2. QED
      BY <3>1 DEF PositionsMatch
  <2>6. ConfigurationMatches
    <3>1. ASSUME NEW p, NEW names, "PortfolioCreated" \notin names
          PROVE  LastOf(p, names) = {l \in Projected : l.portfolio = p /\ l.event \in names /\ LastProjected(l, names)}
      BY <2>2, <3>1 DEF LastOf, LastProjected
    <3>2. ASSUME NEW p \in Portfolios
          PROVE  /\ agents[p] = "enabled" <=> \E l \in LastOf(p, {"AgentSet", "AgentRevoked"}) : l.event = "AgentSet"
                 /\ \A l \in LastOf(p, {"DomainPolicySet"}) : policies[p] = l.qty
      <4>1. /\ LastOf(p, {"AgentSet", "AgentRevoked"}) =
                 {l \in Projected : l.portfolio = p /\ l.event \in {"AgentSet", "AgentRevoked"}
                                    /\ LastProjected(l, {"AgentSet", "AgentRevoked"})}
            /\ LastOf(p, {"DomainPolicySet"}) =
                 {l \in Projected : l.portfolio = p /\ l.event \in {"DomainPolicySet"} /\ LastProjected(l, {"DomainPolicySet"})}
        BY <3>1
      <4>2. /\ agents[p] = "enabled" <=>
                 \E l \in Projected : l.event = "AgentSet" /\ l.portfolio = p /\ LastProjected(l, {"AgentSet", "AgentRevoked"})
            /\ \A l \in Projected :
                 l.event = "DomainPolicySet" /\ LastProjected(l, {"DomainPolicySet"}) => policies[l.portfolio] = l.qty
        BY <2>1 DEF Faithful, ConfigurationRows
      <4>3. QED
        BY <4>1, <4>2
    <3>3. QED
      BY <3>2 DEF ConfigurationMatches
  <2>7. QED
    BY <2>3, <2>4, <2>5, <2>6
<1>2. IndexerInv /\ HistoryInv /\ RowsInv => TablesMatchTheContract
  BY <1>1 DEF TablesMatchTheContract
<1>3. QED
  BY <1>2, RowsInvariant, PTL
=============================================================================
