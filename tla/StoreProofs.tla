---------------------------- MODULE StoreProofs ------------------------------
(***************************************************************************)
(* Theorems about a portfolio's event store, for every chain, lag, window, *)
(* overlap, number of views and number of faults.                          *)
(***************************************************************************)
EXTENDS EventStoreSafety, TLAPS

(* What a scan holds at each of its stages *)
Began(s)    == s \in [pc : {"none", "begin", "failed"}]
Reading(s)  == s \in [pc : {"windows"}, windows : Nat \ {0}, found : SUBSET logs,
                      through : NoScan .. head, latest : DeployedAt .. head] /\ s.through < s.latest
Stamping(s) == s \in [pc : {"stamps"}, found : SUBSET logs, through : NoScan .. head, complete : BOOLEAN]
Putting(s)  == s \in [pc : {"put"}, left : SUBSET logs, found : SUBSET logs, through : NoScan .. head,
                      complete : BOOLEAN]
Saving(s)   == s \in [pc : {"save"}, complete : BOOLEAN]

ScanShape == Began(scanning) \/ Reading(scanning) \/ Stamping(scanning) \/ Putting(scanning) \/ Saving(scanning)

(* What a view holds *)
RequestShape ==
  \A r \in Requests :
    \/ request[r] \in [pc : {"idle", "first", "measure", "joined", "answer"}]
    \/ request[r] \in [pc : {"answered"}, complete : BOOLEAN, missing : SUBSET Int, latest : DeployedAt .. MaxBlock]

(* Whoever is past its first step has filled the memory; nothing is in memory
   that storage does not hold. *)
MemoryFilled ==
  /\ events \subseteq stored
  /\ scanning.pc \in {"windows", "stamps", "put", "save"} => loaded
  /\ \A r \in Requests : request[r].pc \in {"first", "measure", "joined", "answer"} => loaded

(* While it reads, a scan has found what memory lacks up to where it has read,
   except for what the slowest node may not show it anyway; and what it no
   longer has to write is stored. *)
ScanCovers ==
  /\ scanning.pc = "windows" =>
       {b \in Upto(scanning.latest - Lag) : b <= scanning.through} \subseteq events \cup scanning.found
  /\ scanning.pc \in {"stamps", "put"} =>
       Upto(scanning.through - Lag) \subseteq events \cup scanning.found
  /\ scanning.pc = "put" => scanning.found \ scanning.left \subseteq stored

StoreInv ==
  /\ TypeOK /\ ScanShape /\ RequestShape
  /\ MemoryFilled /\ ScanCovers
  /\ NoLogMissed /\ CompleteMeansCurrent

-----------------------------------------------------------------------------
(* Operators *)

\* The search ends at the portfolio's own block.
LEMMA SearchEnds ==
    ASSUME NEW latest \in DeployedAt .. MaxBlock
    PROVE  FindDeploymentBlock(latest) = DeployedAt
<1> DEFINE S == FactoryAt + 1 .. latest
           P(b) == HasCode(b) /\ \A c \in FactoryAt + 1 .. b - 1 : ~ HasCode(c)
<1>1. DeployedAt \in S /\ P(DeployedAt) /\ \A b \in S : P(b) => b = DeployedAt
  BY StoreAssumption DEF HasCode
<1>2. FindDeploymentBlock(latest) = CHOOSE b \in S : P(b)
  BY DEF FindDeploymentBlock
<1> HIDE DEF S, P
<1>3. (CHOOSE b \in S : P(b)) \in S /\ P(CHOOSE b \in S : P(b))
  BY <1>1, Zenon
<1>4. QED
  BY <1>1, <1>2, <1>3

\* The smaller of two.
LEMMA MinOfTwo ==
    ASSUME NEW a \in Int, NEW b \in Int
    PROVE  /\ Min({a, b}) \in {a, b} /\ Min({a, b}) \in Int
           /\ Min({a, b}) <= a /\ Min({a, b}) <= b
<1>1. \E x \in {a, b} : \A y \in {a, b} : x <= y
  <2>1. CASE a <= b
    BY <2>1
  <2>2. CASE ~ (a <= b)
    <3>1. b <= a
      BY <2>2
    <3>2. QED
      BY <3>1
  <2>3. QED
    BY <2>1, <2>2
<1>2. Min({a, b}) \in {a, b} /\ \A y \in {a, b} : Min({a, b}) <= y
  BY <1>1, Zenon DEF Min
<1>3. QED
  BY <1>2

\* A scan starts at the portfolio's block or no later than where the last one
\* ended.
LEMMA ResumeStarts ==
    ASSUME TypeOK, NEW latest \in Heights
    PROVE  /\ latest \in DeployedAt .. head /\ latest \in DeployedAt .. MaxBlock /\ latest >= head - Lag
           /\ FindDeploymentBlock(latest) = DeployedAt
           /\ Resume(DeployedAt) \in Int /\ Resume(DeployedAt) >= DeployedAt
           /\ Resume(DeployedAt) = DeployedAt \/ Resume(DeployedAt) <= ScanNow + 1 - Overlap
<1>1. latest \in DeployedAt .. head /\ latest \in DeployedAt .. MaxBlock /\ latest >= head - Lag
  BY StoreAssumption DEF Heights, TypeOK
<1>2. ScanNow \in NoScan .. head /\ Overlap \in Nat /\ DeployedAt \in Nat /\ head \in Nat
  BY StoreAssumption DEF ScanNow, TypeOK
<1>3. QED
  BY <1>1, <1>2, SearchEnds DEF Resume, NoScan

\* The empty store satisfies the invariant.
LEMMA StoreInit == Init => StoreInv
<1> SUFFICES ASSUME Init
             PROVE  StoreInv
  OBVIOUS
<1>1. TypeOK
  <2>1. \A r \in Requests : request[r].pc = "idle"
    BY DEF Init, Waiting
  <2>2. head \in DeployedAt .. MaxBlock /\ logs \subseteq DeployedAt .. head /\ NoScan \in NoScan .. head
    BY StoreAssumption DEF Init, NoScan
  <2>3. 0 \in 0 .. MaxFaults
    BY StoreAssumption
  <2>4. scanning.pc = "none" /\ DOMAIN request = Requests
    BY DEF Init, NotScanning
  <2>5. QED
    BY <2>1, <2>2, <2>3, <2>4 DEF Init, TypeOK
<1>2. ScanShape /\ RequestShape
  BY DEF Init, ScanShape, Began, RequestShape, NotScanning, Waiting
<1>3. MemoryFilled /\ ScanCovers /\ CompleteMeansCurrent
  BY DEF Init, MemoryFilled, ScanCovers, CompleteMeansCurrent, NotScanning, Waiting
<1>4. NoLogMissed
  BY StoreAssumption DEF Init, NoLogMissed, Upto, NoScan
<1>5. QED
  BY <1>1, <1>2, <1>3, <1>4 DEF StoreInv

-----------------------------------------------------------------------------
(* The scan *)


\* A scan that starts covers what the overlap leaves behind.
LEMMA BeginKeeps ==
    ASSUME StoreInv, BeginWindows, Lag <= Overlap
    PROVE  StoreInv'
<1> USE DEF StoreInv
<1>1. /\ loaded' = TRUE /\ events' = EventsNow /\ scan' = ScanNow
      /\ UNCHANGED <<head, logs, stored, savedScan, request, alarm, ringing, connected>>
      /\ faults' \in 0 .. MaxFaults
  BY StoreAssumption DEF BeginWindows, LoadStore, chain, storage, Strikes, Spared, TypeOK
<1>2. /\ EventsNow \subseteq stored /\ EventsNow \subseteq logs /\ ScanNow \in NoScan .. head
      /\ Upto(ScanNow - Lag) \subseteq EventsNow /\ events \subseteq EventsNow
  BY DEF EventsNow, ScanNow, TypeOK, MemoryFilled, NoLogMissed
<1>3. /\ {head, Lag, Overlap, DeployedAt} \subseteq Nat /\ ScanNow \in Int /\ -1 <= ScanNow /\ ScanNow <= head
      /\ \A b \in logs : b \in Nat /\ DeployedAt <= b
      /\ \A l \in Heights : l \in Nat /\ DeployedAt <= l /\ l <= head
  BY <1>2, StoreAssumption, ResumeStarts DEF TypeOK, NoScan
<1>4. \/ scanning' = [pc |-> "failed"]
      \/ \E latest \in Heights :
           LET from == Resume(DeployedAt)
           IN scanning' = IF from > latest THEN [pc |-> "put", left |-> {}, found |-> {}, through |-> latest, complete |-> TRUE]
                          ELSE [pc |-> "windows", windows |-> MaxWindows, found |-> {}, through |-> from - 1, latest |-> latest]
  BY ResumeStarts DEF BeginWindows
<1>5. CASE scanning' = [pc |-> "failed"]
  <2>1. ScanShape' /\ ScanCovers'
    BY <1>5 DEF ScanShape, Began, ScanCovers
  <2>2. TypeOK'
    BY <1>1, <1>2, <1>5 DEF TypeOK, BeginWindows
  <2>3. MemoryFilled' /\ NoLogMissed' /\ RequestShape' /\ CompleteMeansCurrent'
    BY <1>1, <1>2, <1>5 DEF MemoryFilled, NoLogMissed, RequestShape, CompleteMeansCurrent, Upto
  <2>4. QED
    BY <2>1, <2>2, <2>3
<1>6. ASSUME NEW latest \in Heights, Resume(DeployedAt) > latest,
             scanning' = [pc |-> "put", left |-> {}, found |-> {}, through |-> latest, complete |-> TRUE]
      PROVE  StoreInv'
  <2>1. latest \in NoScan .. head /\ latest <= ScanNow
    BY <1>3, <1>6, ResumeStarts DEF NoScan
  <2>2. ScanShape'
    BY <1>1, <1>6, <2>1 DEF ScanShape, Putting
  <2>3. ScanCovers'
    BY <1>1, <1>2, <1>3, <1>6, <2>1 DEF ScanCovers, Upto
  <2>4. TypeOK'
    BY <1>1, <1>2, <1>6 DEF TypeOK, BeginWindows
  <2>5. MemoryFilled' /\ NoLogMissed' /\ RequestShape' /\ CompleteMeansCurrent'
    BY <1>1, <1>2, <1>6 DEF MemoryFilled, NoLogMissed, RequestShape, CompleteMeansCurrent, Upto
  <2>6. QED
    BY <2>2, <2>3, <2>4, <2>5
<1>7. ASSUME NEW latest \in Heights, ~ (Resume(DeployedAt) > latest),
             scanning' = [pc |-> "windows", windows |-> MaxWindows, found |-> {},
                          through |-> Resume(DeployedAt) - 1, latest |-> latest]
      PROVE  StoreInv'
  <2> DEFINE through == Resume(DeployedAt) - 1
  <2>1. /\ through \in NoScan .. head /\ through < latest
        /\ through = DeployedAt - 1 \/ through <= ScanNow - Lag
    BY <1>3, <1>7, ResumeStarts DEF NoScan
  <2>2. ScanShape'
    BY <1>1, <1>7, <2>1, ResumeStarts, StoreAssumption DEF ScanShape, Reading
  <2> HIDE DEF through
  <2>3. Upto(through) \subseteq EventsNow
    BY <1>2, <1>3, <2>1 DEF Upto
  <2>4. ScanCovers'
    <3>1. {b \in Upto(latest - Lag) : b <= through} \subseteq EventsNow
      BY <2>3 DEF Upto
    <3>2. QED
      BY <1>1, <1>7, <3>1 DEF ScanCovers, Upto, through
  <2>5. TypeOK'
    BY <1>1, <1>2, <1>7 DEF TypeOK, BeginWindows
  <2>6. MemoryFilled' /\ NoLogMissed' /\ RequestShape' /\ CompleteMeansCurrent'
    BY <1>1, <1>2, <1>7 DEF MemoryFilled, NoLogMissed, RequestShape, CompleteMeansCurrent, Upto
  <2>7. QED
    BY <2>2, <2>4, <2>5, <2>6
<1>8. QED
  BY <1>4, <1>5, <1>6, <1>7

\* A step of a scan that touches the scan alone.
LEMMA ScanGoesOn ==
    ASSUME StoreInv, loaded, scanning.pc # "none", scanning'.pc # "none",
           UNCHANGED <<head, logs, stored, savedScan, loaded, events, scan, request, alarm, ringing, connected>>,
           faults' \in 0 .. MaxFaults, ScanShape', ScanCovers'
    PROVE  StoreInv'
<1> USE DEF StoreInv
<1>1. scanning'.pc \in {"none", "begin", "windows", "stamps", "put", "save", "failed"}
  BY DEF ScanShape, Began, Reading, Stamping, Putting, Saving
<1>2. TypeOK'
  BY <1>1 DEF TypeOK
<1>3. MemoryFilled' /\ NoLogMissed' /\ RequestShape' /\ CompleteMeansCurrent'
  BY DEF MemoryFilled, NoLogMissed, RequestShape, CompleteMeansCurrent, Upto
<1>4. QED
  BY <1>2, <1>3

\* A batch of windows is found as far as it was good, whoever answered.
LEMMA ReadKeeps ==
    ASSUME StoreInv, ReadWindows
    PROVE  StoreInv'
<1> USE DEF StoreInv
<1> DEFINE through == scanning.through
           latest  == scanning.latest
           batch   == Min({scanning.windows, Concurrency})
           Cut(n)  == WindowEnd(through + n * WindowSize, latest)
<1>1. /\ Reading(scanning) /\ loaded
      /\ UNCHANGED <<head, logs, stored, savedScan, loaded, events, scan, request, alarm, ringing, connected>>
  BY DEF ReadWindows, ScanShape, Began, Reading, Stamping, Putting, Saving, MemoryFilled, chain, storage, memory
<1>2. /\ scanning.windows \in Nat \ {0} /\ scanning.found \subseteq logs
      /\ through \in Int /\ -1 <= through /\ through <= head /\ latest \in DeployedAt .. head /\ through < latest
  BY <1>1, StoreAssumption DEF Reading, NoScan, TypeOK
<1>3. batch \in Nat \ {0} /\ batch <= scanning.windows
  <2>1. scanning.windows \in Nat \ {0} /\ Concurrency \in Nat \ {0}
    BY <1>2, StoreAssumption
  <2> DEFINE windows == scanning.windows
  <2>2. windows \in Int /\ Concurrency \in Int
    BY <2>1
  <2>3. /\ batch \in {windows, Concurrency} /\ batch <= windows
    <3> HIDE DEF windows
    <3>1. Min({windows, Concurrency}) \in {windows, Concurrency} /\ Min({windows, Concurrency}) <= windows
      BY <2>2, MinOfTwo
    <3>2. QED
      BY <3>1 DEF windows
  <2> HIDE DEF batch
  <2>4. QED
    BY <2>1, <2>3
<1>4. \A n \in Nat : Cut(n) \in Int /\ through <= Cut(n) /\ Cut(n) <= latest
  <2>1. ASSUME NEW n \in Nat
        PROVE  Cut(n) \in Int /\ through <= Cut(n) /\ Cut(n) <= latest
    <3>1. n * WindowSize \in Nat
      BY StoreAssumption
    <3>2. latest \in Int /\ through + n * WindowSize \in Int /\ through <= through + n * WindowSize
      BY <1>2, <3>1, StoreAssumption
    <3> DEFINE end == through + n * WindowSize
    <3> HIDE DEF end, through, latest
    <3>3. Min({end, latest}) \in {end, latest} /\ Min({end, latest}) <= latest
      BY <3>2, MinOfTwo DEF end
    <3>4. QED
      BY <1>2, <3>2, <3>3 DEF WindowEnd, end
  <2>2. QED
    BY <2>1
<1> HIDE DEF batch, Cut, through, latest
<1>5. PICK good \in 0 .. batch, sees \in Heights :
        LET failed == Cut(good) < Cut(batch)
            found  == scanning.found \cup {b \in Upto(sees) : through < b /\ b <= Cut(good)}
        IN /\ IF failed THEN Strikes("rpc") ELSE good = batch /\ Spared
           /\ scanning' =
                IF failed \/ Cut(good) = latest \/ scanning.windows = batch
                THEN [pc |-> "stamps", found |-> found, through |-> Cut(good), complete |-> Cut(good) = latest]
                ELSE [scanning EXCEPT !.windows = @ - batch, !.found = found, !.through = Cut(good)]
  BY DEF ReadWindows, ThroughGood, batch, Cut, through, latest
<1> DEFINE found == scanning.found \cup {b \in Upto(sees) : through < b /\ b <= Cut(good)}
           end   == Cut(good)
           done  == end = latest
<1>6. /\ end \in NoScan .. head /\ end <= latest /\ found \subseteq logs
      /\ {b \in Upto(latest - Lag) : b <= end} \subseteq events \cup found
  <2>1. end \in Int /\ through <= end /\ end <= latest
    BY <1>3, <1>4, <1>5
  <2>2. sees \in Int /\ sees >= head - Lag /\ {head, Lag} \subseteq Nat /\ \A b \in logs : b \in Int
    BY StoreAssumption, ResumeStarts DEF TypeOK
  <2>3. {b \in Upto(latest - Lag) : b <= through} \subseteq events \cup scanning.found
    BY <1>1 DEF ScanCovers, Reading, through, latest
  <2>4. ASSUME NEW b \in Upto(latest - Lag), b <= end
        PROVE  b \in events \cup found
    <3>1. b \in logs /\ b \in Int /\ b <= latest - Lag /\ b <= sees
      BY <1>2, <2>2 DEF Upto
    <3>2. CASE b <= through
      BY <2>3, <3>2
    <3>3. CASE b > through
      BY <2>4, <3>1, <3>3 DEF Upto
    <3>4. QED
      BY <1>2, <3>1, <3>2, <3>3
  <2>5. found \subseteq logs
    BY <1>2 DEF Upto
  <2> HIDE DEF end, found
  <2>6. end \in NoScan .. head
    BY <1>2, <2>1, <2>2 DEF NoScan
  <2>7. QED
    BY <2>1, <2>4, <2>5, <2>6
<1> HIDE DEF end, found
<1>7. faults' \in 0 .. MaxFaults
  BY <1>5, StoreAssumption DEF Strikes, Spared, TypeOK
<1>8. CASE Cut(good) < Cut(batch) \/ end = latest \/ scanning.windows = batch
  <2>1. scanning' = [pc |-> "stamps", found |-> found, through |-> end, complete |-> done]
    BY <1>5, <1>8 DEF end, found
  <2> HIDE DEF done
  <2>2. Upto(end - Lag) \subseteq events \cup found
    <3>1. {end, latest, head} \subseteq Int /\ Lag \in Nat /\ \A b \in logs : b \in Int
      BY <1>2, <1>6, StoreAssumption DEF TypeOK, NoScan
    <3>2. \A b \in Upto(end - Lag) : b \in Upto(latest - Lag) /\ b <= end
      BY <1>6, <3>1 DEF Upto
    <3>3. QED
      BY <1>6, <3>2
  <2>3. done \in BOOLEAN
    BY DEF done
  <2>4. ScanShape'
    BY <1>1, <1>6, <2>1, <2>3 DEF ScanShape, Stamping
  <2>5. ScanCovers'
    BY <1>1, <2>1, <2>2 DEF ScanCovers, Upto
  <2>6. scanning.pc # "none" /\ scanning'.pc # "none"
    BY <1>1, <2>1 DEF Reading
  <2>7. QED
    BY <1>1, <1>7, <2>4, <2>5, <2>6, ScanGoesOn
<1>9. CASE ~ (Cut(good) < Cut(batch) \/ end = latest \/ scanning.windows = batch)
  <2>1. scanning' = [scanning EXCEPT !.windows = @ - batch, !.found = found, !.through = end]
    BY <1>5, <1>9 DEF end, found
  <2>2. scanning.windows - batch \in Nat \ {0}
    BY <1>2, <1>3, <1>9
  <2>3. end < latest
    BY <1>2, <1>6, <1>9 DEF NoScan
  <2>4. Reading(scanning)'
    BY <1>1, <1>2, <1>6, <2>1, <2>2, <2>3 DEF Reading, latest
  <2>5. scanning'.pc = "windows" /\ scanning'.latest = latest /\ scanning'.through = end /\ scanning'.found = found
    BY <1>1, <2>1 DEF Reading, latest
  <2>6. ScanCovers'
    BY <1>1, <1>6, <2>5 DEF ScanCovers, Upto
  <2>7. scanning.pc # "none" /\ scanning'.pc # "none" /\ ScanShape'
    BY <1>1, <2>4, <2>5 DEF Reading, ScanShape
  <2>8. QED
    BY <1>1, <1>7, <2>6, <2>7, ScanGoesOn
<1>10. QED
  BY <1>8, <1>9

\* Reading the times of the blocks changes nothing that was found.
LEMMA StampsKeep ==
    ASSUME StoreInv, ReadStamps
    PROVE  StoreInv'
<1> USE DEF StoreInv
<1>1. /\ Stamping(scanning) /\ loaded
      /\ UNCHANGED <<head, logs, stored, savedScan, loaded, events, scan, request, alarm, ringing, connected>>
      /\ faults' \in 0 .. MaxFaults
  BY StoreAssumption DEF ReadStamps, ScanShape, Began, Reading, Stamping, Putting, Saving, MemoryFilled,
                         chain, storage, memory, Strikes, Spared, TypeOK
<1>2. CASE scanning' = [pc |-> "put", left |-> scanning.found, found |-> scanning.found,
                        through |-> scanning.through, complete |-> scanning.complete]
  <2>1. ScanShape'
    BY <1>1, <1>2 DEF ScanShape, Stamping, Putting
  <2>2. ScanCovers'
    BY <1>1, <1>2 DEF ScanCovers, Stamping, Upto
  <2>3. QED
    BY <1>1, <1>2, <2>1, <2>2, ScanGoesOn DEF Stamping
<1>3. CASE scanning' = [pc |-> "failed"]
  <2>1. ScanShape' /\ ScanCovers'
    BY <1>3 DEF ScanShape, Began, ScanCovers
  <2>2. QED
    BY <1>1, <1>3, <2>1, ScanGoesOn DEF Stamping
<1>4. QED
  BY <1>2, <1>3 DEF ReadStamps

\* What is written is part of what the scan found.
LEMMA PutStores ==
    ASSUME StoreInv, PutEvents
    PROVE  /\ Putting(scanning) /\ loaded
           /\ UNCHANGED <<head, logs, savedScan, loaded, events, scan, request, alarm, ringing, connected, faults>>
           /\ \E batch \in SUBSET logs : /\ stored' = stored \cup batch
                                         /\ scanning' = [scanning EXCEPT !.left = @ \ batch]
<1> USE DEF StoreInv
<1>1. Putting(scanning) /\ loaded
  BY DEF PutEvents, ScanShape, Began, Reading, Stamping, Putting, Saving, MemoryFilled
<1>2. PICK batch \in kSubset(Min({Cardinality(scanning.left), PutSize}), scanning.left) :
        stored' = stored \cup batch /\ scanning' = [scanning EXCEPT !.left = @ \ batch]
  BY DEF PutEvents
<1>3. batch \subseteq scanning.left
  BY DEF kSubset
<1>4. batch \in SUBSET logs
  BY <1>1, <1>3 DEF Putting
<1>5. QED
  BY <1>1, <1>2, <1>4 DEF PutEvents, chain, memory

\* Writing events keeps memory within storage.
LEMMA PutKeeps ==
    ASSUME StoreInv, PutEvents
    PROVE  StoreInv'
<1> USE DEF StoreInv
<1>1. /\ Putting(scanning) /\ loaded
      /\ UNCHANGED <<head, logs, savedScan, loaded, events, scan, request, alarm, ringing, connected, faults>>
  BY PutStores
<1>2. PICK batch \in SUBSET logs : /\ stored' = stored \cup batch
                                   /\ scanning' = [scanning EXCEPT !.left = @ \ batch]
  BY PutStores
<1>3. /\ Putting(scanning)' /\ scanning'.pc = "put" /\ scanning'.left = scanning.left \ batch
      /\ scanning'.found = scanning.found /\ scanning'.through = scanning.through
  BY <1>1, <1>2 DEF Putting
<1>4. ScanShape' /\ ScanCovers'
  BY <1>1, <1>2, <1>3 DEF ScanShape, ScanCovers, Putting, Upto
<1>5. TypeOK'
  BY <1>1, <1>2, <1>3 DEF TypeOK, Putting
<1>6. MemoryFilled' /\ NoLogMissed' /\ RequestShape' /\ CompleteMeansCurrent'
  BY <1>1, <1>2, <1>3 DEF MemoryFilled, NoLogMissed, RequestShape, CompleteMeansCurrent, Upto
<1>7. QED
  BY <1>4, <1>5, <1>6

\* What is remembered has been written.
LEMMA RememberKeeps ==
    ASSUME StoreInv, Remember
    PROVE  StoreInv'
<1> USE DEF StoreInv
<1>1. /\ Putting(scanning) /\ loaded /\ scanning.left = {}
      /\ events' = events \cup scanning.found /\ scan' = scanning.through
      /\ scanning' = [pc |-> "save", complete |-> scanning.complete]
      /\ UNCHANGED <<head, logs, stored, savedScan, loaded, request, alarm, ringing, connected, faults>>
  BY DEF Remember, ScanShape, Began, Reading, Stamping, Putting, Saving, MemoryFilled, chain, storage
<1>2. scanning.found \subseteq stored /\ Upto(scanning.through - Lag) \subseteq events'
  BY <1>1 DEF ScanCovers, Putting
<1>3. ScanShape' /\ ScanCovers'
  BY <1>1 DEF ScanShape, ScanCovers, Putting, Saving
<1>4. TypeOK'
  BY <1>1 DEF TypeOK, Putting
<1>5. MemoryFilled' /\ NoLogMissed'
  BY <1>1, <1>2 DEF MemoryFilled, NoLogMissed, Putting, Upto
<1>6. RequestShape' /\ CompleteMeansCurrent'
  BY <1>1 DEF RequestShape, CompleteMeansCurrent
<1>7. QED
  BY <1>3, <1>4, <1>5, <1>6

\* Waking whoever waits leaves every request with a known stage.
LEMMA WakeTypes ==
    ASSUME StoreInv, NEW ok \in BOOLEAN, Wake(ok), ok => loaded
    PROVE  /\ DOMAIN request' = Requests /\ scanning' = NotScanning
           /\ ringing' \in {"none", "joined", "reschedule"}
           /\ \A r \in Requests : \/ request'[r] = request[r] /\ request[r].pc # "joined"
                                  \/ request'[r] = [pc |-> "answer"] /\ loaded
                                  \/ request'[r] = [pc |-> "idle"]
BY DEF StoreInv, TypeOK, Wake, Waiting

\* The checkpoint that is saved is the one memory covers.
LEMMA WakeKeeps ==
    ASSUME StoreInv, SaveScan \/ FailScan
    PROVE  StoreInv'
<1> USE DEF StoreInv
<1>1. /\ UNCHANGED <<head, logs, stored, loaded, events, scan, connected, faults>>
      /\ savedScan' \in {savedScan, scan} /\ alarm' \in BOOLEAN
      /\ savedScan' = savedScan \/ loaded
      /\ \E ok \in BOOLEAN : Wake(ok) /\ (ok => loaded)
  <2>1. CASE SaveScan
    <3>1. loaded /\ Saving(scanning)
      BY <2>1 DEF SaveScan, MemoryFilled, ScanShape, Began, Reading, Stamping, Putting, Saving
    <3>2. scanning.complete \in BOOLEAN /\ alarm \in BOOLEAN
      BY <3>1 DEF Saving, TypeOK
    <3>3. alarm' \in BOOLEAN
      BY <2>1, <3>2 DEF SaveScan
    <3>4. QED
      BY <2>1, <3>1, <3>3 DEF SaveScan, chain, memory
  <2>2. CASE FailScan
    BY <2>2 DEF FailScan, chain, storage, memory, TypeOK
  <2>3. QED
    BY <2>1, <2>2
<1>2. /\ DOMAIN request' = Requests /\ scanning' = NotScanning
      /\ ringing' \in {"none", "joined", "reschedule"}
      /\ \A r \in Requests : \/ request'[r] = request[r] /\ request[r].pc # "joined"
                             \/ request'[r] = [pc |-> "answer"] /\ loaded
                             \/ request'[r] = [pc |-> "idle"]
  BY <1>1, WakeTypes
<1>3. ScanShape' /\ ScanCovers'
  BY <1>2 DEF ScanShape, ScanCovers, Began, NotScanning
<1>4. TypeOK'
  BY <1>1, <1>2 DEF TypeOK, NotScanning
<1>5. MemoryFilled' /\ NoLogMissed'
  BY <1>1, <1>2 DEF MemoryFilled, NoLogMissed, Upto, NotScanning
<1>6. RequestShape' /\ CompleteMeansCurrent'
  BY <1>1, <1>2 DEF RequestShape, CompleteMeansCurrent
<1>7. QED
  BY <1>3, <1>4, <1>5, <1>6

-----------------------------------------------------------------------------
(* The views, the alarm, the runtime and the chain *)

\* Joining starts a scan unless one is under way.
LEMMA JoinTypes ==
    ASSUME StoreInv, Join, UNCHANGED <<head, logs, stored, loaded, events>>
    PROVE  /\ ScanShape' /\ ScanCovers'
           /\ scanning'.pc \in {"none", "begin", "windows", "stamps", "put", "save", "failed"}
           /\ scanning'.pc \in {"windows", "stamps", "put", "save"} => loaded
<1> USE DEF StoreInv
<1>1. CASE scanning = NotScanning
  <2>1. scanning' = [pc |-> "begin"]
    BY <1>1 DEF Join
  <2>2. QED
    BY <2>1 DEF ScanShape, Began, ScanCovers
<1>2. CASE scanning # NotScanning
  <2>1. scanning' = scanning
    BY <1>2 DEF Join
  <2>2. QED
    BY <2>1 DEF ScanShape, Began, Reading, Stamping, Putting, Saving, ScanCovers, TypeOK, MemoryFilled, Upto
<1>3. QED
  BY <1>1, <1>2

\* One view moves and the rest of the object keeps its invariant.
LEMMA ViewMoves ==
    ASSUME StoreInv, NEW r \in Requests, NEW v,
           request' = [request EXCEPT ![r] = v],
           \/ v \in [pc : {"idle", "first", "measure", "joined", "answer"}]
           \/ /\ v \in [pc : {"answered"}, complete : BOOLEAN, missing : SUBSET Int, latest : DeployedAt .. MaxBlock]
              /\ v.complete => \A b \in v.missing : b > v.latest - CurrentWithin - Lag,
           v.pc \in {"first", "measure", "joined", "answer"} => loaded',
           request[r].pc # "joined",
           UNCHANGED <<head, logs, stored, ringing, connected>>,
           loaded => loaded', events' \subseteq stored, 
           savedScan' \in NoScan .. head, Upto(savedScan' - Lag) \subseteq stored,
           scan' \in NoScan .. head, loaded' \in BOOLEAN, loaded' => Upto(scan' - Lag) \subseteq events',
           alarm' \in BOOLEAN, faults' \in 0 .. MaxFaults,
           ScanShape', ScanCovers',
           scanning'.pc \in {"none", "begin", "windows", "stamps", "put", "save", "failed"},
           scanning'.pc \in {"windows", "stamps", "put", "save"} => loaded',
           scanning'.pc # "none" => scanning.pc # "none" \/ v.pc = "joined"
    PROVE  StoreInv'
<1> USE DEF StoreInv
<1>1. /\ DOMAIN request' = Requests /\ request'[r] = v /\ \A q \in Requests \ {r} : request'[q] = request[q]
      /\ v.pc \in {"idle", "first", "measure", "joined", "answer", "answered"}
  BY DEF TypeOK
<1>2. TypeOK'
  <2>1. scanning'.pc # "none" => ringing' = "joined" \/ \E q \in Requests : request'[q].pc = "joined"
    BY <1>1 DEF TypeOK
  <2>2. events' \subseteq logs
    BY DEF TypeOK
  <2>3. QED
    BY <1>1, <2>1, <2>2 DEF TypeOK
<1>3. RequestShape' /\ CompleteMeansCurrent'
  BY <1>1 DEF RequestShape, CompleteMeansCurrent
<1>4. MemoryFilled' /\ NoLogMissed'
  BY <1>1 DEF MemoryFilled, NoLogMissed, Upto
<1>5. QED
  BY <1>2, <1>3, <1>4

\* One view moves and nothing else does.
LEMMA ViewMovesAlone ==
    ASSUME StoreInv, NEW r \in Requests, NEW v,
           request' = [request EXCEPT ![r] = v],
           \/ v \in [pc : {"idle", "first", "measure", "joined", "answer"}]
           \/ /\ v \in [pc : {"answered"}, complete : BOOLEAN, missing : SUBSET Int, latest : DeployedAt .. MaxBlock]
              /\ v.complete => \A b \in v.missing : b > v.latest - CurrentWithin - Lag,
           v.pc \in {"first", "measure", "joined", "answer"} => loaded,
           request[r].pc # "joined",
           UNCHANGED <<head, logs, stored, savedScan, loaded, events, scan, scanning, alarm, ringing, connected>>,
           faults' \in 0 .. MaxFaults
    PROVE  StoreInv'
<1> USE DEF StoreInv
<1>1. /\ DOMAIN request' = Requests /\ request'[r] = v /\ \A q \in Requests \ {r} : request'[q] = request[q]
      /\ v.pc \in {"idle", "first", "measure", "joined", "answer", "answered"}
  BY DEF TypeOK
<1>2. TypeOK'
  BY <1>1 DEF TypeOK
<1>3. RequestShape' /\ CompleteMeansCurrent'
  BY <1>1 DEF RequestShape, CompleteMeansCurrent
<1>4. MemoryFilled' /\ NoLogMissed' /\ ScanShape' /\ ScanCovers'
  BY <1>1 DEF MemoryFilled, NoLogMissed, Upto, ScanShape, Began, Reading, Stamping, Putting, Saving, ScanCovers
<1>5. QED
  BY <1>2, <1>3, <1>4

\* Whatever step a view takes, it keeps the invariant; a first view starts the
\* checkpoint below every event, an answer compares it with the head.
LEMMA ViewKeeps ==
    ASSUME StoreInv, NEW r \in Requests, View(r)
    PROVE  StoreInv'
<1> USE DEF StoreInv
<1>1. /\ scanning.pc \in {"none", "begin", "windows", "stamps", "put", "save", "failed"}
      /\ scanning.pc \in {"windows", "stamps", "put", "save"} => loaded
      /\ \A q \in Requests : request[q].pc \in {"first", "measure", "joined", "answer"} => loaded
      /\ loaded => events \subseteq stored /\ Upto(scan - Lag) \subseteq events
      /\ events \subseteq stored /\ Upto(savedScan - Lag) \subseteq stored
      /\ savedScan \in NoScan .. head /\ scan \in NoScan .. head
      /\ loaded \in BOOLEAN /\ alarm \in BOOLEAN /\ faults \in 0 .. MaxFaults
  BY DEF TypeOK, MemoryFilled, NoLogMissed, ScanShape, Began, Reading, Stamping, Putting, Saving
<1>2. UNCHANGED <<head, logs, stored, loaded, events, scanning>> => /\ ScanShape' /\ ScanCovers'
  BY DEF ScanShape, Began, Reading, Stamping, Putting, Saving, ScanCovers, Upto
<1>3. ASSUME Ask(r)
      PROVE  StoreInv'
  <2>1. /\ request' = [request EXCEPT ![r] = [pc |-> IF ScanNow = NoScan THEN "first" ELSE "measure"]]
        /\ loaded' = TRUE /\ events' = EventsNow /\ scan' = ScanNow /\ request[r].pc = "idle"
        /\ UNCHANGED <<head, logs, stored, savedScan, scanning, alarm, ringing, connected, faults>>
    BY <1>3 DEF Ask, LoadStore, Goto, chain, storage
  <2>2. /\ events \subseteq EventsNow /\ EventsNow \subseteq stored
        /\ Upto(ScanNow - Lag) \subseteq EventsNow /\ ScanNow \in NoScan .. head
        /\ scanning.pc \in {"windows", "stamps", "put", "save"} => EventsNow = events
    BY <1>1 DEF EventsNow, ScanNow, MemoryFilled
  <2>3. ScanShape' /\ ScanCovers'
    BY <2>1, <2>2 DEF ScanShape, Began, Reading, Stamping, Putting, Saving, ScanCovers, Upto
  <2> DEFINE v == [pc |-> IF ScanNow = NoScan THEN "first" ELSE "measure"]
  <2>4. v \in [pc : {"idle", "first", "measure", "joined", "answer"}] /\ v.pc \in {"first", "measure"}
    OBVIOUS
  <2>5. request' = [request EXCEPT ![r] = v]
    BY <2>1
  <2> HIDE DEF v
  <2>6. QED
    BY <1>1, <2>1, <2>2, <2>3, <2>4, <2>5, ViewMoves
<1>4. ASSUME FirstScan(r)
      PROVE  StoreInv'
  <2>1. /\ request[r].pc = "first" /\ loaded
        /\ UNCHANGED <<head, logs, stored, loaded, events, ringing, connected, faults>>
    BY <1>1, <1>4 DEF FirstScan, chain
  <2>2. CASE Join /\ Goto(r, "joined") /\ UNCHANGED <<savedScan, scan, alarm>>
    BY <1>1, <2>1, <2>2, JoinTypes, ViewMoves DEF Goto
  <2>3. ASSUME NEW latest \in Heights, scan' = DeployedAt - 1, savedScan' = DeployedAt - 1,
               alarm' = TRUE, Goto(r, "answer"), UNCHANGED scanning
        PROVE  StoreInv'
    <3>1. DeployedAt - 1 \in NoScan .. head /\ Upto(DeployedAt - 1 - Lag) = {}
      <4>1. /\ {head, Lag, DeployedAt} \subseteq Nat /\ DeployedAt <= head /\ 0 < DeployedAt
            /\ \A b \in logs : b \in Int /\ DeployedAt <= b
        BY StoreAssumption DEF TypeOK
      <4>2. QED
        BY <4>1 DEF NoScan, Upto
    <3>2. QED
      BY <1>1, <1>2, <2>1, <2>3, <3>1, ViewMoves DEF Goto
  <2>4. QED
    BY <1>4, <2>2, <2>3, ResumeStarts DEF FirstScan
<1>5. ASSUME Measure(r)
      PROVE  StoreInv'
  <2>1. /\ request[r].pc = "measure" /\ loaded
        /\ UNCHANGED <<head, logs, stored, savedScan, loaded, events, scan, ringing, connected, faults>>
    BY <1>1, <1>5 DEF Measure, chain, storage, memory
  <2>2. CASE Join /\ Goto(r, "joined") /\ UNCHANGED alarm
    BY <1>1, <2>1, <2>2, JoinTypes, ViewMoves DEF Goto
  <2>3. CASE alarm' \in {alarm, TRUE} /\ Goto(r, "answer") /\ UNCHANGED scanning
    BY <1>1, <1>2, <2>1, <2>3, ViewMoves DEF Goto
  <2>4. QED
    BY <1>5, <2>2, <2>3 DEF Measure
<1>6. ASSUME Answer(r)
      PROVE  StoreInv'
  <2>1. /\ request[r].pc = "answer" /\ loaded
        /\ UNCHANGED <<head, logs, stored, savedScan, loaded, events, scan, scanning, alarm, ringing, connected, faults>>
    BY <1>1, <1>6 DEF Answer, chain, storage, memory
  <2>2. PICK latest \in Heights :
          request' = [request EXCEPT ![r] = [pc |-> "answered", complete |-> CurrentEnough(Behind(latest)),
                                             missing |-> Upto(latest) \ events, latest |-> latest]]
    BY <1>6 DEF Answer
  <2>3. /\ latest \in DeployedAt .. MaxBlock /\ latest \in Nat /\ scan \in Int
        /\ Lag \in Nat /\ CurrentWithin \in Nat /\ \A b \in logs : b \in Int
    BY <1>1, ResumeStarts, StoreAssumption DEF TypeOK, NoScan
  <2>4. CurrentEnough(Behind(latest)) \in BOOLEAN
    BY DEF CurrentEnough
  <2>5. ASSUME CurrentEnough(Behind(latest)), NEW b \in Upto(latest) \ events
        PROVE  b > latest - CurrentWithin - Lag
    <3>1. latest - scan <= CurrentWithin
      BY <2>3, <2>5 DEF CurrentEnough, Behind
    <3>2. b \in Int /\ ~ (b <= scan - Lag)
      BY <1>1, <2>1, <2>3 DEF Upto
    <3>3. QED
      BY <2>3, <3>1, <3>2
  <2> DEFINE v == [pc |-> "answered", complete |-> CurrentEnough(Behind(latest)),
                   missing |-> Upto(latest) \ events, latest |-> latest]
  <2>6. /\ v \in [pc : {"answered"}, complete : BOOLEAN, missing : SUBSET Int, latest : DeployedAt .. MaxBlock]
        /\ v.complete => \A b \in v.missing : b > v.latest - CurrentWithin - Lag
        /\ v.pc = "answered"
    BY <2>3, <2>4, <2>5 DEF Upto
  <2>7. request' = [request EXCEPT ![r] = v]
    BY <2>2
  <2> HIDE DEF v
  <2>8. QED
    BY <1>1, <2>1, <2>6, <2>7, ViewMovesAlone
<1>7. ASSUME Respond(r)
      PROVE  StoreInv'
  <2>1. /\ request[r].pc = "answered" /\ request' = [request EXCEPT ![r] = [pc |-> "idle"]]
        /\ UNCHANGED <<head, logs, stored, savedScan, loaded, events, scan, scanning, alarm, ringing, connected, faults>>
    BY <1>7 DEF Respond, chain, storage, memory, Waiting
  <2> DEFINE v == [pc |-> "idle"]
  <2>2. v \in [pc : {"idle", "first", "measure", "joined", "answer"}] /\ v.pc = "idle"
    OBVIOUS
  <2>3. request' = [request EXCEPT ![r] = v]
    BY <2>1
  <2> HIDE DEF v
  <2>4. QED
    BY <1>1, <2>1, <2>2, <2>3, ViewMovesAlone
<1>8. ASSUME FailRequest(r)
      PROVE  StoreInv'
  <2>1. /\ request[r].pc # "joined" /\ request' = [request EXCEPT ![r] = [pc |-> "idle"]]
        /\ UNCHANGED <<head, logs, stored, savedScan, loaded, events, scan, scanning, alarm, ringing, connected>>
        /\ faults' \in 0 .. MaxFaults
    BY <1>1, <1>8, StoreAssumption DEF FailRequest, chain, storage, memory, Waiting, Strikes
  <2> DEFINE v == [pc |-> "idle"]
  <2>2. v \in [pc : {"idle", "first", "measure", "joined", "answer"}] /\ v.pc = "idle"
    OBVIOUS
  <2>3. request' = [request EXCEPT ![r] = v]
    BY <2>1
  <2> HIDE DEF v
  <2>4. QED
    BY <1>1, <2>1, <2>2, <2>3, ViewMovesAlone
<1>9. QED
  BY <1>3, <1>4, <1>5, <1>6, <1>7, <1>8 DEF View

\* The alarm and the websocket leave storage and memory alone.
LEMMA AlarmKeeps ==
    ASSUME StoreInv, Ring \/ Reschedule \/ Connect \/ Disconnect
    PROVE  StoreInv'
<1> USE DEF StoreInv
<1>1. UNCHANGED <<head, logs, stored, savedScan, loaded, events, scan, request, faults>>
  BY DEF Ring, Reschedule, Connect, Disconnect, chain, storage, memory
<1>2. alarm' \in BOOLEAN /\ connected' \in BOOLEAN
  BY DEF Ring, Reschedule, Connect, Disconnect, TypeOK, AlarmAgain
<1>3. ringing' \in {"none", "joined", "reschedule"} /\ (ringing = "joined" => ringing' = "joined")
  BY DEF Ring, Reschedule, Connect, Disconnect, TypeOK
<1>4. UNCHANGED scanning \/ (Join /\ ringing' = "joined")
  BY DEF Ring, Reschedule, Connect, Disconnect
<1>5. /\ ScanShape' /\ ScanCovers'
      /\ scanning'.pc \in {"none", "begin", "windows", "stamps", "put", "save", "failed"}
      /\ scanning'.pc \in {"windows", "stamps", "put", "save"} => loaded
      /\ scanning'.pc # "none" => scanning.pc # "none" \/ ringing' = "joined"
  <2>1. CASE UNCHANGED scanning
    BY <1>1, <2>1 DEF ScanShape, Began, Reading, Stamping, Putting, Saving, ScanCovers, Upto, TypeOK, MemoryFilled
  <2>2. CASE Join /\ ringing' = "joined"
    BY <1>1, <2>2, JoinTypes
  <2>3. QED
    BY <1>4, <2>1, <2>2
<1>6. TypeOK'
  BY <1>1, <1>2, <1>3, <1>5 DEF TypeOK
<1>7. MemoryFilled' /\ NoLogMissed' /\ RequestShape' /\ CompleteMeansCurrent'
  BY <1>1, <1>5 DEF MemoryFilled, NoLogMissed, RequestShape, CompleteMeansCurrent, Upto
<1>8. QED
  BY <1>5, <1>6, <1>7

\* An evicted object has storage and nothing else.
LEMMA EvictKeeps ==
    ASSUME StoreInv, Evict
    PROVE  StoreInv'
<1> USE DEF StoreInv
<1>1. /\ UNCHANGED <<head, logs, stored, savedScan>>
      /\ loaded' = FALSE /\ events' = {} /\ scan' = NoScan /\ scanning' = [pc |-> "none"]
      /\ request' = [r \in Requests |-> [pc |-> "idle"]]
      /\ alarm' \in BOOLEAN /\ ringing' = "none" /\ connected' = FALSE
      /\ faults' \in 0 .. MaxFaults
  BY StoreAssumption DEF Evict, chain, storage, NotScanning, Waiting, Strikes, TypeOK
<1>2. \A r \in Requests : request'[r] = [pc |-> "idle"]
  BY <1>1
<1>3. DOMAIN request' = Requests
  BY <1>1
<1>4. NoScan \in NoScan .. head
  BY StoreAssumption DEF TypeOK, NoScan
<1>5. TypeOK'
  BY <1>1, <1>2, <1>3, <1>4 DEF TypeOK
<1>6. ScanShape' /\ ScanCovers' /\ RequestShape'
  BY <1>1, <1>2 DEF ScanShape, Began, ScanCovers, RequestShape
<1>7. MemoryFilled' /\ NoLogMissed' /\ CompleteMeansCurrent'
  BY <1>1, <1>2 DEF MemoryFilled, NoLogMissed, CompleteMeansCurrent, Upto
<1>8. QED
  BY <1>5, <1>6, <1>7

\* A new block is above everything the store has heard of.
LEMMA GrowKeeps ==
    ASSUME StoreInv, Grow
    PROVE  StoreInv' /\ \A n \in Int : n <= head => Upto(n)' = Upto(n)
<1> USE DEF StoreInv
<1>1. /\ head < MaxBlock /\ head' = head + 1 /\ logs \subseteq logs' /\ logs' \subseteq logs \cup {head + 1}
      /\ UNCHANGED <<stored, savedScan, loaded, events, scan, scanning, request, alarm, ringing, connected, faults>>
  BY DEF Grow, storage, memory
<1>2. head \in Nat /\ head' \in DeployedAt .. MaxBlock /\ head <= head' /\ {Lag, DeployedAt} \subseteq Nat
  BY <1>1, StoreAssumption DEF TypeOK
<1>3. \A n \in Int : n <= head => Upto(n)' = Upto(n)
  BY <1>1, <1>2 DEF Upto
<1>4. TypeOK'
  <2>1. logs' \subseteq DeployedAt .. head'
    BY <1>1, <1>2 DEF TypeOK
  <2>2. savedScan \in NoScan .. head' /\ scan \in NoScan .. head'
    BY <1>1, <1>2 DEF TypeOK, NoScan
  <2>3. QED
    BY <1>1, <1>2, <2>1, <2>2 DEF TypeOK
<1>5. NoLogMissed'
  BY <1>1, <1>2, <1>3 DEF TypeOK, NoScan, NoLogMissed
<1>6. ScanShape'
  BY <1>1, <1>2 DEF ScanShape, Began, Reading, Stamping, Putting, Saving, NoScan
<1>7. ScanCovers'
  <2>1. CASE scanning.pc = "windows"
    <3>1. scanning.latest - Lag \in Int /\ scanning.latest - Lag <= head
      BY <1>2, <2>1 DEF ScanShape, Began, Reading, Stamping, Putting, Saving
    <3>2. Upto(scanning.latest - Lag)' = Upto(scanning.latest - Lag)
      BY <1>1, <1>3, <3>1
    <3>3. QED
      BY <1>1, <2>1, <3>2 DEF ScanCovers
  <2>2. CASE scanning.pc \in {"stamps", "put"}
    <3>1. scanning.through - Lag \in Int /\ scanning.through - Lag <= head
      BY <1>2, <2>2 DEF ScanShape, Began, Reading, Stamping, Putting, Saving, NoScan
    <3>2. Upto(scanning.through - Lag)' = Upto(scanning.through - Lag)
      BY <1>1, <1>3, <3>1
    <3>3. QED
      BY <1>1, <2>2, <3>2 DEF ScanCovers
  <2>3. QED
    BY <1>1, <2>1, <2>2 DEF ScanCovers
<1>8. MemoryFilled' /\ RequestShape' /\ CompleteMeansCurrent'
  BY <1>1 DEF MemoryFilled, RequestShape, CompleteMeansCurrent
<1>9. QED
  BY <1>3, <1>4, <1>5, <1>6, <1>7, <1>8

\* Every step keeps the invariant.
LEMMA StoreStep ==
    ASSUME StoreInv, [Next]_vars, Lag <= Overlap
    PROVE  StoreInv'
<1>1. CASE Grow
  BY <1>1, GrowKeeps
<1>2. CASE ScanOnce
  BY <1>2, BeginKeeps, ReadKeeps, StampsKeep, PutKeeps, RememberKeeps, WakeKeeps DEF ScanOnce
<1>3. CASE Evict
  BY <1>3, EvictKeeps
<1>4. CASE Deliver
  BY <1>4, AlarmKeeps, ViewKeeps DEF Deliver
<1>5. CASE UNCHANGED vars
  <2>1. StoreInv' <=> StoreInv
    BY <1>5 DEF vars, chain, storage, memory, StoreInv, TypeOK, ScanShape, Began, Reading, Stamping, Putting,
                Saving, RequestShape, MemoryFilled, ScanCovers, NoLogMissed, CompleteMeansCurrent, Upto
  <2>2. QED
    BY <2>1
<1>6. QED
  BY <1>1, <1>2, <1>3, <1>4, <1>5 DEF Next

-----------------------------------------------------------------------------
(* The theorems.  They need the overlap to reach back over the blocks by which a
   node may trail the chain: without it a scan can start above an event that the
   last one was not shown. *)

\* The invariant holds.
LEMMA StoreInvariant ==
    ASSUME Lag <= Overlap
    PROVE  Spec => []StoreInv
<1>1. Init => StoreInv
  BY StoreInit
<1>2. StoreInv /\ [Next]_vars => StoreInv'
  BY StoreStep
<1>3. QED
  BY <1>1, <1>2, PTL DEF Spec

\* Neither storage nor memory holds anything that is not on the chain, no scan
\* ends above the head, and none is left under way that nobody waits for.
THEOREM StoreTypeCorrect ==
    ASSUME Lag <= Overlap
    PROVE  Spec => []TypeOK
<1>1. StoreInv => TypeOK
  BY DEF StoreInv
<1>2. QED
  BY <1>1, StoreInvariant, PTL

\* A window that fails is never skipped over, whoever else scans, asks, is
\* evicted or answers from a lower height (scanPortfolioLogs, syncLog).
THEOREM StoreMissesNoLog ==
    ASSUME Lag <= Overlap
    PROVE  Spec => []NoLogMissed
<1>1. StoreInv => NoLogMissed
  BY DEF StoreInv
<1>2. QED
  BY <1>1, StoreInvariant, PTL

\* A view whose history is called complete lacks nothing older than the last
\* few blocks (CURRENT_WITHIN_BLOCKS).
THEOREM StoreCompleteIsCurrent ==
    ASSUME Lag <= Overlap
    PROVE  Spec => []CompleteMeansCurrent
<1>1. StoreInv => CompleteMeansCurrent
  BY DEF StoreInv
<1>2. QED
  BY <1>1, StoreInvariant, PTL

-----------------------------------------------------------------------------
(* Storage implements the ledger. *)

\* Nothing is stored and nothing covered at first.
LEMMA LedgerInit == Init => Ledger!Init
<1> SUFFICES ASSUME Init
             PROVE  Ledger!Init
  OBVIOUS
<1>1. stored = {} /\ logs = {DeployedAt} /\ savedScan = -1
  BY DEF Init, NoScan
<1>2. Upto(savedScan - Lag) = {}
  BY <1>1, StoreAssumption DEF Upto
<1>3. QED
  BY <1>1, <1>2 DEF Ledger!Init

\* Only a write adds rows and only the chain adds logs.
LEMMA StepKinds ==
    ASSUME [Next]_vars
    PROVE  Grow \/ PutEvents \/ UNCHANGED <<logs, stored>>
BY DEF Next, vars, chain, storage, memory, ScanOnce, BeginWindows, ReadWindows, ReadStamps, Remember, SaveScan,
       FailScan, Evict, Deliver, View, Ask, FirstScan, Measure, Answer, Respond, FailRequest, Ring, Reschedule,
       Connect, Disconnect

\* A step is a step of the ledger, or stutters.
LEMMA LedgerStep ==
    ASSUME StoreInv, StoreInv', [Next]_vars
    PROVE  [Ledger!Next]_(Ledger!ledgerVars)
<1> DEFINE covered == Upto(savedScan - Lag)
           count   == [b \in stored |-> 0]
<1>1. CASE Grow
  <2>1. logs \subseteq logs' /\ UNCHANGED <<stored, savedScan>>
    BY <1>1 DEF Grow, storage
  <2>2. savedScan - Lag \in Int /\ savedScan - Lag <= head
    BY StoreAssumption DEF StoreInv, TypeOK, NoScan
  <2>3. covered' = covered
    BY <1>1, <2>1, <2>2, GrowKeeps
  <2>4. count' = count
    BY <2>1
  <2>5. Ledger!Publish
    BY <2>1, <2>3, <2>4 DEF Ledger!Publish
  <2>6. QED
    BY <2>5 DEF Ledger!Next
<1>2. CASE PutEvents
  <2>1. UNCHANGED <<logs, savedScan>> /\ \E batch \in SUBSET logs : stored' = stored \cup batch
    BY <1>2, PutStores
  <2>2. covered' = covered
    BY <2>1 DEF Upto
  <2>3. stored \subseteq stored' /\ stored' \subseteq logs
    BY <2>1 DEF StoreInv, TypeOK
  <2>4. count' = [l \in stored' |-> IF l \in stored THEN count[l] ELSE 0]
    <3>1. \A l \in stored' : (IF l \in stored THEN count[l] ELSE 0) = 0
      OBVIOUS
    <3>2. QED
      BY <3>1
  <2>5. Ledger!Claim
    BY <2>1, <2>2, <2>3, <2>4 DEF Ledger!Claim
  <2>6. QED
    BY <2>5 DEF Ledger!Next
<1>3. CASE UNCHANGED <<logs, stored>>
  <2>1. covered' \subseteq stored
    BY <1>3 DEF StoreInv, NoLogMissed, Upto
  <2>2. count' = count
    BY <1>3
  <2>3. Ledger!Cover
    BY <1>3, <2>1, <2>2 DEF Ledger!Cover
  <2>4. QED
    BY <2>3 DEF Ledger!Next
<1>4. QED
  BY <1>1, <1>2, <1>3, StepKinds

\* The store keeps what an event ledger promises: rows are only ever added, for
\* logs that exist, and the checkpoint covers rows only.
THEOREM StoreImplementsLedger ==
    ASSUME Lag <= Overlap
    PROVE  Spec => ImplementsLedger
<1>1. Init => Ledger!Init
  BY LedgerInit
<1>2. StoreInv /\ StoreInv' /\ [Next]_vars => [Ledger!Next]_(Ledger!ledgerVars)
  BY LedgerStep
<1>3. Spec => []StoreInv
  BY StoreInvariant
<1>4. QED
  BY <1>1, <1>2, <1>3, PTL DEF Spec, ImplementsLedger, Ledger!Spec
==============================================================================
